----------------------------- MODULE LiveProofs -----------------------------
(***************************************************************************)
(* Proofs about the components of which something is promised in the end.  *)
(*                                                                         *)
(* Admission control, for any number of requests and any budget.  The      *)
(* counter in the Map is right (OneBudget) because a waiter keeps its      *)
(* BudgetState alive, so that no object is dropped while a timer or a      *)
(* release still needs it; the queue loses no wake-up (NoIdleSlot) because *)
(* it is only ever entered when every slot is taken.  The two are          *)
(* inductive together, as BudgetInv, and give the refinement.              *)
(*                                                                         *)
(* The wallet's session, for any accounts and any number of tasks: a       *)
(* session never loses its timer without a refresh on its way that ends it *)
(* or replaces it (SessionTimed).                                          *)
(*                                                                         *)
(* The ledger, for any transactions and any number of jobs: a final row    *)
(* says what the chain says, and only successes are asked about by the     *)
(* page (LedgerInv), so that every write of it agrees.                     *)
(***************************************************************************)
EXTENDS MCLive, FiniteSetTheorems, SequenceTheorems, WellFoundedInduction, TLAPS

\* Objects that are yet to be created.
Fresh ==
  \A s \in Requests : pc[s] = "idle" => active[s] = 0 /\ queue[s] = <<>> /\ scope # s

Counted ==
  /\ scope = None => Working = {} /\ Waiting = {}
  /\ scope # None => active[scope] = Cardinality(Working) /\ active[scope] > 0

\* The queue of the object in the Map holds requests that wait, each once,
\* and is empty unless every slot is taken.
Lined ==
  scope # None =>
    /\ \A i \in 1..Len(queue[scope]) : pc[queue[scope][i]] = "waiting"
    /\ \A i, j \in 1..Len(queue[scope]) : queue[scope][i] = queue[scope][j] => i = j
    /\ queue[scope] # <<>> => active[scope] = Concurrency

Housed ==
  \A r \in Requests : pc[r] = "waiting" =>
    /\ home[r] = scope /\ scope # None
    /\ \E i \in 1..Len(queue[scope]) : queue[scope][i] = r

BudgetInv == TypeOK /\ Fresh /\ Counted /\ Lined /\ Housed

----------------------------------------------------------------------------
(* Sequences and counting *)

LEMMA RemoveAtFacts ==
  ASSUME NEW S, NEW q \in Seq(S), NEW i \in 1..Len(q)
  PROVE  /\ RemoveAt(q, i) \in Seq(S)
         /\ Len(RemoveAt(q, i)) = Len(q) - 1
         /\ \A j \in 1..Len(q) - 1 :
              RemoveAt(q, i)[j] = IF j < i THEN q[j] ELSE q[j + 1]
<1> DEFINE front == SubSeq(q, 1, i - 1)
           back  == SubSeq(q, i + 1, Len(q))
<1>1. /\ front \in Seq(S) /\ Len(front) = i - 1
      /\ \A j \in 1..i - 1 : front[j] = q[j]
  BY SubSeqProperties
<1>2. /\ back \in Seq(S) /\ Len(back) = Len(q) - i
      /\ \A j \in 1..Len(q) - i : back[j] = q[j + i]
  BY SubSeqProperties
<1> HIDE DEF front, back
<1>3. RemoveAt(q, i) = front \o back
  BY DEF RemoveAt, front, back
<1>4. /\ front \o back \in Seq(S)
      /\ Len(front \o back) = Len(front) + Len(back)
      /\ \A j \in 1..Len(front) + Len(back) :
           (front \o back)[j] = IF j <= Len(front) THEN front[j]
                               ELSE back[j - Len(front)]
  BY <1>1, <1>2, ConcatProperties
<1> DEFINE both == front \o back
<1> HIDE DEF both
<1>5. /\ both \in Seq(S)
      /\ Len(both) = Len(front) + Len(back)
      /\ \A j \in 1..Len(front) + Len(back) :
           both[j] = IF j <= Len(front) THEN front[j] ELSE back[j - Len(front)]
  BY <1>4 DEF both
<1>6. Len(both) = Len(q) - 1
  BY <1>1, <1>2, <1>5
<1>7. ASSUME NEW j \in 1..Len(q) - 1
      PROVE  both[j] = IF j < i THEN q[j] ELSE q[j + 1]
  <2>1. CASE j < i
    <3>1. /\ Len(q) \in Nat /\ i \in 1..Len(q) /\ j \in 1..i - 1
          /\ j \in 1..(i - 1) + (Len(q) - i)
      BY <2>1
    <3>2. both[j] = front[j]
      BY <1>1, <1>2, <1>5, <3>1
    <3>3. QED
      BY <1>1, <2>1, <3>1, <3>2
  <2>2. CASE ~(j < i)
    <3>1. /\ Len(q) \in Nat /\ i \in 1..Len(q) /\ j \in Int
          /\ i <= j /\ j <= Len(q) - 1
      BY <2>2
    <3>2. j - (i - 1) \in 1..Len(q) - i /\ (j - (i - 1)) + i = j + 1
      BY <3>1
    <3>3. both[j] = back[j - (i - 1)]
      BY <1>1, <1>2, <1>5, <3>1
    <3>4. QED
      BY <1>2, <2>2, <3>2, <3>3
  <2>3. QED
    BY <2>1, <2>2
<1>8. QED
  BY <1>3, <1>5, <1>6, <1>7 DEF both

LEMMA TailFacts ==
  ASSUME NEW S, NEW q \in Seq(S), q # <<>>
  PROVE  /\ SubSeq(q, 2, Len(q)) = Tail(q)
         /\ Tail(q) \in Seq(S)
         /\ Len(Tail(q)) = Len(q) - 1
         /\ \A j \in 1..Len(q) - 1 : Tail(q)[j] = q[j + 1]
BY TailIsSubSeq, HeadTailProperties

LEMMA WorkersCounted ==
  TypeOK => IsFiniteSet(Working) /\ Cardinality(Working) \in Nat
BY BudgetAssumption, FS_Subset, FS_CardinalityType DEF Working

LEMMA WorkerEnters ==
  ASSUME TypeOK, NEW r \in Requests, pc[r] # "working", Goto(r, "working")
  PROVE  /\ Working' = Working \cup {r}
         /\ Cardinality(Working') = Cardinality(Working) + 1
<1>1. Working' = Working \cup {r}
  BY DEF TypeOK, Goto, Working
<1>2. QED
  BY <1>1, WorkersCounted, FS_AddElement DEF Working

LEMMA FullWakesOne ==
  ASSUME NEW a, NEW q, a = Concurrency, Len(q) \in Nat, Len(q) > 0
  PROVE  Wakes(a - 1, q) = 1
<1> DEFINE len == Len(q)
<1>1. len \in Nat /\ len > 0 /\ Concurrency \in Nat
  BY BudgetAssumption
<1>2. Wakes(a - 1, q) =
        IF a - 1 >= Concurrency THEN 0
        ELSE IF Concurrency - (a - 1) < len THEN Concurrency - (a - 1) ELSE len
  BY DEF Wakes
<1> HIDE DEF len
<1>3. QED
  BY <1>1, <1>2

\* What a release does, BudgetInv given: nothing but free a slot when nobody
\* waits, and hand it to the first waiter otherwise.
LEMMA ReleaseHandsOver ==
  ASSUME BudgetInv, NEW r \in Requests, Finish(r)
  PROVE  /\ scope \in Requests
         /\ r \in Working
         /\ \/ /\ queue[scope] = <<>>
               /\ active' = [active EXCEPT ![scope] = @ - 1]
               /\ queue' = queue
               /\ pc' = [pc EXCEPT ![r] = "done"]
               /\ scope' = IF active[scope] = 1 THEN None ELSE scope
            \/ /\ queue[scope] # <<>>
               /\ active' = active
               /\ queue' = [queue EXCEPT ![scope] = Tail(@)]
               /\ pc' = [pc EXCEPT ![r] = "done", ![Head(queue[scope])] = "working"]
               /\ scope' = scope
<1> USE BudgetAssumption
<1>1. /\ r \in Working /\ scope \in Requests
      /\ active[scope] \in 1..Concurrency
      /\ queue[scope] \in Seq(Requests)
  BY DEF BudgetInv, TypeOK, Finish, Working, Counted
<1> DEFINE q == queue[scope]
           rest == IF active[scope] > 0 THEN active[scope] - 1 ELSE 0
           n == Wakes(rest, q)
<1>2. rest = active[scope] - 1
  BY <1>1
<1>3. /\ active' = [active EXCEPT ![scope] = rest + n]
      /\ queue' = [queue EXCEPT ![scope] = SubSeq(q, n + 1, Len(q))]
      /\ pc' = [p \in Requests |->
                  IF p = r THEN "done"
                  ELSE IF p \in {q[i] : i \in 1..n} THEN "working" ELSE pc[p]]
      /\ scope' = IF Idle(rest + n, SubSeq(q, n + 1, Len(q))) THEN None ELSE scope
  BY <1>1 DEF Finish
<1>4. CASE q = <<>>
  <2>1. n = 0
    BY <1>1, <1>2, <1>4 DEF Wakes
  <2>2. SubSeq(q, n + 1, Len(q)) = <<>>
    BY <1>4, <2>1, SubSeqEmpty
  <2>3. {q[i] : i \in 1..n} = {}
    BY <2>1
  <2> HIDE DEF n, rest
  <2>4. rest + n = active[scope] - 1
    BY <1>1, <1>2, <2>1
  <2>5. pc' = [pc EXCEPT ![r] = "done"]
    BY <1>3, <2>3 DEF BudgetInv, TypeOK
  <2>6. queue' = queue
    BY <1>1, <1>3, <1>4, <2>2 DEF BudgetInv, TypeOK
  <2>7. scope' = IF active[scope] = 1 THEN None ELSE scope
    BY <1>1, <1>3, <2>2, <2>4 DEF Idle
  <2>8. QED
    BY <1>1, <1>3, <1>4, <2>4, <2>5, <2>6, <2>7
<1>5. CASE q # <<>>
  <2>1. active[scope] = Concurrency /\ Len(q) > 0
    BY <1>1, <1>5 DEF BudgetInv, Lined
  <2>2. n = 1
    <3>1. Len(q) \in Nat /\ Concurrency \in Nat
      BY <1>1
    <3>2. Wakes(active[scope] - 1, q) = 1
      BY <2>1, <3>1, FullWakesOne
    <3>3. QED
      BY <1>2, <3>2
  <2>3. SubSeq(q, n + 1, Len(q)) = Tail(q)
    BY <1>1, <1>5, <2>2, TailFacts
  <2>4. {q[i] : i \in 1..n} = {Head(q)}
    BY <2>1, <2>2
  <2> HIDE DEF n, rest
  <2>5. rest + n = active[scope] /\ rest + n # 0
    BY <1>1, <1>2, <2>1, <2>2
  <2>6. Head(q) \in Requests /\ Head(q) # r
    BY <1>1, <1>5, <2>1 DEF BudgetInv, Lined, Working
  <2>7. pc' = [pc EXCEPT ![r] = "done", ![Head(q)] = "working"]
    BY <1>3, <2>4, <2>6 DEF BudgetInv, TypeOK
  <2>8. active' = active
    BY <1>1, <1>3, <2>5 DEF BudgetInv, TypeOK
  <2>9. QED
    BY <1>1, <1>3, <1>5, <2>3, <2>5, <2>7, <2>8 DEF Idle
<1>6. QED
  BY <1>4, <1>5

----------------------------------------------------------------------------
(* BudgetInv is inductive. *)

LEMMA InitInv == Init => BudgetInv
<1> USE BudgetAssumption
<1>1. ASSUME Init PROVE <<>> \in Seq(Requests) /\ Len(<<>>) = 0
  OBVIOUS
<1>2. QED
  BY <1>1 DEF Init, BudgetInv, TypeOK, Fresh, Counted, Lined, Housed, Working, Waiting

LEMMA AdmitKeeps ==
  ASSUME BudgetInv, NEW r \in Requests, Admit(r)
  PROVE  BudgetInv'
<1> USE BudgetAssumption
<1> DEFINE s == StateFor(r)
<1>1. /\ s \in Requests /\ pc[r] = "idle" /\ active[s] < Concurrency
      /\ scope' = s
      /\ active' = [active EXCEPT ![s] = @ + 1]
      /\ pc' = [pc EXCEPT ![r] = "working"]
      /\ queue' = queue /\ home' = home
  BY DEF Admit, StateFor, Room, Goto, BudgetInv, TypeOK
<1>2. /\ scope = None => s = r /\ active[s] = 0 /\ queue[s] = <<>>
      /\ scope # None => s = scope
  BY <1>1 DEF StateFor, BudgetInv, Fresh
<1> HIDE DEF s
<1>3. TypeOK'
  BY <1>1 DEF BudgetInv, TypeOK
<1>4. Fresh'
  BY <1>1, <1>2 DEF BudgetInv, TypeOK, Fresh
<1>5. Counted'
  <2>1. Cardinality(Working') = Cardinality(Working) + 1
    BY <1>1, WorkerEnters DEF BudgetInv, Goto
  <2>2. active[s] = Cardinality(Working)
    BY <1>2, FS_EmptySet DEF BudgetInv, Counted
  <2>3. Cardinality(Working) \in Nat
    BY WorkersCounted DEF BudgetInv
  <2>4. active'[scope'] = Cardinality(Working') /\ active'[scope'] > 0
    BY <1>1, <2>1, <2>2, <2>3 DEF BudgetInv, TypeOK
  <2>5. scope' # None
    BY <1>1
  <2>6. QED
    BY <2>4, <2>5 DEF Counted
<1>6. Lined'
  <2>1. queue[s] = <<>>
    BY <1>1, <1>2 DEF BudgetInv, Lined
  <2>2. Len(queue[s]) = 0
    BY <2>1
  <2>3. QED
    BY <1>1, <2>1, <2>2 DEF Lined
<1>7. Housed'
  <2>1. \A p \in Requests : pc'[p] = "waiting" => pc[p] = "waiting"
    BY <1>1 DEF BudgetInv, TypeOK
  <2>2. CASE scope = None
    BY <2>1, <2>2 DEF BudgetInv, Counted, Waiting, Housed
  <2>3. CASE scope # None
    BY <1>1, <1>2, <2>1, <2>3 DEF BudgetInv, Housed
  <2>4. QED
    BY <2>2, <2>3
<1>8. QED
  BY <1>3, <1>4, <1>5, <1>6, <1>7 DEF BudgetInv

LEMMA WaitKeeps ==
  ASSUME BudgetInv, NEW r \in Requests, Wait(r)
  PROVE  BudgetInv'
<1> USE BudgetAssumption
<1>1. /\ scope \in Requests /\ StateFor(r) = scope /\ pc[r] = "idle"
      /\ active[scope] = Concurrency
  BY DEF Wait, StateFor, Room, BudgetInv, TypeOK, Fresh
<1> DEFINE q == queue[scope]
<1>2. /\ q \in Seq(Requests) /\ Len(q) < QueueLimit
      /\ scope' = scope
      /\ queue' = [queue EXCEPT ![scope] = Append(q, r)]
      /\ home' = [home EXCEPT ![r] = scope]
      /\ pc' = [pc EXCEPT ![r] = "waiting"]
      /\ active' = active
  BY <1>1 DEF Wait, QueueFull, Goto, BudgetInv, TypeOK
<1>3. /\ Append(q, r) \in Seq(Requests) /\ Len(Append(q, r)) = Len(q) + 1
      /\ \A i \in 1..Len(q) : Append(q, r)[i] = q[i]
      /\ Append(q, r)[Len(q) + 1] = r
      /\ Append(q, r) # <<>>
      /\ Len(q) \in Nat
  BY <1>2, AppendProperties
<1>4. queue'[scope] = Append(q, r)
  BY <1>1, <1>2 DEF BudgetInv, TypeOK
<1>5. TypeOK'
  BY <1>1, <1>2, <1>3 DEF BudgetInv, TypeOK
<1>6. Fresh'
  BY <1>1, <1>2 DEF BudgetInv, TypeOK, Fresh
<1>7. Counted'
  <2>1. Working' = Working
    BY <1>1, <1>2 DEF Working, BudgetInv, TypeOK
  <2>2. QED
    BY <1>1, <1>2, <2>1 DEF BudgetInv, Counted
<1>8. Lined'
  <2>1. \A i \in 1..Len(q) : pc[q[i]] = "waiting" /\ q[i] \in Requests /\ q[i] # r
    BY <1>1, <1>2 DEF BudgetInv, Lined
  <2>2. \A i, j \in 1..Len(q) : q[i] = q[j] => i = j
    BY <1>1 DEF BudgetInv, Lined
  <2> HIDE DEF q
  <2>3. \A i \in 1..Len(q) + 1 : pc'[Append(q, r)[i]] = "waiting"
    <3>1. \A i \in 1..Len(q) : pc'[Append(q, r)[i]] = "waiting"
      BY <1>2, <1>3, <2>1 DEF BudgetInv, TypeOK
    <3>2. pc'[Append(q, r)[Len(q) + 1]] = "waiting"
      BY <1>2, <1>3 DEF BudgetInv, TypeOK
    <3>3. \A i \in 1..Len(q) + 1 : i \in 1..Len(q) \/ i = Len(q) + 1
      BY <1>3
    <3>4. QED
      BY <3>1, <3>2, <3>3
  <2>4. \A i, j \in 1..Len(q) + 1 : Append(q, r)[i] = Append(q, r)[j] => i = j
    BY <1>3, <2>1, <2>2
  <2>5. active'[scope'] = Concurrency
    BY <1>1, <1>2
  <2> DEFINE longer == Append(q, r)
  <2> HIDE DEF longer
  <2>6. /\ Len(longer) = Len(q) + 1 /\ queue'[scope'] = longer
        /\ \A i \in 1..Len(q) + 1 : pc'[longer[i]] = "waiting"
        /\ \A i, j \in 1..Len(q) + 1 : longer[i] = longer[j] => i = j
    BY <1>2, <1>3, <1>4, <2>3, <2>4 DEF longer
  <2>7. QED
    BY <2>5, <2>6 DEF Lined
<1>9. Housed'
  <2>1. \A p \in Requests : p # r /\ pc'[p] = "waiting" =>
          /\ home'[p] = scope
          /\ \E i \in 1..Len(q) : q[i] = p
    BY <1>1, <1>2 DEF BudgetInv, Housed, TypeOK
  <2>2. home'[r] = scope
    BY <1>1, <1>2 DEF BudgetInv, TypeOK
  <2> HIDE DEF q
  <2>3. \A p \in Requests : pc'[p] = "waiting" =>
          \E i \in 1..Len(q) + 1 : Append(q, r)[i] = p
    BY <1>3, <2>1
  <2>4. QED
    BY <1>1, <1>2, <1>3, <1>4, <2>1, <2>2, <2>3 DEF Housed
<1>10. QED
  BY <1>5, <1>6, <1>7, <1>8, <1>9 DEF BudgetInv

LEMMA RefuseKeeps ==
  ASSUME BudgetInv, NEW r \in Requests, Refuse(r)
  PROVE  BudgetInv'
<1> USE BudgetAssumption
<1>1. /\ scope \in Requests /\ scope' = scope /\ pc[r] = "idle"
      /\ pc' = [pc EXCEPT ![r] = "refused"]
      /\ active' = active /\ queue' = queue /\ home' = home
  BY DEF Refuse, StateFor, Room, Goto, BudgetInv, TypeOK, Fresh
<1>2. Working' = Working /\ Waiting' = Waiting
  BY <1>1 DEF Working, Waiting, BudgetInv, TypeOK
<1>3. TypeOK' /\ Fresh' /\ Counted'
  BY <1>1, <1>2 DEF BudgetInv, TypeOK, Fresh, Counted
<1>4. Lined'
  BY <1>1 DEF BudgetInv, TypeOK, Lined
<1>5. Housed'
  BY <1>1 DEF BudgetInv, TypeOK, Housed
<1>6. QED
  BY <1>3, <1>4, <1>5 DEF BudgetInv

LEMMA FreeSlotKeeps ==
  ASSUME BudgetInv, NEW r \in Requests, Finish(r), queue[scope] = <<>>
  PROVE  BudgetInv'
<1> USE BudgetAssumption
<1>1. /\ scope \in Requests /\ r \in Working
      /\ active' = [active EXCEPT ![scope] = @ - 1]
      /\ queue' = queue /\ home' = home
      /\ pc' = [pc EXCEPT ![r] = "done"]
      /\ scope' = IF active[scope] = 1 THEN None ELSE scope
  BY ReleaseHandsOver DEF Finish
<1>2. /\ active[scope] = Cardinality(Working) /\ active[scope] \in 1..Concurrency
      /\ pc[r] = "working"
  BY <1>1 DEF BudgetInv, TypeOK, Counted, Working
<1>3. Waiting = {}
  <2>1. Len(queue[scope]) = 0
    OBVIOUS
  <2>2. QED
    BY <2>1 DEF BudgetInv, Housed, Waiting
<1>4. Waiting' = {}
  BY <1>1, <1>3 DEF Waiting, BudgetInv, TypeOK
<1>5. TypeOK'
  BY <1>1, <1>2 DEF BudgetInv, TypeOK
<1>6. Fresh'
  BY <1>1, <1>2 DEF BudgetInv, TypeOK, Fresh
<1>7. Counted'
  <2>1. Working' = Working \ {r}
    BY <1>1 DEF Working, BudgetInv, TypeOK
  <2>2. IsFiniteSet(Working') /\ Cardinality(Working') = Cardinality(Working) - 1
    BY <1>1, <2>1, WorkersCounted, FS_RemoveElement DEF BudgetInv
  <2>3. active'[scope] = Cardinality(Working')
    BY <1>1, <1>2, <2>2 DEF BudgetInv, TypeOK
  <2>4. CASE active[scope] = 1
    <3>1. Cardinality(Working') = 0
      BY <1>2, <2>2, <2>4
    <3>2. Working' = {}
      BY <2>2, <3>1, FS_EmptySet
    <3>3. QED
      BY <1>1, <1>4, <2>4, <3>2 DEF Counted
  <2>5. CASE active[scope] # 1
    <3>1. scope' = scope /\ scope # None
      BY <1>1, <2>5
    <3>2. active'[scope] > 0
      BY <1>1, <1>2, <2>5 DEF BudgetInv, TypeOK
    <3>3. QED
      BY <2>3, <3>1, <3>2 DEF Counted
  <2>6. QED
    BY <2>4, <2>5
<1>8. Lined'
  <2>1. scope' # None => queue'[scope'] = <<>>
    BY <1>1
  <2>2. Len(<<>>) = 0
    OBVIOUS
  <2>3. QED
    BY <2>1, <2>2 DEF Lined
<1>9. Housed'
  BY <1>4 DEF Housed, Waiting
<1>10. QED
  BY <1>5, <1>6, <1>7, <1>8, <1>9 DEF BudgetInv

LEMMA HandOverKeeps ==
  ASSUME BudgetInv, NEW r \in Requests, Finish(r), queue[scope] # <<>>
  PROVE  /\ BudgetInv'
         /\ scope' = scope /\ queue'[scope] = Tail(queue[scope])
         /\ Working' = (Working \ {r}) \cup {Head(queue[scope])}
<1> USE BudgetAssumption
<1> DEFINE q == queue[scope]
           h == Head(q)
<1>1. /\ scope \in Requests /\ r \in Working
      /\ active' = active /\ home' = home /\ scope' = scope
      /\ queue' = [queue EXCEPT ![scope] = Tail(q)]
      /\ pc' = [pc EXCEPT ![r] = "done", ![h] = "working"]
  BY ReleaseHandsOver DEF Finish
<1>2. /\ q \in Seq(Requests) /\ q # <<>> /\ Len(q) \in Nat /\ Len(q) > 0
      /\ h = q[1]
      /\ Tail(q) \in Seq(Requests) /\ Len(Tail(q)) = Len(q) - 1
      /\ \A j \in 1..Len(q) - 1 : Tail(q)[j] = q[j + 1]
  <2>1. q \in Seq(Requests) /\ q # <<>>
    BY <1>1 DEF BudgetInv, TypeOK
  <2>2. Len(q) \in Nat /\ Len(q) > 0
    BY <2>1
  <2>3. h = q[1]
    BY <2>1
  <2>4. QED
    BY <2>1, <2>2, <2>3, TailFacts
<1>3. /\ \A i \in 1..Len(q) : pc[q[i]] = "waiting" /\ q[i] \in Requests
      /\ \A i, j \in 1..Len(q) : q[i] = q[j] => i = j
      /\ active[scope] = Concurrency
  <2>1. \A i \in 1..Len(q) : q[i] \in Requests
    BY <1>2
  <2>2. scope # None
    BY <1>1
  <2>3. QED
    BY <1>2, <2>1, <2>2 DEF BudgetInv, Lined
<1>4. h \in Requests /\ pc[h] = "waiting" /\ pc[r] = "working" /\ h # r
  BY <1>1, <1>2, <1>3 DEF Working
<1>5. queue'[scope] = Tail(q)
  BY <1>1 DEF BudgetInv, TypeOK
<1> DEFINE rest == Tail(q)
<1>6. /\ rest \in Seq(Requests) /\ Len(rest) = Len(q) - 1
      /\ \A j \in 1..Len(q) - 1 : rest[j] = q[j + 1]
      /\ queue' = [queue EXCEPT ![scope] = rest]
      /\ queue'[scope] = rest
  BY <1>1, <1>2, <1>5
<1> HIDE DEF h, q, rest
<1>7. /\ pc' \in [Requests -> {"idle", "waiting", "working", "done", "refused", "timedOut"}]
      /\ \A p \in Requests : pc'[p] = IF p = h THEN "working"
                                      ELSE IF p = r THEN "done" ELSE pc[p]
  BY <1>1, <1>4 DEF BudgetInv, TypeOK
<1>8. Working' = (Working \ {r}) \cup {h}
  BY <1>4, <1>7 DEF Working
<1>9. Cardinality(Working') = Cardinality(Working)
  <2>1. /\ IsFiniteSet(Working \ {r}) /\ h \notin Working \ {r}
        /\ Cardinality(Working \ {r}) = Cardinality(Working) - 1
    BY <1>1, <1>4, WorkersCounted, FS_RemoveElement DEF BudgetInv, Working
  <2>2. Cardinality(Working') = Cardinality(Working \ {r}) + 1
    BY <1>8, <2>1, FS_AddElement
  <2>3. QED
    BY <2>1, <2>2, WorkersCounted DEF BudgetInv
<1>10. TypeOK'
  <2>1. Len(rest) <= QueueLimit
    BY <1>1, <1>2, <1>6 DEF BudgetInv, TypeOK, q
  <2>2. QED
    BY <1>1, <1>6, <1>7, <2>1 DEF BudgetInv, TypeOK
<1>11. Fresh'
  BY <1>1, <1>6, <1>7 DEF BudgetInv, TypeOK, Fresh
<1>12. Counted'
  BY <1>1, <1>9 DEF BudgetInv, Counted
<1>13. Lined'
  <2>1. \A i \in 1..Len(rest) : /\ i + 1 \in 1..Len(q) /\ i \in 1..Len(q) - 1
                                /\ rest[i] = q[i + 1]
    BY <1>2, <1>6
  <2>2. \A i \in 1..Len(rest) : pc'[rest[i]] = "waiting"
    <3>1. TAKE i \in 1..Len(rest)
    <3>2. rest[i] = q[i + 1] /\ i + 1 \in 1..Len(q) /\ 1 \in 1..Len(q) /\ i + 1 # 1
      BY <1>2, <2>1
    <3>3. rest[i] # h /\ rest[i] # r /\ pc[rest[i]] = "waiting" /\ rest[i] \in Requests
      BY <1>2, <1>3, <1>4, <3>2
    <3>4. QED
      BY <1>7, <3>3
  <2>3. \A i, j \in 1..Len(rest) : rest[i] = rest[j] => i = j
    <3>1. TAKE i, j \in 1..Len(rest)
    <3>2. HAVE rest[i] = rest[j]
    <3>3. i + 1 = j + 1
      BY <1>3, <2>1, <3>2
    <3>4. QED
      BY <3>3
  <2>4. QED
    BY <1>1, <1>3, <1>6, <2>2, <2>3 DEF Lined
<1>14. Housed'
  <2>1. ASSUME NEW p \in Requests, pc'[p] = "waiting"
        PROVE  home'[p] = scope /\ \E i \in 1..Len(rest) : rest[i] = p
    <3>1. pc[p] = "waiting" /\ p # h
      BY <1>7, <2>1
    <3>2. home[p] = scope /\ \E i \in 1..Len(q) : q[i] = p
      BY <3>1 DEF BudgetInv, Housed, q
    <3>3. PICK i \in 1..Len(q) : q[i] = p
      BY <3>2
    <3>4. i # 1
      BY <1>2, <3>1, <3>3
    <3>5. i - 1 \in 1..Len(rest) /\ i - 1 \in 1..Len(q) - 1 /\ (i - 1) + 1 = i
      BY <1>2, <1>6, <3>4
    <3>6. rest[i - 1] = p
      BY <1>6, <3>3, <3>5
    <3>7. QED
      BY <1>1, <3>2, <3>5, <3>6
  <2>2. QED
    BY <1>1, <1>6, <2>1 DEF Housed
<1>15. BudgetInv'
  BY <1>10, <1>11, <1>12, <1>13, <1>14 DEF BudgetInv
<1>16. scope' = scope /\ queue'[scope] = Tail(q) /\ Working' = (Working \ {r}) \cup {Head(q)}
  BY <1>1, <1>6, <1>8 DEF h, rest
<1>17. QED
  BY <1>15, <1>16 DEF q

LEMMA TimesOutKeeps ==
  ASSUME BudgetInv, NEW r \in Requests, TimesOut(r)
  PROVE  /\ BudgetInv'
         /\ scope' = scope /\ Working' = Working
         /\ \E i \in 1..Len(queue[scope]) : queue'[scope] = RemoveAt(queue[scope], i)
<1> USE BudgetAssumption
<1> DEFINE q == queue[scope]
<1>1. /\ home[r] = scope /\ scope \in Requests /\ pc[r] = "waiting"
      /\ q \in Seq(Requests) /\ Len(q) \in Nat
      /\ \E i \in 1..Len(q) : q[i] = r
      /\ active[scope] > 0 /\ active[scope] \in Nat
  BY DEF TimesOut, BudgetInv, TypeOK, Housed, Counted
<1>2. /\ pc' = [pc EXCEPT ![r] = "timedOut"]
      /\ active' = active /\ home' = home /\ scope' = scope
  BY <1>1 DEF TimesOut, Goto, Idle
<1>3. PICK i \in 1..Len(q) : /\ q[i] = r
                             /\ queue' = [queue EXCEPT ![scope] = RemoveAt(q, i)]
  BY <1>1 DEF TimesOut
<1> DEFINE rest == RemoveAt(q, i)
<1>4. /\ rest \in Seq(Requests) /\ Len(rest) = Len(q) - 1
      /\ \A j \in 1..Len(q) - 1 : rest[j] = IF j < i THEN q[j] ELSE q[j + 1]
  <2>1. q \in Seq(Requests) /\ i \in 1..Len(q)
    BY <1>1
  <2> HIDE DEF q
  <2>2. QED
    BY <2>1, RemoveAtFacts
<1>5. queue' = [queue EXCEPT ![scope] = rest] /\ queue'[scope] = rest
  BY <1>1, <1>3 DEF BudgetInv, TypeOK
<1>6. /\ \A j \in 1..Len(q) : pc[q[j]] = "waiting" /\ q[j] \in Requests
      /\ \A j, k \in 1..Len(q) : q[j] = q[k] => j = k
      /\ active[scope] = Concurrency
      /\ Len(q) <= QueueLimit
  <2>1. q # <<>> /\ scope # None
    BY <1>1
  <2>2. \A j \in 1..Len(q) : q[j] \in Requests
    BY <1>1
  <2>3. Len(q) <= QueueLimit
    BY <1>1 DEF BudgetInv, TypeOK
  <2>4. QED
    BY <2>1, <2>2, <2>3 DEF BudgetInv, Lined
<1> HIDE DEF q, rest
<1>7. /\ pc' \in [Requests -> {"idle", "waiting", "working", "done", "refused", "timedOut"}]
      /\ \A p \in Requests : pc'[p] = IF p = r THEN "timedOut" ELSE pc[p]
  BY <1>2 DEF BudgetInv, TypeOK
<1>8. Working' = Working
  BY <1>1, <1>7 DEF Working
<1>9. TypeOK'
  <2>1. Len(rest) <= QueueLimit
    BY <1>1, <1>4, <1>6
  <2>2. QED
    BY <1>1, <1>2, <1>4, <1>5, <1>7, <2>1 DEF BudgetInv, TypeOK
<1>10. Fresh'
  BY <1>1, <1>2, <1>5, <1>7 DEF BudgetInv, TypeOK, Fresh
<1>11. Counted'
  BY <1>1, <1>2, <1>8 DEF BudgetInv, Counted
<1>12. \A j \in 1..Len(rest) :
         \E k \in 1..Len(q) : k # i /\ rest[j] = q[k] /\ k = IF j < i THEN j ELSE j + 1
  <2>1. TAKE j \in 1..Len(rest)
  <2>2. j \in 1..Len(q) - 1 /\ j \in 1..Len(q) /\ j + 1 \in 1..Len(q)
    BY <1>1, <1>4
  <2>3. CASE j < i
    BY <1>4, <2>2, <2>3
  <2>4. CASE ~(j < i)
    <3>1. j + 1 # i
      BY <2>2, <2>4
    <3>2. QED
      BY <1>4, <2>2, <2>4, <3>1
  <2>5. QED
    BY <2>3, <2>4
<1>13. Lined'
  <2>1. \A j \in 1..Len(rest) : pc'[rest[j]] = "waiting"
    BY <1>3, <1>6, <1>7, <1>12
  <2>2. \A j, k \in 1..Len(rest) : rest[j] = rest[k] => j = k
    <3>1. TAKE j, k \in 1..Len(rest)
    <3>2. HAVE rest[j] = rest[k]
    <3>3. (IF j < i THEN j ELSE j + 1) = (IF k < i THEN k ELSE k + 1)
      BY <1>6, <1>12, <3>2
    <3>4. QED
      BY <3>3
  <2>3. QED
    BY <1>2, <1>5, <1>6, <2>1, <2>2 DEF Lined
<1>14. Housed'
  <2>1. ASSUME NEW p \in Requests, pc'[p] = "waiting"
        PROVE  home'[p] = scope /\ \E j \in 1..Len(rest) : rest[j] = p
    <3>1. pc[p] = "waiting" /\ p # r
      BY <1>7, <2>1
    <3>2. home[p] = scope /\ \E k \in 1..Len(q) : q[k] = p
      BY <3>1 DEF BudgetInv, Housed, q
    <3>3. PICK k \in 1..Len(q) : q[k] = p
      BY <3>2
    <3>4. k # i
      BY <1>3, <3>1, <3>3
    <3>5. CASE k < i
      <4>1. k \in 1..Len(rest) /\ k \in 1..Len(q) - 1
        BY <1>1, <1>4, <3>5
      <4>2. QED
        BY <1>2, <1>4, <3>2, <3>3, <3>5, <4>1
    <3>6. CASE ~(k < i)
      <4>1. /\ k - 1 \in 1..Len(rest) /\ k - 1 \in 1..Len(q) - 1
            /\ ~(k - 1 < i) /\ (k - 1) + 1 = k
        BY <1>1, <1>4, <3>4, <3>6
      <4>2. rest[k - 1] = p
        BY <1>4, <3>3, <4>1
      <4>3. QED
        BY <1>2, <3>2, <4>1, <4>2
    <3>7. QED
      BY <3>5, <3>6
  <2>2. QED
    BY <1>1, <1>2, <1>5, <2>1 DEF Housed
<1>15. BudgetInv'
  BY <1>9, <1>10, <1>11, <1>13, <1>14 DEF BudgetInv
<1>16. QED
  BY <1>2, <1>5, <1>8, <1>15 DEF q, rest

LEMMA StutterKeeps ==
  ASSUME BudgetInv, UNCHANGED vars
  PROVE  BudgetInv'
BY DEF BudgetInv, vars, TypeOK, Fresh, Counted, Lined, Housed, Working, Waiting

LEMMA FinishKeeps ==
  ASSUME BudgetInv, NEW r \in Requests, Finish(r)
  PROVE  BudgetInv'
BY FreeSlotKeeps, HandOverKeeps

LEMMA StepKeeps == BudgetInv /\ [Next]_vars => BudgetInv'
<1> SUFFICES ASSUME BudgetInv, [Next]_vars PROVE BudgetInv'
  OBVIOUS
<1>1. CASE UNCHANGED vars
  BY <1>1, StutterKeeps
<1>2. ASSUME NEW r \in Requests,
             Admit(r) \/ Wait(r) \/ Refuse(r) \/ Finish(r) \/ TimesOut(r)
      PROVE  BudgetInv'
  BY <1>2, AdmitKeeps, WaitKeeps, RefuseKeeps, FinishKeeps, TimesOutKeeps
<1>3. QED
  BY <1>1, <1>2 DEF Next

THEOREM Inductive == Spec => []BudgetInv
BY InitInv, StepKeeps, PTL DEF Spec

----------------------------------------------------------------------------
(* The invariants *)

\* Every variable keeps its type; no counter leaves 0..Concurrency and no
\* queue grows beyond QueueLimit.
THEOREM TypeCorrect == Spec => []TypeOK
<1>1. BudgetInv => TypeOK
  BY DEF BudgetInv
<1>2. QED
  BY <1>1, Inductive, PTL

\* The budget of concurrency.ts holds: never more than Concurrency requests
\* do upstream work at once.
THEOREM NeverOverBudget == Spec => []Bounded
<1>1. ASSUME BudgetInv PROVE Bounded
  <2>1. CASE scope = None
    BY <1>1, <2>1, FS_EmptySet, BudgetAssumption
       DEF BudgetInv, Counted, Bounded
  <2>2. CASE scope # None
    BY <1>1, <2>2, BudgetAssumption DEF BudgetInv, Counted, TypeOK, Bounded
  <2>3. QED
    BY <2>1, <2>2
<1>2. QED
  BY <1>1, Inductive, PTL

LEMMA WaitersFindFull ==
  ASSUME BudgetInv, NEW r \in Waiting
  PROVE  /\ scope # None /\ scope \in Requests /\ home[r] = scope
         /\ \E i \in 1..Len(queue[scope]) : queue[scope][i] = r
         /\ active[scope] = Concurrency
<1>1. /\ r \in Requests /\ pc[r] = "waiting"
      /\ home[r] = scope /\ scope # None
      /\ \E i \in 1..Len(queue[scope]) : queue[scope][i] = r
  BY DEF BudgetInv, Housed, Waiting
<1>2. scope \in Requests
  BY <1>1 DEF BudgetInv, TypeOK
<1>3. queue[scope] # <<>>
  BY <1>1
<1>4. QED
  BY <1>1, <1>2, <1>3 DEF BudgetInv, Lined

\* No release loses a wake-up: nobody waits while a slot is free.
THEOREM NoLostWakeup == Spec => []NoIdleSlot
<1>1. ASSUME BudgetInv PROVE NoIdleSlot
  <2>1. SUFFICES ASSUME NEW r \in Waiting
                 PROVE  Cardinality(Working) = Concurrency
    BY DEF NoIdleSlot
  <2>2. QED
    BY <1>1, <2>1, WaitersFindFull DEF BudgetInv, Counted
<1>2. QED
  BY <1>1, Inductive, PTL

\* The object in the Map is the one that counts the work and holds the
\* waiters, however often the scope was dropped and made anew.
THEOREM MapHoldsTheBudget == Spec => []OneBudget
<1>1. ASSUME BudgetInv PROVE OneBudget
  <2>1. scope = None => Working = {}
    BY <1>1 DEF BudgetInv, Counted
  <2>2. scope # None => active[scope] = Cardinality(Working) /\ Working # {}
    <3>1. Working = {} => Cardinality(Working) = 0
      BY FS_EmptySet
    <3>2. QED
      BY <1>1, <3>1 DEF BudgetInv, Counted
  <2>3. \A r \in Waiting : home[r] = scope /\ r \in ToSet(queue[scope])
    <3>1. TAKE r \in Waiting
    <3>2. /\ home[r] = scope /\ scope \in Requests
          /\ \E i \in 1..Len(queue[scope]) : queue[scope][i] = r
      BY <1>1, WaitersFindFull
    <3>3. queue[scope] \in Seq(Requests)
      BY <1>1, <3>2 DEF BudgetInv, TypeOK
    <3>4. QED
      BY <3>2, <3>3 DEF ToSet
  <2>4. QED
    BY <2>1, <2>2, <2>3 DEF OneBudget
<1>2. QED
  BY <1>1, Inductive, PTL

----------------------------------------------------------------------------
(* The refinement *)

LEMMA LineIsWaiting ==
  ASSUME BudgetInv
  PROVE  Line \in Seq(Requests) /\ ToSet(Line) = Waiting
<1>1. CASE scope = None
  <2>1. Line = <<>> /\ Waiting = {}
    BY <1>1 DEF Line, BudgetInv, Counted
  <2>2. QED
    BY <2>1 DEF ToSet
<1>2. CASE scope # None
  <2>1. Line = queue[scope] /\ Line \in Seq(Requests)
    BY <1>2 DEF Line, BudgetInv, TypeOK
  <2>2. /\ \A i \in 1..Len(Line) : pc[Line[i]] = "waiting" /\ Line[i] \in Requests
        /\ \A r \in Waiting : \E i \in 1..Len(Line) : Line[i] = r
    BY <1>2, <2>1 DEF BudgetInv, Lined, Housed, Waiting
  <2>3. DOMAIN Line = 1..Len(Line)
    BY <2>1
  <2>4. QED
    BY <2>1, <2>2, <2>3 DEF ToSet, Waiting
<1>3. QED
  BY <1>1, <1>2

\* The operators that AdmissionQueue takes from the library are the ones that
\* ConcurrencyBudget takes from it.
LEMMA SameOperators ==
  /\ \A S : Abstract!Cardinality(S) = Cardinality(S)
  /\ \A s : Abstract!ToSet(s) = ToSet(s)
  /\ \A s, i : Abstract!RemoveAt(s, i) = RemoveAt(s, i)
<1>1. \A S : Abstract!Cardinality(S) = Cardinality(S)
  BY DEF Abstract!Cardinality, Cardinality, Abstract!IsFiniteSet, IsFiniteSet
<1>2. \A s : Abstract!ToSet(s) = ToSet(s)
  BY DEF Abstract!ToSet, ToSet
<1>3. \A s, i : Abstract!RemoveAt(s, i) = RemoveAt(s, i)
  BY DEF Abstract!RemoveAt, RemoveAt
<1>4. QED
  BY <1>1, <1>2, <1>3

LEMMA AdmitEnters ==
  ASSUME BudgetInv, NEW r \in Requests, Admit(r)
  PROVE  Abstract!Enter(r)
<1> USE BudgetAssumption
<1>1. /\ scope = None => Line = <<>> /\ Cardinality(Working) = 0
      /\ scope # None => active[scope] < Concurrency /\ scope \in Requests
  BY FS_EmptySet DEF Admit, Room, StateFor, Line, BudgetInv, Counted, TypeOK
<1>2. Line = <<>> /\ Cardinality(Working) # Concurrency
  BY <1>1 DEF BudgetInv, TypeOK, Lined, Counted, Line
<1>3. Line' = Line
  BY <1>1, <1>2 DEF Admit, StateFor, Line, BudgetInv, Fresh
<1>4. r \notin Working \cup ToSet(Line)
  BY LineIsWaiting DEF Admit, Working, Waiting
<1>5. Working' = Working \cup {r}
  BY WorkerEnters DEF Admit, BudgetInv
<1>6. QED
  BY <1>2, <1>3, <1>4, <1>5, SameOperators DEF Abstract!Enter, Abstract!Full

LEMMA WaitJoins ==
  ASSUME BudgetInv, NEW r \in Requests, Wait(r)
  PROVE  Abstract!Join(r)
<1> USE BudgetAssumption
<1>1. /\ scope \in Requests /\ scope # None /\ active[scope] = Concurrency
      /\ Len(queue[scope]) < QueueLimit
      /\ scope' = scope /\ queue'[scope] = Append(queue[scope], r)
      /\ pc[r] = "idle" /\ pc' = [pc EXCEPT ![r] = "waiting"]
  BY DEF Wait, StateFor, Room, QueueFull, Goto, BudgetInv, TypeOK, Fresh
<1>2. Line = queue[scope] /\ Line' = Append(Line, r)
  BY <1>1 DEF Line
<1>3. Working' = Working
  BY <1>1 DEF Working, BudgetInv, TypeOK
<1>4. Cardinality(Working) = Concurrency
  BY <1>1 DEF BudgetInv, Counted
<1>5. r \notin Working \cup ToSet(Line)
  BY <1>1, LineIsWaiting DEF Working, Waiting
<1>6. QED
  BY <1>1, <1>2, <1>3, <1>4, <1>5, SameOperators DEF Abstract!Join, Abstract!Full

LEMMA FinishLeaves ==
  ASSUME BudgetInv, NEW r \in Requests, Finish(r)
  PROVE  Abstract!Leave(r)
<1> USE BudgetAssumption
<1>1. scope \in Requests /\ scope # None /\ r \in Working /\ Line = queue[scope]
  BY ReleaseHandsOver DEF Line
<1>2. CASE queue[scope] = <<>>
  <2>1. /\ queue' = queue /\ pc' = [pc EXCEPT ![r] = "done"]
        /\ scope' = None \/ scope' = scope
    BY <1>2, ReleaseHandsOver
  <2>2. Line' = Line
    BY <1>1, <1>2, <2>1 DEF Line
  <2>3. Working' = Working \ {r}
    BY <1>1, <2>1 DEF Working, BudgetInv, TypeOK
  <2>4. QED
    BY <1>1, <1>2, <2>2, <2>3 DEF Abstract!Leave
<1>3. CASE queue[scope] # <<>>
  <2>1. /\ scope' = scope /\ queue'[scope] = Tail(queue[scope])
        /\ Working' = (Working \ {r}) \cup {Head(queue[scope])}
    BY <1>3, HandOverKeeps
  <2>2. Line' = Tail(Line)
    BY <1>1, <2>1 DEF Line
  <2>3. QED
    BY <1>1, <1>3, <2>1, <2>2 DEF Abstract!Leave
<1>4. QED
  BY <1>2, <1>3

LEMMA TimesOutGivesUp ==
  ASSUME BudgetInv, NEW r \in Requests, TimesOut(r)
  PROVE  \E i \in DOMAIN Line : Abstract!GiveUp(i)
<1>1. scope # None /\ scope \in Requests
  BY DEF TimesOut, BudgetInv, TypeOK, Housed
<1>2. /\ scope' = scope /\ Working' = Working
      /\ \E i \in 1..Len(queue[scope]) : queue'[scope] = RemoveAt(queue[scope], i)
  BY TimesOutKeeps
<1>3. Line = queue[scope] /\ Line' = queue'[scope]
  BY <1>1, <1>2 DEF Line
<1>4. Line \in Seq(Requests)
  BY LineIsWaiting
<1>5. QED
  BY <1>2, <1>3, <1>4, SameOperators DEF Abstract!GiveUp

\* The scope implements the FIFO admission queue: it admits when there is
\* room and nobody waits, queues when full, hands a freed slot to the first in
\* line, and takes a request whose timer fires out of the line.
THEOREM ImplementsAdmissionQueue == Spec => IsAdmissionQueue
<1>1. Init => Abstract!Init
  BY BudgetAssumption DEF Init, Abstract!Init, Working, Line
<1>2. BudgetInv /\ [Next]_vars => [Abstract!Next]_<<Working, Line>>
  <2> SUFFICES ASSUME BudgetInv, [Next]_vars
               PROVE  [Abstract!Next]_<<Working, Line>>
    OBVIOUS
  <2>1. CASE UNCHANGED vars
    BY <2>1 DEF vars, Working, Line
  <2>2. ASSUME NEW r \in Requests, Admit(r) \/ Wait(r) \/ Finish(r)
        PROVE  Abstract!Next
    BY <2>2, AdmitEnters, WaitJoins, FinishLeaves DEF Abstract!Next
  <2>3. ASSUME NEW r \in Requests, TimesOut(r)
        PROVE  Abstract!Next
    BY <2>3, TimesOutGivesUp DEF Abstract!Next
  <2>4. ASSUME NEW r \in Requests, Refuse(r)
        PROVE  UNCHANGED <<Working, Line>>
    <3>1. /\ scope' = scope /\ queue' = queue /\ pc[r] = "idle"
          /\ pc' = [pc EXCEPT ![r] = "refused"]
      BY <2>4, BudgetAssumption
         DEF Refuse, StateFor, Room, Goto, BudgetInv, TypeOK, Fresh
    <3>2. QED
      BY <3>1 DEF Working, Line, BudgetInv, TypeOK
  <2>5. QED
    BY <2>1, <2>2, <2>3, <2>4 DEF Next
<1>3. QED
  BY <1>1, <1>2, Inductive, PTL DEF Spec, IsAdmissionQueue, Abstract!Spec

-----------------------------------------------------------------------------
(* The least and the greatest of a set *)

LEMMA LeastExists ==
  ASSUME NEW S \in SUBSET Nat, S # {}
  PROVE  \E n \in S : \A m \in S : n <= m
<1> DEFINE Less == OpToRel(<, Nat)
<1>1. IsWellFoundedOn(Less, Nat)
  BY NatLessThanWellFounded
<1>2. \A m, n \in Nat : <<m, n>> \in Less <=> m < n
  BY DEF OpToRel
<1> HIDE DEF Less
<1>3. PICK n \in S : \A m \in S : ~(<<m, n>> \in Less)
  BY <1>1, WFMin
<1>4. ASSUME NEW m \in S
      PROVE  n <= m
  <2>1. m \in Nat /\ n \in Nat /\ ~(m < n)
    BY <1>2, <1>3, <1>4
  <2>2. QED
    BY <2>1
<1>5. QED
  BY <1>4

LEMMA MinIsLeast ==
  ASSUME NEW S \in SUBSET Nat, S # {}
  PROVE  Min(S) \in S /\ \A m \in S : Min(S) <= m
BY LeastExists DEF Min

-----------------------------------------------------------------------------
(* The wallet's session *)

\* A refresh that ends in another session than s, in none, or in a new timer.
Replaces(t, s) ==
  /\ t # Nobody
  /\ \/ t.at = "logout"
     \/ t.at = "fetch" /\ (t.seen = Nobody \/ t.seen.expiresAt # s.expiresAt)

SessionTimed ==
  session # Nobody /\ ~expiry => \E i \in 1..MaxTasks : Replaces(task[i], session)

\* A task that may mint or accept a session knows whose it is to be.
Named(t) ==
  (t.at \in {"current", "challenge", "sign", "verify"} \/ (t.kind = "enter" /\ t.at # "connect"))
    => t.address \in Addresses

ATask(t) == t \in Tasks /\ Named(t)

WalletInv ==
  /\ WalletTypeOK
  /\ \A i \in 1..MaxTasks : task[i] # Nobody => Named(task[i])
  /\ SessionTimed

TasksOK ==
  /\ task \in [1..MaxTasks -> Tasks \cup {Nobody}]
  /\ \A i \in 1..MaxTasks : task[i] # Nobody => Named(task[i])

LEMMA PutTask ==
  ASSUME TasksOK, NEW i, NEW t, t = Nobody \/ ATask(t), task' = [task EXCEPT ![i] = t]
  PROVE  TasksOK'
BY DEF TasksOK, ATask

LEMMA TaskMoved ==
  ASSUME NEW t \in Tasks,
         NEW at \in {"connect", "fetch", "current", "logout", "challenge", "sign", "verify",
                     "leave", "bye"}
  PROVE  /\ [t EXCEPT !.at = at] \in Tasks
         /\ [t EXCEPT !.at = at].at = at /\ [t EXCEPT !.at = at].kind = t.kind
         /\ [t EXCEPT !.at = at].address = t.address /\ [t EXCEPT !.at = at].seen = t.seen
BY DEF Tasks

LEMMA CurrentNext ==
  ASSUME NEW t \in Tasks, NEW seen \in Sessions \cup {Nobody}
  PROVE  /\ [t EXCEPT !.at = "current", !.seen = seen] \in Tasks
         /\ [t EXCEPT !.at = "current", !.seen = seen].at = "current"
         /\ [t EXCEPT !.at = "current", !.seen = seen].address = t.address
BY DEF Tasks

LEMMA MovedFields ==
  ASSUME WalletInv, NEW i \in 1..MaxTasks, NEW at, NEW seen, NEW x
  PROVE  /\ [task EXCEPT ![i].at = at] = [task EXCEPT ![i] = [task[i] EXCEPT !.at = at]]
         /\ [task EXCEPT ![i].at = at, ![i].seen = seen]
              = [task EXCEPT ![i] = [task[i] EXCEPT !.at = at, !.seen = seen]]
         /\ [task EXCEPT ![i].at = at, ![i].token = x]
              = [task EXCEPT ![i] = [task[i] EXCEPT !.at = at, !.token = x]]
         /\ [task EXCEPT ![i].at = at, ![i].address = x, ![i].seen = seen]
              = [task EXCEPT ![i] = [task[i] EXCEPT !.at = at, !.address = x, !.seen = seen]]
BY DEF WalletInv, WalletTypeOK

\* The state of a wallet step but for its tasks and its timer.
RestTyped ==
  /\ time \in 0..MaxClock
  /\ account \in Addresses \cup {Nobody}
  /\ session \in Sessions \cup {Nobody} /\ cookie \in Sessions \cup {Nobody}
  /\ expiry \in BOOLEAN /\ left \in BOOLEAN
  /\ challenge \in 1..MaxTokens \cup {Nobody} /\ tokens \in 0..MaxTokens

LEMMA WalletParts == WalletInv <=> RestTyped /\ TasksOK /\ SessionTimed
BY DEF WalletInv, WalletTypeOK, RestTyped, TasksOK

LEMMA WalletPartsNext == RestTyped' /\ TasksOK' /\ SessionTimed' => WalletInv'
BY DEF WalletInv, WalletTypeOK, RestTyped, TasksOK

LEMMA ReadTyped == WalletInv => ReadSession \in Sessions \cup {Nobody}
BY DEF WalletInv, WalletTypeOK, ReadSession

LEMMA SetTyped ==
  ASSUME RestTyped, NEW s \in Sessions \cup {Nobody}, SetSession(s)
  PROVE  session' \in Sessions \cup {Nobody} /\ expiry' \in BOOLEAN
BY DEF RestTyped, SetSession

\* A task that renews the session goes on doing so, or the timer is set.
LEMMA StaysTimed ==
  ASSUME SessionTimed, UNCHANGED <<session, expiry>>,
         \A k \in 1..MaxTasks : Replaces(task[k], session) => Replaces(task'[k], session)
  PROVE  SessionTimed'
BY DEF SessionTimed

LEMMA SetStaysTimed ==
  ASSUME SessionTimed, NEW s, SetSession(s),
         s # Nobody /\ session # Nobody /\ session.expiresAt = s.expiresAt =>
           \A k \in 1..MaxTasks : Replaces(task[k], session) => Replaces(task'[k], session)
  PROVE  SessionTimed'
<1>1. CASE s = Nobody
  BY <1>1 DEF SetSession, SessionTimed
<1>2. CASE s # Nobody /\ ~(session # Nobody /\ session.expiresAt = s.expiresAt)
  BY <1>2 DEF SetSession, SessionTimed
<1>3. CASE s # Nobody /\ session # Nobody /\ session.expiresAt = s.expiresAt
  <2>1. session' = s /\ expiry' = expiry
    BY <1>3 DEF SetSession
  <2>2. \A t : Replaces(t, session) <=> Replaces(t, session')
    BY <1>3, <2>1 DEF Replaces
  <2>3. QED
    BY <1>3, <2>1, <2>2 DEF SessionTimed
<1>4. QED
  BY <1>1, <1>2, <1>3

\* What becomes of the tasks when one of them, which was not about to
\* replace the session, changes.
LEMMA PutReplaces ==
  ASSUME TasksOK, NEW i, NEW t, task' = [task EXCEPT ![i] = t],
         i \in 1..MaxTasks => ~Replaces(task[i], session)
  PROVE  \A k \in 1..MaxTasks : Replaces(task[k], session) => Replaces(task'[k], session)
BY DEF TasksOK

\* A task that starts takes a place that was free.
LEMMA StartsFree ==
  ASSUME NEW f \in [1..MaxTasks -> Tasks \cup {Nobody}], NEW t \in Tasks,
         {i \in Places(t) : f[i] = Nobody} # {}
  PROVE  \E m \in 1..MaxTasks : f[m] = Nobody /\ Started(f, t) = [f EXCEPT ![m] = t]
<1> DEFINE free == {i \in Places(t) : f[i] = Nobody}
           m == Min(free)
<1>1. Places(t) \subseteq 1..MaxTasks
  BY WalletAssumption DEF WalletAssumption, Places, Prompts, Background
<1>2. free \in SUBSET Nat /\ free # {}
  BY <1>1
<1>3. m \in free
  BY <1>2, MinIsLeast
<1>4. Started(f, t) = [f EXCEPT ![m] = t]
  BY DEF Started
<1> HIDE DEF m
<1>5. m \in 1..MaxTasks /\ f[m] = Nobody
  BY <1>1, <1>3
<1>6. QED
  BY <1>4, <1>5

LEMMA TaskTypes ==
  ASSUME RestTyped, NEW seen \in Sessions \cup {Nobody}, NEW a \in Addresses \cup {Nobody}
  PROVE  /\ ATask([kind |-> "refresh", at |-> "fetch", address |-> a, seen |-> seen, token |-> 0])
         /\ ATask(Logout) /\ ATask(Begin("enter", "connect"))
         /\ account # Nobody => ATask(Begin("verify", "challenge"))
         /\ ATask(Begin("disconnect", "leave"))
<1>1. 0 \in 0..MaxTokens
  BY WalletAssumption DEF WalletAssumption
<1>2. QED
  BY <1>1 DEF RestTyped, ATask, Tasks, Named, Logout, Begin

\* Steps that only move one task that does not replace the session.
LEMMA MoveKeeps ==
  ASSUME WalletInv, NEW i \in 1..MaxTasks, NEW t, t = Nobody \/ ATask(t),
         task' = [task EXCEPT ![i] = t], ~Replaces(task[i], session),
         RestTyped', UNCHANGED <<session, expiry>>
  PROVE  WalletInv'
<1>1. TasksOK /\ SessionTimed
  BY WalletParts
<1>2. TasksOK'
  BY <1>1, PutTask
<1>3. SessionTimed'
  BY <1>1, PutReplaces, StaysTimed
<1>4. QED
  BY <1>2, <1>3, WalletPartsNext

\* Steps that set the session and move one task.
LEMMA SetKeeps ==
  ASSUME WalletInv, NEW i \in 1..MaxTasks, NEW t, t = Nobody \/ ATask(t),
         task' = [task EXCEPT ![i] = t], NEW s \in Sessions \cup {Nobody}, SetSession(s),
         s # Nobody /\ session # Nobody /\ session.expiresAt = s.expiresAt =>
           ~Replaces(task[i], session),
         RestTyped'
  PROVE  WalletInv'
<1>1. TasksOK /\ SessionTimed
  BY WalletParts
<1>2. TasksOK'
  BY <1>1, PutTask
<1>3. SessionTimed'
  BY <1>1, PutReplaces, SetStaysTimed
<1>4. QED
  BY <1>2, <1>3, WalletPartsNext

\* A task and what it becomes.
LEMMA TheTask ==
  ASSUME WalletInv, NEW i \in 1..MaxTasks, NEW at, Running(i, at)
  PROVE  /\ task[i] \in Tasks /\ task[i] # Nobody /\ task[i].at = at /\ Named(task[i])
         /\ task[i].seen \in Sessions \cup {Nobody}
         /\ task[i].address \in Addresses \cup {Nobody}
         /\ at \notin {"fetch", "logout"} => ~Replaces(task[i], session)
BY DEF WalletInv, WalletTypeOK, Running, Tasks, Replaces

LEMMA AfterRefreshMoves ==
  ASSUME WalletInv, NEW i \in 1..MaxTasks, Running(i, "fetch"), AfterRefresh(i)
  PROVE  \E t : (t = Nobody \/ ATask(t)) /\ task' = [task EXCEPT ![i] = t]
<1>1. CASE task[i].kind = "enter"
  <2> DEFINE t == [task[i] EXCEPT !.at = "current", !.seen = ReadSession]
  <2>1. task' = [task EXCEPT ![i] = t]
    BY <1>1, MovedFields DEF AfterRefresh
  <2>2. ATask(t)
    <3>1. /\ task[i] \in Tasks /\ Named(task[i]) /\ task[i].at = "fetch"
          /\ ReadSession \in Sessions \cup {Nobody}
      BY TheTask, ReadTyped
    <3>2. t \in Tasks /\ t.at = "current" /\ t.address = task[i].address
      BY <3>1, CurrentNext
    <3>3. QED
      BY <1>1, <3>1, <3>2 DEF ATask, Named
  <2>3. QED
    BY <2>1, <2>2
<1>2. CASE task[i].kind # "enter"
  BY <1>2 DEF AfterRefresh, Ends
<1>3. QED
  BY <1>1, <1>2

LEMMA RefreshAnsweredKeeps ==
  ASSUME WalletInv, NEW i \in 1..MaxTasks, RefreshAnswered(i)
  PROVE  WalletInv'
<1> DEFINE next == task[i].seen
<1>1. /\ Running(i, "fetch") /\ task[i] \in Tasks /\ task[i] # Nobody /\ task[i].at = "fetch"
      /\ Named(task[i]) /\ next \in Sessions \cup {Nobody}
  BY TheTask DEF RefreshAnswered
<1>2. UNCHANGED <<time, account, cookie, challenge, tokens, left>>
  BY DEF RefreshAnswered
<1>3. RestTyped
  BY WalletParts
<1>4. CASE next # Nobody /\ task[i].address # Nobody /\ next.address # task[i].address
  <2> DEFINE t == [task[i] EXCEPT !.at = "logout"]
  <2>1. Goes(i, "logout") /\ UNCHANGED <<session, expiry>>
    BY <1>4 DEF RefreshAnswered
  <2>2. task' = [task EXCEPT ![i] = t]
    BY <2>1, MovedFields DEF Goes
  <2>3. t \in Tasks /\ t.at = "logout" /\ t.kind = task[i].kind /\ t.address = task[i].address
    BY <1>1, TaskMoved
  <2>4. ATask(t)
    BY <1>1, <2>3 DEF ATask, Named
  <2>5. TasksOK /\ SessionTimed
    BY WalletParts
  <2>6. TasksOK'
    BY <2>2, <2>4, <2>5, PutTask
  <2>7. Replaces(t, session)
    BY <2>3, WalletAssumption DEF Replaces, WalletAssumption
  <2> HIDE DEF t
  <2>8. \A k \in 1..MaxTasks : Replaces(task[k], session) => Replaces(task'[k], session)
    BY <2>2, <2>5, <2>7 DEF TasksOK
  <2>9. SessionTimed'
    BY <2>1, <2>5, <2>8, StaysTimed
  <2>10. RestTyped'
    BY <1>2, <1>3, <2>1 DEF RestTyped
  <2>11. QED
    BY <2>6, <2>9, <2>10, WalletPartsNext
<1>5. CASE ~(next # Nobody /\ task[i].address # Nobody /\ next.address # task[i].address)
  <2>1. SetSession(next) /\ AfterRefresh(i)
    BY <1>5 DEF RefreshAnswered
  <2>2. PICK t : (t = Nobody \/ ATask(t)) /\ task' = [task EXCEPT ![i] = t]
    BY <1>1, <2>1, AfterRefreshMoves
  <2>3. next # Nobody /\ session # Nobody /\ session.expiresAt = next.expiresAt =>
          ~Replaces(task[i], session)
    BY <1>1 DEF Replaces
  <2>4. session' \in Sessions \cup {Nobody} /\ expiry' \in BOOLEAN
    BY <1>1, <1>3, <2>1, SetTyped
  <2>5. RestTyped'
    BY <1>2, <1>3, <2>4 DEF RestTyped
  <2>6. QED
    BY <1>1, <2>1, <2>2, <2>3, <2>5, SetKeeps
<1>6. QED
  BY <1>4, <1>5

LEMMA NoSessionKeeps ==
  ASSUME WalletInv, NEW i \in 1..MaxTasks, NEW t, t = Nobody \/ ATask(t),
         task' = [task EXCEPT ![i] = t], SetSession(Nobody), RestTyped'
  PROVE  WalletInv'
BY SetKeeps

LEMMA RefreshFailsKeeps ==
  ASSUME WalletInv, NEW i \in 1..MaxTasks, RefreshFails(i)
  PROVE  WalletInv'
<1>1. PICK t : (t = Nobody \/ ATask(t)) /\ task' = [task EXCEPT ![i] = t]
  BY AfterRefreshMoves DEF RefreshFails
<1>2. SetSession(Nobody) /\ UNCHANGED <<time, account, cookie, challenge, tokens, left>>
  BY DEF RefreshFails
<1>3. RestTyped'
  BY <1>2, WalletParts, SetTyped DEF RestTyped
<1>4. QED
  BY <1>1, <1>2, <1>3, NoSessionKeeps

LEMMA LogoutTyped == WalletInv => LogoutLeaves \subseteq Sessions \cup {Nobody}
BY DEF WalletInv, WalletTypeOK, LogoutLeaves

LEMMA RefreshLogsOutKeeps ==
  ASSUME WalletInv, NEW i \in 1..MaxTasks, RefreshLogsOut(i)
  PROVE  WalletInv'
<1>1. /\ Running(i, "logout") /\ cookie' \in LogoutLeaves /\ SetSession(Nobody)
      /\ UNCHANGED <<time, account, challenge, tokens, left>>
  BY DEF RefreshLogsOut
<1>2. task[i] \in Tasks /\ task[i] # Nobody /\ task[i].at = "logout" /\ Named(task[i])
  BY <1>1, TheTask
<1>3. RestTyped'
  BY <1>1, WalletParts, SetTyped, LogoutTyped DEF RestTyped
<1>4. CASE task[i].kind = "enter"
  <2> DEFINE seen == IF cookie' = Nobody THEN Nobody ELSE ReadSession
             t == [task[i] EXCEPT !.at = "current", !.seen = seen]
  <2>1. task' = [task EXCEPT ![i] = t]
    BY <1>4, MovedFields DEF RefreshLogsOut
  <2>2. seen \in Sessions \cup {Nobody}
    BY ReadTyped
  <2>3. t \in Tasks /\ t.at = "current" /\ t.address = task[i].address
    BY <1>2, <2>2, CurrentNext
  <2>4. ATask(t)
    BY <1>2, <1>4, <2>3 DEF ATask, Named
  <2>5. QED
    BY <1>1, <1>3, <2>1, <2>4, NoSessionKeeps
<1>5. CASE task[i].kind # "enter"
  <2>1. task' = [task EXCEPT ![i] = Nobody]
    BY <1>5 DEF RefreshLogsOut, Ends
  <2>2. QED
    BY <1>1, <1>3, <2>1, NoSessionKeeps
<1>6. QED
  BY <1>4, <1>5

\* Tasks that start in the background, and those of the user's.
LEMMA TaskStarts ==
  ASSUME WalletInv, NEW t, ATask(t), {k \in Places(t) : task[k] = Nobody} # {},
         task' = Started(task, t), RestTyped', UNCHANGED <<session, expiry>>
  PROVE  WalletInv'
<1>1. PICK m \in 1..MaxTasks : task[m] = Nobody /\ task' = [task EXCEPT ![m] = t]
  BY StartsFree DEF WalletInv, WalletTypeOK, ATask
<1>2. ~Replaces(task[m], session)
  BY <1>1 DEF Replaces
<1>3. QED
  BY <1>1, <1>2, MoveKeeps

LEMMA ConnectedKeeps ==
  ASSUME WalletInv, NEW i \in 1..MaxTasks, Connected(i)
  PROVE  WalletInv'
<1>1. /\ Running(i, "connect") /\ Free(Background) # {} /\ left' = FALSE
      /\ UNCHANGED <<time, session, cookie, challenge, tokens>>
  BY DEF Connected
<1> DEFINE entering(a) == [task EXCEPT ![i].at = "fetch", ![i].address = a, ![i].seen = ReadSession]
<1>2. PICK a \in Addresses :
        /\ account' = a
        /\ task' = IF a = account THEN entering(a) ELSE Started(entering(a), Refresh(a))
        /\ expiry' = (session # Nobody /\ (expiry \/ a # account))
  BY DEF Connected
<1> DEFINE t == [task[i] EXCEPT !.at = "fetch", !.address = a, !.seen = ReadSession]
<1>3. entering(a) = [task EXCEPT ![i] = t]
  BY MovedFields
<1>4. task[i] \in Tasks /\ task[i] # Nobody /\ ~Replaces(task[i], session)
  BY <1>1, TheTask
<1>5. t \in Tasks /\ t.address = a
  BY <1>4, ReadTyped DEF Tasks
<1>6. ATask(t)
  BY <1>5 DEF ATask, Named
<1>7. RestTyped
  BY WalletParts
<1>8. expiry' \in BOOLEAN
  BY <1>2
<1>9. RestTyped'
  BY <1>1, <1>2, <1>7, <1>8 DEF RestTyped
<1> HIDE DEF t
<1>10. entering(a) \in [1..MaxTasks -> Tasks \cup {Nobody}]
       /\ \A k \in 1..MaxTasks : entering(a)[k] # Nobody => Named(entering(a)[k])
  BY <1>3, <1>6 DEF WalletInv, WalletTypeOK, ATask
<1>11. CASE a = account
  <2>1. task' = [task EXCEPT ![i] = t]
    BY <1>2, <1>3, <1>11
  <2>2. TasksOK /\ TasksOK'
    BY <1>6, <2>1, WalletParts, PutTask
  <2>3. \A k \in 1..MaxTasks : Replaces(task[k], session) => Replaces(task'[k], session)
    BY <1>4, <2>1, <2>2, PutReplaces
  <2>4. SessionTimed'
    BY <1>1, <1>2, <2>3, WalletParts DEF SessionTimed
  <2>5. QED
    BY <1>9, <2>2, <2>4, WalletPartsNext
<1>12. CASE a # account
  <2> DEFINE r == Refresh(a)
  <2>1. ATask(r)
    BY <1>7, ReadTyped, TaskTypes DEF Refresh
  <2>2. Places(r) = Background
    BY DEF Places, ByUser, Refresh
  <2>3. {k \in Places(r) : entering(a)[k] = Nobody} # {}
    <3>1. PICK k \in Background : task[k] = Nobody
      BY <1>1 DEF Free
    <3>2. k # i /\ k \in 1..MaxTasks
      BY <1>4, <3>1, WalletAssumption DEF Background, WalletAssumption
    <3>3. entering(a)[k] = Nobody
      BY <1>3, <3>1, <3>2 DEF WalletInv, WalletTypeOK
    <3>4. QED
      BY <2>2, <3>1, <3>3
  <2> HIDE DEF r
  <2>4. PICK m \in 1..MaxTasks : Started(entering(a), r) = [entering(a) EXCEPT ![m] = r]
    BY <1>10, <2>1, <2>3, StartsFree DEF ATask
  <2>5. task' = [entering(a) EXCEPT ![m] = r]
    BY <1>2, <1>12, <2>4 DEF r
  <2>6. TasksOK'
    BY <1>10, <2>1, <2>5 DEF TasksOK, ATask
  <2>7. SessionTimed'
    BY <1>1, <1>2, <1>12 DEF SessionTimed
  <2>8. QED
    BY <1>9, <2>6, <2>7, WalletPartsNext
<1>13. QED
  BY <1>11, <1>12

LEMMA CurrentReadKeeps ==
  ASSUME WalletInv, NEW i \in 1..MaxTasks, CurrentRead(i)
  PROVE  WalletInv'
<1>1. Running(i, "current") /\ UNCHANGED <<time, account, cookie, challenge, tokens, left>>
  BY DEF CurrentRead
<1>2. /\ task[i] \in Tasks /\ Named(task[i]) /\ task[i].at = "current"
      /\ task[i].seen \in Sessions \cup {Nobody} /\ ~Replaces(task[i], session)
  BY <1>1, TheTask
<1>3. PICK current \in Sessions \cup {Nobody} :
        /\ SetSession(current)
        /\ Ends(i) \/ Goes(i, "challenge")
  BY <1>2 DEF CurrentRead
<1>4. RestTyped'
  BY <1>1, <1>3, WalletParts, SetTyped DEF RestTyped
<1>5. PICK t : (t = Nobody \/ ATask(t)) /\ task' = [task EXCEPT ![i] = t]
  <2>1. CASE Ends(i)
    BY <2>1 DEF Ends
  <2>2. CASE Goes(i, "challenge")
    <3> DEFINE u == [task[i] EXCEPT !.at = "challenge"]
    <3>1. task' = [task EXCEPT ![i] = u]
      BY <2>2, MovedFields DEF Goes
    <3>2. u \in Tasks /\ u.address = task[i].address
      BY <1>2, TaskMoved
    <3>3. ATask(u)
      BY <1>2, <3>2 DEF ATask, Named
    <3>4. QED
      BY <3>1, <3>3
  <2>3. QED
    BY <1>3, <2>1, <2>2
<1>6. QED
  BY <1>2, <1>3, <1>4, <1>5, SetKeeps

LEMMA ChallengedKeeps ==
  ASSUME WalletInv, NEW i \in 1..MaxTasks, Challenged(i)
  PROVE  WalletInv'
<1>1. /\ Running(i, "challenge") /\ tokens < MaxTokens
      /\ tokens' = tokens + 1 /\ challenge' = tokens'
      /\ UNCHANGED <<time, account, session, expiry, cookie, left>>
  BY DEF Challenged
<1>2. /\ task[i] \in Tasks /\ Named(task[i]) /\ task[i].at = "challenge"
      /\ ~Replaces(task[i], session)
  BY <1>1, TheTask
<1> DEFINE t == [task[i] EXCEPT !.at = "sign", !.token = tokens']
<1>3. task' = [task EXCEPT ![i] = t]
  BY MovedFields DEF Challenged
<1>4. tokens' \in 1..MaxTokens /\ tokens' \in 0..MaxTokens
  BY <1>1, WalletAssumption DEF WalletInv, WalletTypeOK, WalletAssumption
<1>5. t \in Tasks /\ t.address = task[i].address
  BY <1>2, <1>4 DEF Tasks
<1>6. ATask(t)
  BY <1>2, <1>5 DEF ATask, Named
<1>7. RestTyped'
  BY <1>1, <1>4, WalletParts DEF RestTyped
<1>8. QED
  BY <1>1, <1>2, <1>3, <1>6, <1>7, MoveKeeps

LEMMA SignedKeeps ==
  ASSUME WalletInv, NEW i \in 1..MaxTasks, Signed(i)
  PROVE  WalletInv'
<1>1. /\ Running(i, "sign") /\ Goes(i, "verify")
      /\ UNCHANGED <<time, account, session, expiry, cookie, challenge, tokens, left>>
  BY DEF Signed
<1>2. /\ task[i] \in Tasks /\ Named(task[i]) /\ task[i].at = "sign"
      /\ ~Replaces(task[i], session)
  BY <1>1, TheTask
<1> DEFINE t == [task[i] EXCEPT !.at = "verify"]
<1>3. task' = [task EXCEPT ![i] = t]
  BY <1>1, MovedFields DEF Goes
<1>4. t \in Tasks /\ t.address = task[i].address
  BY <1>2, TaskMoved
<1>5. ATask(t)
  BY <1>2, <1>4 DEF ATask, Named
<1>6. RestTyped'
  BY <1>1, WalletParts DEF RestTyped
<1>7. QED
  BY <1>1, <1>2, <1>3, <1>5, <1>6, MoveKeeps

LEMMA VerifiedKeeps ==
  ASSUME WalletInv, NEW i \in 1..MaxTasks, Verified(i)
  PROVE  WalletInv'
<1> DEFINE s == [address |-> task[i].address, expiresAt |-> time + SessionTtl]
<1>1. /\ Running(i, "verify") /\ cookie' = s /\ SetSession(s) /\ challenge' = Nobody /\ Ends(i)
      /\ UNCHANGED <<time, account, tokens, left>>
  BY DEF Verified
<1>2. /\ Named(task[i]) /\ task[i].at = "verify" /\ ~Replaces(task[i], session)
  BY <1>1, TheTask
<1>3. time + SessionTtl \in Nat
  BY WalletAssumption DEF WalletInv, WalletTypeOK, WalletAssumption
<1>4. s \in Sessions
  BY <1>2, <1>3 DEF Named, Sessions
<1> HIDE DEF s
<1>5. RestTyped'
  BY <1>1, <1>4, WalletParts, SetTyped DEF RestTyped
<1>6. QED
  BY <1>1, <1>2, <1>4, <1>5, SetKeeps DEF Ends

LEMMA TaskFailsKeeps ==
  ASSUME WalletInv, NEW i \in 1..MaxTasks, TaskFails(i)
  PROVE  WalletInv'
<1>1. Ends(i) /\ UNCHANGED <<time, account, session, expiry, cookie, challenge, tokens, left>>
  BY DEF TaskFails
<1>2. ~Replaces(task[i], session)
  BY TheTask DEF TaskFails
<1>3. RestTyped'
  BY <1>1, WalletParts DEF RestTyped
<1>4. QED
  BY <1>1, <1>2, <1>3, MoveKeeps DEF Ends

LEMMA LoggedOutKeeps ==
  ASSUME WalletInv, NEW i \in 1..MaxTasks, LoggedOut(i)
  PROVE  WalletInv'
<1>1. /\ Running(i, "bye") /\ cookie' \in LogoutLeaves /\ Ends(i)
      /\ UNCHANGED <<time, account, session, expiry, challenge, tokens, left>>
  BY DEF LoggedOut
<1>2. ~Replaces(task[i], session)
  BY <1>1, TheTask
<1>3. RestTyped'
  BY <1>1, WalletParts, LogoutTyped DEF RestTyped
<1>4. QED
  BY <1>1, <1>2, <1>3, MoveKeeps DEF Ends

LEMMA WalletLeftKeeps ==
  ASSUME WalletInv, NEW i \in 1..MaxTasks, WalletLeft(i)
  PROVE  WalletInv'
<1>1. /\ Running(i, "leave") /\ Goes(i, "bye")
      /\ UNCHANGED <<time, account, session, expiry, cookie, challenge, tokens, left>>
  BY DEF WalletLeft
<1>2. /\ task[i] \in Tasks /\ Named(task[i]) /\ task[i].at = "leave"
      /\ ~Replaces(task[i], session)
  BY <1>1, TheTask
<1> DEFINE t == [task[i] EXCEPT !.at = "bye"]
<1>3. task' = [task EXCEPT ![i] = t]
  BY <1>1, MovedFields DEF Goes
<1>4. t \in Tasks /\ t.kind = task[i].kind /\ t.at = "bye" /\ t.address = task[i].address
  BY <1>2, TaskMoved
<1>5. ATask(t)
  BY <1>2, <1>4 DEF ATask, Named
<1>6. RestTyped'
  BY <1>1, WalletParts DEF RestTyped
<1>7. QED
  BY <1>1, <1>2, <1>3, <1>5, <1>6, MoveKeeps

LEMMA DisconnectedKeeps ==
  ASSUME WalletInv, NEW i \in 1..MaxTasks, Disconnected(i)
  PROVE  WalletInv'
<1> DEFINE ended == [task EXCEPT ![i] = Nobody]
           seen == IF cookie' = Nobody THEN Nobody ELSE ReadSession
           r == [Refresh(Nobody) EXCEPT !.seen = seen]
<1>1. /\ Running(i, "bye") /\ Free(Background) # {} /\ cookie' \in LogoutLeaves
      /\ account' = Nobody /\ SetSession(Nobody) /\ left' = TRUE
      /\ task' = IF account = Nobody THEN ended ELSE Started(ended, r)
      /\ UNCHANGED <<time, challenge, tokens>>
  BY DEF Disconnected
<1>2. RestTyped'
  BY <1>1, WalletParts, SetTyped, LogoutTyped DEF RestTyped
<1>3. r = [kind |-> "refresh", at |-> "fetch", address |-> Nobody, seen |-> seen, token |-> 0]
  BY DEF Refresh
<1>4. ATask(r) /\ r.kind = "refresh"
  BY <1>3, ReadTyped, WalletParts, TaskTypes
<1> HIDE DEF r
<1>5. ended \in [1..MaxTasks -> Tasks \cup {Nobody}]
      /\ \A k \in 1..MaxTasks : ended[k] # Nobody => Named(ended[k])
  BY DEF WalletInv, WalletTypeOK
<1>6. {k \in Places(r) : ended[k] = Nobody} # {}
  <2>1. PICK k \in Background : task[k] = Nobody
    BY <1>1 DEF Free
  <2>2. k \in 1..MaxTasks
    BY <2>1, WalletAssumption DEF Background, WalletAssumption
  <2>3. ended[k] = Nobody /\ k \in Places(r)
    BY <1>4, <2>1, <2>2 DEF WalletInv, WalletTypeOK, Places, ByUser
  <2>4. QED
    BY <2>3
<1>7. PICK m \in 1..MaxTasks : Started(ended, r) = [ended EXCEPT ![m] = r]
  BY <1>4, <1>5, <1>6, StartsFree DEF ATask
<1>8. TasksOK'
  <2>1. CASE task' = ended
    BY <1>5, <2>1 DEF TasksOK
  <2>2. CASE task' = [ended EXCEPT ![m] = r]
    BY <1>4, <1>5, <2>2 DEF TasksOK, ATask
  <2>3. QED
    BY <1>1, <1>7, <2>1, <2>2
<1>9. SessionTimed'
  BY <1>1 DEF SetSession, SessionTimed
<1>10. QED
  BY <1>2, <1>8, <1>9, WalletPartsNext

LEMMA UserStartsKeeps ==
  ASSUME WalletInv, UserStarts
  PROVE  WalletInv'
<1>1. /\ Free(Prompts) # {}
      /\ UNCHANGED <<time, account, session, expiry, cookie, challenge, tokens, left>>
  BY DEF UserStarts
<1>2. PICK t : /\ task' = Started(task, t)
               /\ \/ t = Begin("enter", "connect")
                  \/ account # Nobody /\ t = Begin("verify", "challenge")
                  \/ t = Begin("disconnect", "leave")
  BY DEF UserStarts
<1>3. ATask(t)
  BY <1>2, WalletParts, ReadTyped, TaskTypes
<1>4. Places(t) = Prompts
  BY <1>2 DEF Places, ByUser, Begin
<1>5. {k \in Places(t) : task[k] = Nobody} # {}
  BY <1>1, <1>4 DEF Free
<1>6. RestTyped'
  BY <1>1, WalletParts DEF RestTyped
<1>7. QED
  BY <1>1, <1>2, <1>3, <1>5, <1>6, TaskStarts

LEMMA RefreshIsATask ==
  ASSUME WalletInv, NEW a \in Addresses \cup {Nobody}
  PROVE  ATask(Refresh(a)) /\ Places(Refresh(a)) = Background
<1>1. ATask(Refresh(a))
  BY WalletParts, ReadTyped, TaskTypes DEF Refresh
<1>2. Places(Refresh(a)) = Background
  BY DEF Places, ByUser, Refresh
<1>3. QED
  BY <1>1, <1>2

LEMMA PageShownKeeps ==
  ASSUME WalletInv, PageShown
  PROVE  WalletInv'
<1>1. /\ Free(Background) # {} /\ task' = Started(task, Refresh(account))
      /\ UNCHANGED <<time, account, session, expiry, cookie, challenge, tokens, left>>
  BY DEF PageShown
<1>2. ATask(Refresh(account)) /\ {k \in Places(Refresh(account)) : task[k] = Nobody} # {}
  BY <1>1, RefreshIsATask DEF Free, WalletInv, WalletTypeOK
<1>3. RestTyped'
  BY <1>1, WalletParts DEF RestTyped
<1>4. QED
  BY <1>1, <1>2, <1>3, TaskStarts

LEMMA SessionExpiresKeeps ==
  ASSUME WalletInv, SessionExpires
  PROVE  WalletInv'
<1> DEFINE r == Refresh(account)
<1>1. /\ session # Nobody /\ time >= session.expiresAt /\ Free(Background) # {}
      /\ task' = Started(task, r) /\ expiry' = FALSE
      /\ UNCHANGED <<time, account, session, cookie, challenge, tokens, left>>
  BY DEF SessionExpires
<1>2. ATask(r) /\ {k \in Places(r) : task[k] = Nobody} # {}
  BY <1>1, RefreshIsATask DEF Free, WalletInv, WalletTypeOK
<1>3. RestTyped /\ TasksOK
  BY WalletParts
<1>4. RestTyped'
  BY <1>1, <1>3 DEF RestTyped
<1>5. r.seen = Nobody \/ (r.seen \in Sessions /\ time < r.seen.expiresAt)
  BY <1>3 DEF Refresh, ReadSession, RestTyped
<1>6. r.seen = Nobody \/ r.seen.expiresAt # session.expiresAt
  BY <1>1, <1>3, <1>5 DEF RestTyped, Sessions
<1>7. Replaces(r, session)
  <2>1. r.at = "fetch"
    BY DEF Refresh
  <2>2. r # Nobody
    BY <1>2, WalletAssumption DEF ATask, WalletAssumption
  <2>3. QED
    BY <1>6, <2>1, <2>2 DEF Replaces
<1> HIDE DEF r
<1>8. PICK m \in 1..MaxTasks : task[m] = Nobody /\ task' = [task EXCEPT ![m] = r]
  BY <1>1, <1>2, <1>3, StartsFree DEF TasksOK, ATask
<1>9. TasksOK'
  BY <1>2, <1>3, <1>8, PutTask
<1>10. task'[m] = r
  BY <1>3, <1>8 DEF TasksOK
<1>11. SessionTimed'
  BY <1>1, <1>7, <1>10 DEF SessionTimed
<1>12. QED
  BY <1>4, <1>9, <1>11, WalletPartsNext

LEMMA WalletChangesKeeps ==
  ASSUME WalletInv, WalletChanges
  PROVE  WalletInv'
<1>1. /\ Cardinality(Free(Background)) >= 2 /\ SetSession(Nobody)
      /\ UNCHANGED <<time, cookie, challenge, tokens, left>>
  BY DEF WalletChanges
<1>2. PICK a \in Addresses \cup {Nobody} :
        account' = a /\ task' = Started(Started(task, Logout), Refresh(a))
  BY DEF WalletChanges
<1>3. RestTyped'
  BY <1>1, <1>2, WalletParts, SetTyped DEF RestTyped
<1>4. ATask(Logout) /\ ATask(Refresh(a))
  BY ReadTyped, WalletParts, TaskTypes, RefreshIsATask
<1>5. \A f, t : \E m : Started(f, t) = [f EXCEPT ![m] = t]
  BY DEF Started
<1>6. PICK m : Started(task, Logout) = [task EXCEPT ![m] = Logout]
  BY <1>5
<1>7. PICK n : task' = [Started(task, Logout) EXCEPT ![n] = Refresh(a)]
  BY <1>2, <1>5
<1> DEFINE f == Started(task, Logout)
<1>8. f \in [1..MaxTasks -> Tasks \cup {Nobody}]
      /\ \A k \in 1..MaxTasks : f[k] # Nobody => Named(f[k])
  BY <1>4, <1>6 DEF WalletInv, WalletTypeOK, ATask
<1> HIDE DEF f
<1>9. task' = [f EXCEPT ![n] = Refresh(a)]
  BY <1>7 DEF f
<1>10. TasksOK'
  BY <1>4, <1>8, <1>9 DEF TasksOK, ATask
<1>11. SessionTimed'
  BY <1>1 DEF SetSession, SessionTimed
<1>12. QED
  BY <1>3, <1>10, <1>11, WalletPartsNext

LEMMA WalletBegins == WalletInit => WalletInv
<1> SUFFICES ASSUME WalletInit PROVE WalletInv
  OBVIOUS
<1>1. RestTyped
  <2>1. SessionTtl \in Nat /\ MaxClock \in Nat /\ MaxTokens \in Nat
    BY WalletAssumption DEF WalletAssumption
  <2>2. cookie \in Sessions \cup {Nobody}
    BY <2>1 DEF WalletInit, Sessions
  <2>3. time \in 0..MaxClock /\ tokens \in 0..MaxTokens
    BY <2>1 DEF WalletInit
  <2>4. QED
    BY <2>2, <2>3 DEF WalletInit, RestTyped
<1>2. ReadSession \in Sessions \cup {Nobody}
  BY <1>1 DEF RestTyped, ReadSession
<1>3. ATask(Refresh(Nobody))
  BY <1>1, <1>2, TaskTypes DEF Refresh
<1>4. PICK m : task = [[i \in 1..MaxTasks |-> Nobody] EXCEPT ![m] = Refresh(Nobody)]
  BY DEF WalletInit, Started
<1>5. TasksOK
  BY <1>3, <1>4 DEF TasksOK, ATask
<1>6. SessionTimed
  BY DEF WalletInit, SessionTimed
<1>7. QED
  BY <1>1, <1>5, <1>6, WalletParts

LEMMA WalletTicks ==
  ASSUME WalletInv, WalletTick \/ UNCHANGED walletVars
  PROVE  WalletInv'
<1>1. UNCHANGED <<account, session, expiry, cookie, challenge, tokens, task, left>>
  BY DEF WalletTick, walletVars
<1>2. time' \in 0..MaxClock
  BY WalletAssumption DEF WalletTick, walletVars, WalletInv, WalletTypeOK, WalletAssumption
<1>3. QED
  BY <1>1, <1>2 DEF WalletInv, WalletTypeOK, SessionTimed

LEMMA WalletStep == WalletInv /\ [WalletNext]_walletVars => WalletInv'
<1> SUFFICES ASSUME WalletInv, [WalletNext]_walletVars PROVE WalletInv'
  OBVIOUS
<1>1. ASSUME NEW i \in 1..MaxTasks, NetworkAnswers(i) PROVE WalletInv'
  BY <1>1, RefreshAnsweredKeeps, RefreshFailsKeeps, RefreshLogsOutKeeps, CurrentReadKeeps,
     VerifiedKeeps, LoggedOutKeeps, DisconnectedKeeps DEF NetworkAnswers
<1>2. ASSUME NEW i \in 1..MaxTasks, Prompted(i) PROVE WalletInv'
  BY <1>2, ConnectedKeeps, ChallengedKeeps, SignedKeeps, WalletLeftKeeps, TaskFailsKeeps
     DEF Prompted
<1>3. QED
  BY <1>1, <1>2, UserStartsKeeps, PageShownKeeps, WalletChangesKeeps, SessionExpiresKeeps,
     WalletTicks DEF WalletNext

(* A page that holds a session has the timer of its expiry set, or a       *)
(* refresh under way that ends with another session or with none, whatever *)
(* events started the provider's tasks and however their answers are       *)
(* ordered (the effect on the session's expiry, refreshSession): what the  *)
(* giving up of expired sessions rests on.                                 *)
THEOREM SessionIsTimed == WalletSpec => [](WalletTypeOK /\ SessionTimed)
<1>1. WalletInv => WalletTypeOK /\ SessionTimed
  BY DEF WalletInv
<1>2. QED
  BY <1>1, WalletBegins, WalletStep, PTL DEF WalletSpec

-----------------------------------------------------------------------------
(* The ledger *)

LedgerInv ==
  /\ LedgerTypeOK
  /\ \A d \in Digests : row[d] \in Final => row[d] = StatusOf(outcome[d])
  /\ asking \subseteq {d \in Digests : outcome[d] = "success"}

RowsKept == \A d \in Digests : row[d] \in Final => row'[d] = row[d]

LEMMA GreatestExists ==
  ASSUME NEW n \in Nat, NEW S \in SUBSET (1..n), S # {}
  PROVE  \E g \in S : \A m \in S : m <= g
<1> DEFINE Mirror == {n - m : m \in S}
<1>1. Mirror \in SUBSET Nat /\ Mirror # {}
  <2>1. \A m \in S : n - m \in Nat
    OBVIOUS
  <2>2. QED
    BY <2>1
<1>2. PICK k \in Mirror : \A l \in Mirror : k <= l
  BY <1>1, LeastExists
<1>3. PICK g \in S : k = n - g
  BY <1>2
<1>4. \A m \in S : n - g <= n - m
  BY <1>2, <1>3
<1>5. \A m \in S : m <= g
  BY <1>4
<1>6. QED
  BY <1>5

(* A run reads no more rows than its limit (`take` of findMany).           *)
LEMMA OldestIsABatch ==
  ASSUME LedgerAssumption, records \in Seq(Digests)
  PROVE  Oldest \subseteq DOMAIN records /\ Cardinality(Oldest) <= Batch
<1> DEFINE n == Len(records)
<1>1. n \in Nat /\ DOMAIN records = 1..n
  OBVIOUS
<1>2. Oldest \subseteq 1..n
  BY <1>1 DEF Oldest
<1>3. Batch \in Nat /\ Batch > 0
  BY DEF LedgerAssumption
<1>4. IsFiniteSet(Oldest)
  <2>1. IsFiniteSet(1..n)
    BY <1>1, FS_Interval
  <2>2. QED
    BY <1>2, <2>1, FS_Subset
<1>5. CASE Oldest = {}
  BY <1>2, <1>1, <1>3, <1>5, FS_EmptySet
<1>6. CASE Oldest # {}
  <2>1. PICK g \in Oldest : \A m \in Oldest : m <= g
    BY <1>1, <1>2, <1>6, GreatestExists
  <2> DEFINE before == {k \in 1..g - 1 : IsPending(records[k])}
  <2>2. g \in 1..n /\ Cardinality(before) < Batch
    BY <1>2, <2>1 DEF Oldest
  <2>3. Oldest \ {g} \subseteq before
    <3> SUFFICES ASSUME NEW m \in Oldest, m # g PROVE m \in before
      OBVIOUS
    <3>1. m \in 1..n /\ m <= g
      BY <1>2, <2>1
    <3>2. IsPending(records[m])
      BY DEF Oldest
    <3>3. QED
      BY <2>2, <3>1, <3>2
  <2>4. IsFiniteSet(before)
    <3>1. IsFiniteSet(1..g - 1)
      BY <2>2, FS_Interval
    <3>2. QED
      BY <3>1, FS_Subset
  <2>5. Cardinality(Oldest \ {g}) <= Cardinality(before) /\ Cardinality(before) \in Nat
    BY <2>3, <2>4, FS_Subset, FS_CardinalityType
  <2>6. Cardinality(Oldest \ {g}) = Cardinality(Oldest) - 1 /\ Cardinality(Oldest) \in Nat
    BY <1>4, <2>1, FS_RemoveElement, FS_CardinalityType
  <2>7. QED
    BY <1>1, <1>2, <1>3, <2>2, <2>5, <2>6
<1>7. QED
  BY <1>5, <1>6

\* The row a busy run is at has been recorded.
LEMMA AtARow ==
  ASSUME LedgerInv, NEW j \in Jobs, jobAt[j] # "idle"
  PROVE  /\ Min(todo[j]) \in todo[j] /\ Min(todo[j]) \in DOMAIN records
         /\ records[Min(todo[j])] \in Digests
         /\ row[records[Min(todo[j])]] # "none"
<1>1. records \in Seq(Digests) /\ todo[j] \subseteq DOMAIN records /\ todo[j] # {}
  BY DEF LedgerInv, LedgerTypeOK
<1>2. todo[j] \in SUBSET Nat
  BY <1>1
<1>3. Min(todo[j]) \in todo[j]
  BY <1>1, <1>2, MinIsLeast
<1>4. Min(todo[j]) \in DOMAIN records /\ records[Min(todo[j])] \in Digests
  BY <1>1, <1>3
<1>5. records[Min(todo[j])] \in {d \in Digests : row[d] # "none"}
  BY <1>4 DEF LedgerInv, LedgerTypeOK, ToSet
<1>6. QED
  BY <1>3, <1>4, <1>5

\* A row is only ever given the status that its transaction's outcome has.
LEMMA WriteAgrees ==
  ASSUME LedgerInv, outcome' = outcome, UNCHANGED <<records, observed, todo>>,
         NEW d \in Digests, row[d] # "none", row' = [row EXCEPT ![d] = StatusOf(outcome[d])],
         asking' \subseteq asking, jobAt' \in [Jobs -> {"idle", "settle", "observe"}],
         \A j \in Jobs : jobAt'[j] = "idle" <=> jobAt[j] = "idle"
  PROVE  LedgerInv' /\ RowsKept
<1>1. StatusOf(outcome[d]) \in Final
  BY DEF StatusOf, Final
<1>2. \A e \in Digests : row'[e] = IF e = d THEN StatusOf(outcome[d]) ELSE row[e]
  BY DEF LedgerInv, LedgerTypeOK
<1>3. RowsKept
  BY <1>2 DEF LedgerInv, RowsKept
<1>4. row' \in [Digests -> {"none", "submitted"} \cup Final]
  BY <1>1 DEF LedgerInv, LedgerTypeOK
<1>5. \A e \in Digests : row'[e] # "none" <=> row[e] # "none"
  BY <1>1, <1>2 DEF Final
<1>6. ToSet(records)' = {e \in Digests : row'[e] # "none"}
  BY <1>5 DEF LedgerInv, LedgerTypeOK, ToSet
<1>7. IsInjective(records)'
  BY DEF LedgerInv, LedgerTypeOK, IsInjective
<1>8. \A j \in Jobs : Cardinality(todo'[j]) <= Batch /\ (jobAt'[j] = "idle" <=> todo'[j] = {})
  BY DEF LedgerInv, LedgerTypeOK
<1>9. LedgerTypeOK'
  BY <1>4, <1>6, <1>7, <1>8 DEF LedgerInv, LedgerTypeOK
<1>10. QED
  BY <1>2, <1>3, <1>9 DEF LedgerInv

\* What a run keeps when it is done with a row.
LEMMA NextRowKeeps ==
  ASSUME LedgerInv, NEW j \in Jobs, jobAt[j] # "idle", NextRow(j),
         UNCHANGED <<outcome, row, records, asking>>,
         observed' \in [Digests -> Outcomes \cup {"none"}]
  PROVE  LedgerInv' /\ RowsKept
<1>1. todo'[j] = todo[j] \ {Min(todo[j])} /\ \A k \in Jobs : k # j => todo'[k] = todo[k]
  BY DEF NextRow, LedgerInv, LedgerTypeOK
<1>2. todo' \in [Jobs -> SUBSET DOMAIN records]
  BY <1>1 DEF NextRow, LedgerInv, LedgerTypeOK
<1>3. Cardinality(todo'[j]) <= Batch
  <2>1. todo[j] \subseteq 1..Len(records) /\ Len(records) \in Nat
    BY DEF LedgerInv, LedgerTypeOK
  <2>2. IsFiniteSet(todo[j])
    <3>1. IsFiniteSet(1..Len(records))
      BY <2>1, FS_Interval
    <3>2. QED
      BY <2>1, <3>1, FS_Subset
  <2>3. Cardinality(todo'[j]) <= Cardinality(todo[j])
        /\ Cardinality(todo[j]) \in Nat /\ Cardinality(todo'[j]) \in Nat
    BY <1>1, <2>2, FS_Subset, FS_CardinalityType
  <2>4. Cardinality(todo[j]) <= Batch /\ Batch \in Nat
    BY LedgerAssumption DEF LedgerInv, LedgerTypeOK, LedgerAssumption
  <2>5. QED
    BY <2>3, <2>4
<1>4. jobAt' \in [Jobs -> {"idle", "settle", "observe"}]
  BY DEF NextRow, LedgerInv, LedgerTypeOK
<1>5. \A k \in Jobs : jobAt'[k] = "idle" <=> todo'[k] = {}
  BY <1>1 DEF NextRow, LedgerInv, LedgerTypeOK
<1>6. ToSet(records)' = {e \in Digests : row[e] # "none"}'
  BY DEF LedgerInv, LedgerTypeOK, ToSet
<1>7. IsInjective(records)'
  BY DEF LedgerInv, LedgerTypeOK, IsInjective
<1>8. \A k \in Jobs : Cardinality(todo'[k]) <= Batch
  BY <1>1, <1>3 DEF LedgerInv, LedgerTypeOK
<1>9. LedgerTypeOK'
  BY <1>2, <1>4, <1>5, <1>6, <1>7, <1>8 DEF LedgerInv, LedgerTypeOK
<1>10. QED
  BY <1>9 DEF LedgerInv, RowsKept

LEMMA RecordKeeps ==
  ASSUME LedgerInv, NEW d \in Digests, RecordSubmittedSwap(d)
  PROVE  LedgerInv' /\ RowsKept
<1>1. row' \in [Digests -> {"none", "submitted"} \cup Final]
  BY DEF RecordSubmittedSwap, LedgerInv, LedgerTypeOK
<1>2. \A e \in Digests : row'[e] = IF e = d THEN "submitted" ELSE row[e]
  BY DEF RecordSubmittedSwap, LedgerInv, LedgerTypeOK
<1>3. row[d] = "none" /\ row[d] \notin Final /\ "submitted" \notin Final
  BY DEF RecordSubmittedSwap, Final
<1> DEFINE n == Len(records)
<1>4. records \in Seq(Digests) /\ n \in Nat /\ DOMAIN records = 1..n
  BY DEF LedgerInv, LedgerTypeOK
<1>5. /\ records' \in Seq(Digests) /\ DOMAIN records' = 1..n + 1
      /\ records'[n + 1] = d /\ \A i \in 1..n : records'[i] = records[i]
  BY <1>4, AppendProperties DEF RecordSubmittedSwap
<1>6. d \notin {records[i] : i \in 1..n}
  BY <1>3, <1>4 DEF LedgerInv, LedgerTypeOK, ToSet
<1>7. IsInjective(records')
  <2> SUFFICES ASSUME NEW a \in 1..n + 1, NEW b \in 1..n + 1, records'[a] = records'[b]
               PROVE  a = b
    BY <1>5 DEF IsInjective
  <2>1. \A i, k \in 1..n : records[i] = records[k] => i = k
    BY <1>4 DEF LedgerInv, LedgerTypeOK, IsInjective
  <2>2. QED
    BY <1>4, <1>5, <1>6, <2>1
<1>8. ToSet(records') = ToSet(records) \cup {d}
  <2>1. ToSet(records') = {records'[i] : i \in 1..n + 1}
    BY <1>5 DEF ToSet
  <2>2. ToSet(records) = {records[i] : i \in 1..n}
    BY <1>4 DEF ToSet
  <2>3. QED
    BY <1>4, <1>5, <2>1, <2>2
<1>9. ToSet(records') = {e \in Digests : row'[e] # "none"}
  BY <1>2, <1>8 DEF LedgerInv, LedgerTypeOK
<1>10. todo' \in [Jobs -> SUBSET DOMAIN records']
  BY <1>4, <1>5 DEF RecordSubmittedSwap, LedgerInv, LedgerTypeOK
<1>11. /\ jobAt' = jobAt /\ todo' = todo /\ outcome' = outcome /\ observed' = observed
       /\ asking' = asking
  BY DEF RecordSubmittedSwap
<1>12. LedgerTypeOK'
  BY <1>1, <1>5, <1>7, <1>9, <1>10, <1>11 DEF LedgerInv, LedgerTypeOK
<1>13. QED
  BY <1>2, <1>3, <1>11, <1>12 DEF LedgerInv, RowsKept

LEMMA JobStartKeeps ==
  ASSUME LedgerInv, NEW j \in Jobs, JobStarts(j)
  PROVE  LedgerInv' /\ RowsKept
<1>1. Oldest \subseteq DOMAIN records /\ Cardinality(Oldest) <= Batch /\ Oldest # {}
  BY LedgerAssumption, OldestIsABatch DEF LedgerInv, LedgerTypeOK, JobStarts
<1>2. /\ todo' = [todo EXCEPT ![j] = Oldest] /\ jobAt' = [jobAt EXCEPT ![j] = "settle"]
      /\ UNCHANGED <<outcome, row, records, observed, asking>>
  BY DEF JobStarts
<1>3. todo' \in [Jobs -> SUBSET DOMAIN records]
      /\ jobAt' \in [Jobs -> {"idle", "settle", "observe"}]
  BY <1>1, <1>2 DEF LedgerInv, LedgerTypeOK
<1>4. \A k \in Jobs : Cardinality(todo'[k]) <= Batch /\ (jobAt'[k] = "idle" <=> todo'[k] = {})
  BY <1>1, <1>2 DEF LedgerInv, LedgerTypeOK
<1>5. ToSet(records)' = {e \in Digests : row[e] # "none"}' /\ IsInjective(records)'
  BY <1>2 DEF LedgerInv, LedgerTypeOK, ToSet, IsInjective
<1>6. LedgerTypeOK'
  BY <1>2, <1>3, <1>4, <1>5 DEF LedgerInv, LedgerTypeOK
<1>7. QED
  BY <1>2, <1>6 DEF LedgerInv, RowsKept

LEMMA AskKeeps ==
  ASSUME LedgerInv, UNCHANGED <<outcome, row, records, observed, todo, jobAt>>,
         asking' \subseteq {d \in Digests : outcome[d] = "success"}
  PROVE  LedgerInv' /\ RowsKept
<1>1. ToSet(records)' = {e \in Digests : row[e] # "none"}' /\ IsInjective(records)'
  BY DEF LedgerInv, LedgerTypeOK, ToSet, IsInjective
<1>2. LedgerTypeOK'
  BY <1>1 DEF LedgerInv, LedgerTypeOK
<1>3. QED
  BY <1>2 DEF LedgerInv, RowsKept

LEMMA LedgerStep == LedgerInv /\ [LedgerNext]_ledgerVars => LedgerInv' /\ RowsKept
<1> SUFFICES ASSUME LedgerInv, [LedgerNext]_ledgerVars PROVE LedgerInv' /\ RowsKept
  OBVIOUS
<1>1. ASSUME NEW d \in Digests, RecordSubmittedSwap(d) PROVE LedgerInv' /\ RowsKept
  BY <1>1, RecordKeeps
<1>2. ASSUME NEW d \in Digests, PageAsks(d) PROVE LedgerInv' /\ RowsKept
  BY <1>2, AskKeeps DEF PageAsks, LedgerInv
<1>3. ASSUME NEW d \in Digests, MarkSwapConfirmed(d) PROVE LedgerInv' /\ RowsKept
  <2>1. /\ UNCHANGED <<outcome, records, observed, todo, jobAt>> /\ d \in asking
        /\ asking' = asking \ {d}
    BY <1>3 DEF MarkSwapConfirmed
  <2>2. CASE row' = row
    BY <2>1, <2>2, AskKeeps DEF LedgerInv
  <2>3. CASE row[d] # "none" /\ row' = [row EXCEPT ![d] = "confirmed"]
    <3>1. StatusOf(outcome[d]) = "confirmed"
      BY <2>1 DEF LedgerInv, StatusOf
    <3>2. jobAt' \in [Jobs -> {"idle", "settle", "observe"}]
      BY <2>1 DEF LedgerInv, LedgerTypeOK
    <3>3. QED
      BY <2>1, <2>3, <3>1, <3>2, WriteAgrees
  <2>4. QED
    BY <1>3, <2>2, <2>3 DEF MarkSwapConfirmed
<1>4. ASSUME NEW j \in Jobs, JobStarts(j) PROVE LedgerInv' /\ RowsKept
  BY <1>4, JobStartKeeps
<1>5. ASSUME NEW j \in Jobs, NEW d \in Digests, JobSettles(j, d)
      PROVE  LedgerInv' /\ RowsKept
  <2>1. jobAt[j] = "settle" /\ row[d] # "none"
    BY <1>5, AtARow DEF JobSettles, AtRow
  <2>2. jobAt' \in [Jobs -> {"idle", "settle", "observe"}]
        /\ \A k \in Jobs : jobAt'[k] = "idle" <=> jobAt[k] = "idle"
    BY <1>5, <2>1 DEF JobSettles, LedgerInv, LedgerTypeOK
  <2>3. QED
    BY <1>5, <2>1, <2>2, WriteAgrees DEF JobSettles
<1>6. ASSUME NEW j \in Jobs, NEW d \in Digests, JobObserves(j, d)
      PROVE  LedgerInv' /\ RowsKept
  <2>1. observed' \in [Digests -> Outcomes \cup {"none"}]
    BY <1>6 DEF JobObserves, LedgerInv, LedgerTypeOK
  <2>2. QED
    BY <1>6, <2>1, NextRowKeeps DEF JobObserves, AtRow
<1>7. ASSUME NEW j \in Jobs, JobSkips(j) PROVE LedgerInv' /\ RowsKept
  <2>1. observed' \in [Digests -> Outcomes \cup {"none"}]
    BY <1>7 DEF JobSkips, LedgerInv, LedgerTypeOK
  <2>2. QED
    BY <1>7, <2>1, NextRowKeeps DEF JobSkips
<1>8. CASE UNCHANGED ledgerVars
  BY <1>8, AskKeeps DEF ledgerVars, LedgerInv
<1>9. QED
  BY <1>1, <1>2, <1>3, <1>4, <1>5, <1>6, <1>7, <1>8 DEF LedgerNext, JobStep

LEMMA LedgerBegins == LedgerInit => LedgerInv
<1> SUFFICES ASSUME LedgerInit PROVE LedgerInv
  OBVIOUS
<1>1. records = <<>> /\ records \in Seq(Digests) /\ DOMAIN records = {}
  BY EmptySeq DEF LedgerInit
<1>2. IsInjective(records) /\ ToSet(records) = {}
  BY <1>1 DEF IsInjective, ToSet
<1>3. Cardinality({}) = 0 /\ 0 <= Batch
  BY FS_EmptySet, LedgerAssumption DEF LedgerAssumption
<1>4. LedgerTypeOK
  BY <1>1, <1>2, <1>3 DEF LedgerInit, LedgerTypeOK, Outcomes
<1>5. QED
  BY <1>4 DEF LedgerInit, LedgerInv, Final

(* A final row keeps what the chain says of its transaction, in whatever   *)
(* order the execute route, the page and overlapping runs of the job       *)
(* (recordSubmittedSwap, markSwapConfirmed, reconcilePendingSwaps) write   *)
(* it, and whichever of their calls fail.                                  *)
THEOREM FinalRowsStay == LedgerSpec => FinalStaysFinal
<1>1. LedgerInit => LedgerInv
  BY LedgerBegins
<1>2. LedgerInv /\ [LedgerNext]_ledgerVars =>
        LedgerInv' /\ [\A d \in Digests : row[d] \in Final => row'[d] = row[d]]_ledgerVars
  BY LedgerStep DEF RowsKept
<1>3. QED
  BY <1>1, <1>2, PTL DEF LedgerSpec, FinalStaysFinal

-----------------------------------------------------------------------------
(* The whole *)

LEMMA LivePartsStep ==
  [LiveNext]_liveVars => [Next]_vars /\ [WalletNext]_walletVars /\ [LedgerNext]_ledgerVars
BY DEF LiveNext, liveVars

\* Whichever component moves, a behaviour is one of each of them: the
\* specification that the run checks implements theirs.
THEOREM LiveIsItsParts == LiveSpec => Spec /\ WalletSpec /\ LedgerSpec
<1>1. LiveInit => Init /\ WalletInit /\ LedgerInit
  BY DEF LiveInit
<1>2. QED
  BY <1>1, LivePartsStep, PTL DEF LiveSpec, Spec, WalletSpec, LedgerSpec

\* The state of the budget, of the wallet's provider and of the ledger has its
\* type; a run of the job holds no more rows than its limit (`take`).
THEOREM LiveTypeCorrect == LiveSpec => []LiveTypeOK
<1>1. LedgerInv => LedgerTypeOK
  BY DEF LedgerInv
<1>2. LedgerInv /\ [LedgerNext]_ledgerVars => LedgerInv'
  BY LedgerStep
<1>3. LedgerSpec => []LedgerTypeOK
  BY <1>1, <1>2, LedgerBegins, PTL DEF LedgerSpec
<1>4. TypeOK /\ WalletTypeOK /\ LedgerTypeOK => LiveTypeOK
  BY DEF LiveTypeOK
<1>5. QED
  BY <1>3, <1>4, TypeCorrect, SessionIsTimed, LiveIsItsParts, PTL
=============================================================================
