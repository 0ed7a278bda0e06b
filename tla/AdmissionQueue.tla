--------------------------- MODULE AdmissionQueue ---------------------------
(***************************************************************************)
(* What docs/RC15-UPSTREAM-ADMISSION-CONTROL.md promises of a budget: at   *)
(* most Concurrency requests are inside at once, at most QueueLimit stand  *)
(* in line, the line is served first come first served, nobody stands in   *)
(* it while there is room, and one who is told to go may leave it anywhere.*)
(* ConcurrencyBudget is shown to implement this specification.             *)
(***************************************************************************)
EXTENDS Integers, Sequences, FiniteSets, SequencesExt

CONSTANTS Requests, Concurrency, QueueLimit

VARIABLES
  inside,   \* the set of requests that are admitted
  line      \* the sequence of requests that wait

Init == inside = {} /\ line = <<>>

Full == Cardinality(inside) = Concurrency

Enter(r) ==
  /\ r \notin inside \cup ToSet(line)
  /\ ~Full /\ line = <<>>
  /\ inside' = inside \cup {r}
  /\ UNCHANGED line

Join(r) ==
  /\ r \notin inside \cup ToSet(line)
  /\ Full /\ Len(line) < QueueLimit
  /\ line' = Append(line, r)
  /\ UNCHANGED inside

\* One leaves; the first in line, if there is a line, takes the place.
Leave(r) ==
  /\ r \in inside
  /\ \/ /\ line = <<>>
        /\ inside' = inside \ {r}
        /\ UNCHANGED line
     \/ /\ line # <<>>
        /\ inside' = (inside \ {r}) \cup {Head(line)}
        /\ line' = Tail(line)

GiveUp(i) ==
  /\ line' = RemoveAt(line, i)
  /\ UNCHANGED inside

Next ==
  \/ \E r \in Requests : Enter(r) \/ Join(r) \/ Leave(r)
  \/ \E i \in DOMAIN line : GiveUp(i)

Spec == Init /\ [][Next]_<<inside, line>>
============================================================================
