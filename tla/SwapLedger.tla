----------------------------- MODULE SwapLedger -----------------------------
(***************************************************************************)
(* The life of a swap's row in the database.  The execute route records a  *)
(* swap it has submitted (recordSubmittedSwap); the transaction's page     *)
(* marks it confirmed (markSwapConfirmed); the hourly job settles what is  *)
(* left, a batch of the oldest at a time, and keeps what it has seen of    *)
(* the chain (reconcilePendingSwaps).  All of it is best effort: any call  *)
(* of the database or of the chain may fail.                               *)
(***************************************************************************)
EXTENDS FiniteSets, Integers, Sequences, SequencesExt

CONSTANTS
  Digests,       \* transactions
  Lost,          \* those the RPC endpoints have nothing to say of
  Jobs,          \* runs of the job that may overlap
  Batch          \* rows of one run

ASSUME LedgerAssumption ==
  /\ IsFiniteSet(Digests) /\ Lost \subseteq Digests
  /\ Batch \in Nat \ {0} /\ Cardinality(Lost) < Batch

VARIABLES
  outcome,   \* what the chain has made of each transaction
  row,       \* the status of each one's row
  records,   \* the rows, oldest first (submittedAt)
  observed,  \* what the job has stored of the chain's answer
  todo,      \* rows that each job has read and not done with: places in `records`
  jobAt,     \* what each job does next with the oldest of them
  asking     \* the reading of a transaction's page under way, if any

ledgerVars == <<outcome, row, records, observed, todo, jobAt, asking>>

Outcomes == {"success", "failure"}
StatusOf(answer) == IF answer = "success" THEN "confirmed" ELSE "failed"
Final == {"confirmed", "failed"}

LedgerTypeOK ==
  /\ outcome \in [Digests -> Outcomes]
  /\ row \in [Digests -> {"none", "submitted"} \cup Final]
  /\ records \in Seq(Digests) /\ IsInjective(records)
  /\ ToSet(records) = {d \in Digests : row[d] # "none"}
  /\ observed \in [Digests -> Outcomes \cup {"none"}]
  /\ todo \in [Jobs -> SUBSET DOMAIN records]
  /\ jobAt \in [Jobs -> {"idle", "settle", "observe"}]
  /\ \A j \in Jobs : Cardinality(todo[j]) <= Batch /\ (jobAt[j] = "idle" <=> todo[j] = {})
  /\ asking \subseteq Digests

(* The route records what its answer does not call a failure, so also an   *)
(* answer without a status (envelope.ts:54): either outcome may be behind. *)
LedgerInit ==
  /\ outcome \in [Digests -> Outcomes]
  /\ row = [d \in Digests |-> "none"] /\ records = <<>>
  /\ observed = [d \in Digests |-> "none"]
  /\ todo = [j \in Jobs |-> {}] /\ jobAt = [j \in Jobs |-> "idle"]
  /\ asking = {}

-----------------------------------------------------------------------------
\* Mutant: the upsert writes its row whether it is there or not.
RecordsAnew(d) ==
  /\ row' = [row EXCEPT ![d] = "submitted"]
  /\ records' = IF row[d] = "none" THEN Append(records, d) ELSE records
  /\ UNCHANGED <<outcome, observed, todo, jobAt, asking>>

(* recordSubmittedSwap, again when the same bytes come under another key:  *)
(* `update: {}`.  A failure is only logged: a step that changes nothing.   *)
RecordSubmittedSwap(d) ==
  /\ row[d] = "none"
  /\ row' = [row EXCEPT ![d] = "submitted"]
  /\ records' = Append(records, d)
  /\ UNCHANGED <<outcome, observed, todo, jobAt, asking>>

(* GET /transactions/:digest.  A failed one is answered 422, its row left. *)
PageAsks(d) ==
  /\ d \notin asking \cup Lost /\ outcome[d] = "success"
  /\ asking' = asking \cup {d}
  /\ UNCHANGED <<outcome, row, records, observed, todo, jobAt>>

MarkSwapConfirmed(d) ==
  /\ d \in asking /\ asking' = asking \ {d}
  /\ row' \in {row} \cup (IF row[d] = "none" THEN {} ELSE {[row EXCEPT ![d] = "confirmed"]})
  /\ UNCHANGED <<outcome, records, observed, todo, jobAt>>

-----------------------------------------------------------------------------
\* Mutant: the job reads the oldest rows of all.
AnyRow(d) == TRUE

IsPending(d) == row[d] = "submitted"

(* findMany, `orderBy: { submittedAt: "asc" }, take`: pending rows with    *)
(* fewer than a batch of them before.                                      *)
Oldest ==
  {i \in DOMAIN records :
     IsPending(records[i]) /\ Cardinality({k \in 1..i - 1 : IsPending(records[k])}) < Batch}

JobStarts(j) ==
  /\ jobAt[j] = "idle" /\ Oldest # {}
  /\ todo' = [todo EXCEPT ![j] = Oldest]
  /\ jobAt' = [jobAt EXCEPT ![j] = "settle"]
  /\ UNCHANGED <<outcome, row, records, observed, asking>>

AtRow(j, at, d) == jobAt[j] = at /\ d = records[Min(todo[j])]

NextRow(j) ==
  /\ todo' = [todo EXCEPT ![j] = @ \ {Min(@)}]
  /\ jobAt' = [jobAt EXCEPT ![j] = IF todo'[j] = {} THEN "idle" ELSE "settle"]

(* getTransactionGrpc, whose answer is the outcome whenever it comes, and  *)
(* the row's update.                                                       *)
JobSettles(j, d) ==
  /\ AtRow(j, "settle", d) /\ d \notin Lost
  /\ row' = [row EXCEPT ![d] = StatusOf(outcome[d])]
  /\ jobAt' = [jobAt EXCEPT ![j] = "observe"]
  /\ UNCHANGED <<outcome, records, observed, todo, asking>>

JobObserves(j, d) ==
  /\ AtRow(j, "observe", d)
  /\ observed' = [observed EXCEPT ![d] = outcome[d]]
  /\ NextRow(j)
  /\ UNCHANGED <<outcome, row, records, asking>>

(* No digest in the answer (`missing`), or an error: on to the next row.   *)
JobSkips(j) ==
  /\ jobAt[j] # "idle"
  /\ NextRow(j)
  /\ UNCHANGED <<outcome, row, records, observed, asking>>

JobStep(j) ==
  \/ \E d \in Digests : JobSettles(j, d) \/ JobObserves(j, d)
  \/ JobSkips(j)

LedgerNext ==
  \/ \E d \in Digests : RecordSubmittedSwap(d) \/ PageAsks(d) \/ MarkSwapConfirmed(d)
  \/ \E j \in Jobs : JobStarts(j) \/ JobStep(j)

LedgerSpec == LedgerInit /\ [][LedgerNext]_ledgerVars

(* The cron starts the job over and over, every call of a run ends in an   *)
(* answer or an error, and neither the chain nor the database fails for a  *)
(* row for ever.                                                           *)
LedgerFairness(j) ==
  /\ WF_ledgerVars(JobStarts(j)) /\ WF_ledgerVars(JobStep(j))
  /\ \A d \in Digests \ Lost : SF_ledgerVars(JobSettles(j, d))

LedgerFairSpec == LedgerSpec /\ \A j \in Jobs : LedgerFairness(j)

-----------------------------------------------------------------------------
(* A row, once final, keeps what the chain says of it, though the execute  *)
(* route, the page and overlapping runs of the job write it in any order.  *)
FinalStaysFinal ==
  [][\A d \in Digests : row[d] \in Final => row'[d] = row[d]]_ledgerVars

(* Every swap recorded is settled in the end: transactions that cannot be  *)
(* looked up, fewer than a batch, do not keep the job from later ones.     *)
Settled ==
  \A d \in Digests \ Lost : row[d] = "submitted" ~> row[d] = StatusOf(outcome[d])
=============================================================================
