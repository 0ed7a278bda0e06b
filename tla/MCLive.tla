------------------------------- MODULE MCLive -------------------------------
(***************************************************************************)
(* Small instances, for TLC, of the components that something is promised  *)
(* of in the end: admission control, the wallet's session and the ledger   *)
(* of swaps.  They share no state, so that one run checks each by itself:  *)
(* a behaviour is one of `subject`, and the others stay where they began.  *)
(***************************************************************************)
EXTENDS ConcurrencyBudget, WalletSession, SwapLedger

VARIABLE subject

liveVars == <<vars, walletVars, ledgerVars, subject>>

LiveInit ==
  /\ subject \in {"budget", "wallet", "ledger"}
  /\ Init /\ WalletInit /\ LedgerInit
  /\ subject # "wallet" => cookie = Nobody
  /\ subject # "ledger" => outcome = [d \in Digests |-> "success"]

LiveNext ==
  /\ UNCHANGED subject
  /\ \/ subject = "budget" /\ Next /\ UNCHANGED <<walletVars, ledgerVars>>
     \/ subject = "wallet" /\ WalletNext /\ UNCHANGED <<vars, ledgerVars>>
     \/ subject = "ledger" /\ LedgerNext /\ UNCHANGED <<vars, walletVars>>

(* The fairness of each component, see there, while it is the subject. *)
LiveFairness ==
  /\ \A r \in Requests : WF_vars(subject = "budget" /\ Finish(r))
  /\ \A i \in 1..MaxTasks : WF_walletVars(subject = "wallet" /\ NetworkAnswers(i))
  /\ SF_walletVars(subject = "wallet" /\ SessionExpires)
  /\ \A j \in Jobs :
       /\ WF_ledgerVars(subject = "ledger" /\ JobStarts(j))
       /\ WF_ledgerVars(subject = "ledger" /\ JobStep(j))
       /\ \A d \in Digests \ Lost : SF_ledgerVars(subject = "ledger" /\ JobSettles(j, d))

LiveSpec == LiveInit /\ [][LiveNext]_liveVars /\ LiveFairness

(* Each component's state has its type. *)
LiveTypeOK == TypeOK /\ WalletTypeOK /\ LedgerTypeOK
=============================================================================
