----------------------------- MODULE PendingLog -----------------------------
(***************************************************************************)
(* What the executor promises about the pending-action log (WAL) and the  *)
(* chain, with every queue, task and retry abstracted away: an action is  *)
(* recorded once, the chain approves and then may claim it, and the WAL   *)
(* lets go of an action only when the chain has processed it, either      *)
(* already or in the same step (a successful settlement transaction).     *)
(***************************************************************************)
CONSTANT Actions

VARIABLES
    wal,       \* the actions the pending log holds
    chain,     \* on-chain BridgeActionStatus of each action
    observed   \* the actions ever recorded

vars == <<wal, chain, observed>>

Processed == {"Approved", "Claimed"}

Init ==
    /\ wal = {}
    /\ chain \in [Actions -> {"Pending", "RecordNotFound"}]
    /\ observed = {}

(* insert_pending_actions of an action seen for the first time.           *)
Insert(a) ==
    /\ a \notin observed
    /\ wal' = wal \cup {a}
    /\ observed' = observed \cup {a}
    /\ UNCHANGED chain

(* The chain approves the action (this node's transaction or another's).  *)
Approve(a) ==
    /\ chain[a] \notin Processed
    /\ chain' = [chain EXCEPT ![a] = "Approved"]
    /\ UNCHANGED <<wal, observed>>

Claim(a) ==
    /\ chain[a] = "Approved"
    /\ chain' = [chain EXCEPT ![a] = "Claimed"]
    /\ UNCHANGED <<wal, observed>>

(* remove_pending_actions of an action the chain has processed.           *)
Release(a) ==
    /\ chain[a] \in Processed
    /\ wal' = wal \ {a}
    /\ UNCHANGED <<chain, observed>>

(* A settlement transaction with Success effects, and the removal after it. *)
ApproveAndRelease(a) ==
    /\ chain[a] \notin Processed
    /\ chain' = [chain EXCEPT ![a] = "Approved"]
    /\ wal' = wal \ {a}
    /\ UNCHANGED observed

Next ==
    \E a \in Actions :
        Insert(a) \/ Approve(a) \/ Claim(a) \/ Release(a) \/ ApproveAndRelease(a)

Spec == Init /\ [][Next]_vars
=============================================================================
