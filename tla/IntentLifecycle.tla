--------------------------- MODULE IntentLifecycle ---------------------------
(***************************************************************************)
(* What the executor promises in manual mode, without processes, locks,    *)
(* transactions or clocks: every intent gets the next nonce in order, the  *)
(* breakers' verdict on it is final, and an intent that passed them is     *)
(* decided at most once, by a human's approval.                            *)
(*                                                                         *)
(*   none --Propose--> rejected                                            *)
(*          Propose--> pending --Approve--> submitted | denied             *)
(***************************************************************************)
EXTENDS Naturals

CONSTANT IntentIds

VARIABLES
    issued,     \* how many nonces have been given out
    status,     \* where each intent stands
    nonceOf     \* the nonce of each intent that is not "none"

lifecycleVars == <<issued, status, nonceOf>>

Statuses == {"none", "rejected", "pending", "denied", "submitted"}

Init ==
    /\ issued = 0
    /\ status = [i \in IntentIds |-> "none"]
    /\ nonceOf = [i \in IntentIds |-> 0]

(* An intent comes into being with the next nonce; the breakers decide     *)
(* whether a human will be asked.                                          *)
Propose(i) ==
    /\ status[i] = "none"
    /\ \E verdict \in {"rejected", "pending"} :
          status' = [status EXCEPT ![i] = verdict]
    /\ nonceOf' = [nonceOf EXCEPT ![i] = issued]
    /\ issued' = issued + 1

(* A human approves a pending intent; the signer has the last word.        *)
Approve(i) ==
    /\ status[i] = "pending"
    /\ \E outcome \in {"denied", "submitted"} :
          status' = [status EXCEPT ![i] = outcome]
    /\ UNCHANGED <<issued, nonceOf>>

Next == \E i \in IntentIds : Propose(i) \/ Approve(i)

Spec == Init /\ [][Next]_lifecycleVars
=============================================================================
