--------------------------- MODULE ContractService ---------------------------
(***************************************************************************)
(* What the node promises a consumer, without slots, handlers, memories or *)
(* sleep: every identifier has one contract and one transfer under it, and *)
(* each moves along the dataspace protocol.  State is lost only as a whole *)
(* (Forget).                                                               *)
(***************************************************************************)
CONSTANT Pid

VARIABLES
    contract,  \* [Pid -> ContractState]
    transfer   \* [Pid -> TransferState]

serviceVars == <<contract, transfer>>

ContractState == {"None", "Offered", "Agreed", "Terminated"}
TransferState == {"None", "Transferring", "Completed"}

Nothing == /\ contract = [p \in Pid |-> "None"]
           /\ transfer = [p \in Pid |-> "None"]

Offer(p) == /\ contract[p] = "None"
            /\ contract' = [contract EXCEPT ![p] = "Offered"]
            /\ UNCHANGED transfer

Agree(p) == /\ contract[p] = "Offered"
            /\ contract' = [contract EXCEPT ![p] = "Agreed"]
            /\ UNCHANGED transfer

Terminate(p) == /\ contract[p] \in {"Offered", "Agreed"}
                /\ contract' = [contract EXCEPT ![p] = "Terminated"]
                /\ UNCHANGED transfer

(* Only an agreed contract starts a transfer, and at most one that counts. *)
Start(p) == /\ contract[p] = "Agreed"
            /\ transfer[p] = "None"
            /\ transfer' = [transfer EXCEPT ![p] = "Transferring"]
            /\ UNCHANGED contract

Complete(p) == /\ transfer[p] = "Transferring"
               /\ transfer' = [transfer EXCEPT ![p] = "Completed"]
               /\ UNCHANGED contract

Forget == Nothing'

ServiceNext == \/ \E p \in Pid : \/ Offer(p) \/ Agree(p) \/ Terminate(p)
                                 \/ Start(p) \/ Complete(p)
               \/ Forget

ServiceSpec == Nothing /\ [][ServiceNext]_serviceVars
=============================================================================
