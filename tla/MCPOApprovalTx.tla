---------------------------- MODULE MCPOApprovalTx ----------------------------
(* Small instances of POApprovalTx for TLC. *)
EXTENDS POApprovalTx, TLC

CONSTANTS p1, p2, req, ann, bob, small, big, r1, r2, r3, w1, w2

\* Two approvers side by side in step 1 (bob also backs up ann), and one of
\* them again in step 2 for big orders.
TxStepOf   == [r \in Rule |-> IF r = r3 THEN 2 ELSE 1]
TxApprover == [r \in Rule |-> IF r = r2 THEN bob ELSE ann]
TxBackup   == [r \in Rule |-> IF r = r1 THEN bob ELSE NoUser]
TxMatches  == [r \in Rule |-> IF r = r3 THEN {big} ELSE Content]

Interchangeable == Permutations(Worker) \cup Permutations(PO)
=============================================================================
