----------------------------- MODULE MCPOApproval -----------------------------
(* Small instances of POApproval for TLC. *)
EXTENDS POApproval

CONSTANTS p1, p2, req, ann, bob, small, big, r1, r2, r3

\* Two approvers side by side in step 1 (the requester backs up ann), and ann
\* again in step 4, which has no status of its own, for big orders only.
MCStepOf   == [r \in {r1, r2, r3} |-> IF r = r3 THEN 4 ELSE 1]
MCApprover == [r \in {r1, r2, r3} |-> IF r = r2 THEN bob ELSE ann]
MCBackup   == [r \in {r1, r2, r3} |-> IF r = r1 THEN req ELSE NoUser]
MCMatches  == [r \in {r1, r2, r3} |-> IF r = r3 THEN {big} ELSE {small, big}]

\* One rule, for the instance with several POs.
OneStepOf   == [r \in {r1} |-> 1]
OneApprover == [r \in {r1} |-> ann]
OneBackup   == [r \in {r1} |-> NoUser]
OneMatches  == [r \in {r1} |-> {small}]
=============================================================================
