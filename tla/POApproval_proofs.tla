-------------------------- MODULE POApproval_proofs --------------------------
(* Proofs about the approval workflow, for every set of POs, users, rules    *)
(* and contents.                                                             *)
EXTENDS POApprovalTx, TLAPS

-----------------------------------------------------------------------------
(* Type correctness. *)

LEMMA StatusForStepType == \A n \in Nat : StatusForStep(n) \in Waiting
BY DEF StatusForStep, Waiting

LEMMA Statuses ==
  /\ {"draft", "changes_requested", "approved", "rejected", "postponed", "cancelled",
      "sent_to_supplier", "received", "partially_received", "closed"} \subseteq Status
  /\ Waiting \subseteq Status
  /\ "none" \in Gone /\ "deleted" \in Gone
BY DEF Status, Waiting, Fulfilled, Terminal, Editable, Gone

\* One lemma per shape in which an action updates the row of a PO.
LEMMA RowStatusStep ==
  ASSUME NEW x \in Row, NEW st \in Status \cup Gone, NEW s \in Nat
  PROVE  /\ [x EXCEPT !.status = st] \in Row
         /\ [x EXCEPT !.status = st, !.step = s] \in Row
BY DEF Row

LEMMA RowPostponed ==
  ASSUME NEW x \in Row, x.status \in Status
  PROVE  [x EXCEPT !.status = "postponed", !.step = 0,
                   !.heldStatus = x.status, !.heldStep = x.step] \in Row
<1>1. "postponed" \in Status
  BY Statuses
<1> QED
  BY <1>1 DEF Row

LEMMA PoStatusStep ==
  ASSUME NEW p \in PO, po \in [PO -> Row], NEW st \in Status \cup Gone, NEW s \in Nat
  PROVE  /\ [po EXCEPT ![p].status = st] \in [PO -> Row]
         /\ [po EXCEPT ![p].status = st, ![p].step = s] \in [PO -> Row]
         /\ [po EXCEPT ![p].step = s, ![p].status = st] \in [PO -> Row]
BY DEF Row

LEMMA PoContent ==
  ASSUME NEW p \in PO, po \in [PO -> Row], NEW u \in User, NEW c \in Content
  PROVE  /\ [po EXCEPT ![p].content = c] \in [PO -> Row]
         /\ [po EXCEPT ![p].status = "draft", ![p].by = u, ![p].content = c] \in [PO -> Row]
<1>1. "draft" \in Status
  BY Statuses
<1> QED
  BY <1>1 DEF Row

LEMMA PoNumbered ==
  ASSUME NEW p \in PO, po \in [PO -> Row], NEW st \in Status, NEW s \in Nat, NEW n \in Nat
  PROVE  [po EXCEPT ![p].number = n, ![p].step = s, ![p].status = st] \in [PO -> Row]
BY DEF Row

LEMMA PoResumed ==
  ASSUME NEW p \in PO, po \in [PO -> Row], po[p].heldStatus # "null"
  PROVE  [po EXCEPT ![p].status = po[p].heldStatus, ![p].step = po[p].heldStep,
                    ![p].heldStatus = "null", ![p].heldStep = 0] \in [PO -> Row]
BY DEF Row

LEMMA InitType == ConstantsAssumption /\ Init => TypeOK
BY Statuses DEF Init, TypeOK, Row, ConstantsAssumption

LEMMA LoadRulesType == ConstantsAssumption /\ TypeOK => \A c : LoadRules(c) \subseteq Rule
BY DEF LoadRules, TypeOK, ConstantsAssumption

LEMMA ActionableRow ==
  ASSUME NEW p \in PO, NEW u, NEW r \in Actionable(p, u)
  PROVE  /\ r \in Rule
         /\ rows[p][r] = "pending"
         /\ StepOf[r] = po[p].step
BY DEF Actionable, AtStep, InState

LEMMA NextType == ConstantsAssumption /\ TypeOK /\ [Next]_vars => TypeOK'
<1> SUFFICES ASSUME ConstantsAssumption, TypeOK, [Next]_vars
             PROVE  TypeOK'
  OBVIOUS
<1> USE DEF TypeOK
<1>1. ASSUME NEW p \in PO, NEW u \in User, NEW c \in Content,
             CreateDraft(p, u, c) \/ UpdateDraft(p, u, c)
      PROVE  TypeOK'
  <2>1. po' \in [PO -> Row]
    <3>1. CASE CreateDraft(p, u, c)
      BY <3>1, PoContent DEF CreateDraft
    <3>2. CASE UpdateDraft(p, u, c)
      BY <3>2, PoContent DEF UpdateDraft
    <3> QED
      BY <1>1, <3>1, <3>2
  <2> QED
    BY <1>1, <2>1 DEF CreateDraft, UpdateDraft
<1>2. ASSUME NEW p \in PO, NEW u \in User, Submit(p, u)
      PROVE  TypeOK'
  <2>1. PICK s \in {StepOf[r] : r \in LoadRules(po[p].content)} : 
          LET taken == LoadRules(po[p].content)
              first == AtStep(s, taken)
          IN  /\ lastSeq' = lastSeq + 1
              /\ rows' = [rows EXCEPT ![p] =
                            [r \in Rule |-> IF r \in taken THEN "pending" ELSE "none"]]
              /\ po' = [po EXCEPT ![p].number = lastSeq + 1, ![p].step = s,
                                  ![p].status = StatusForStep(s)]
              /\ queued' = [queued EXCEPT ![p] = CancelAll(@) \cup NotesFor(first)]
              /\ asked' = [asked EXCEPT ![p] = {Approver[r] : r \in first}]
              /\ filed' = [filed EXCEPT ![p] = [content |-> po[p].content, rules |-> taken]]
    BY <1>2 DEF Submit, NextNumber
  <2>2. LoadRules(po[p].content) \subseteq Rule
    BY LoadRulesType
  <2>3. s \in Nat
    BY <2>1, <2>2 DEF ConstantsAssumption
  <2>4. lastSeq' \in 0..MaxSeq
    BY <1>2, <2>1 DEF Submit, NextNumber, ConstantsAssumption
  <2>5. po' \in [PO -> Row]
    <3>1. StatusForStep(s) \in Status
      BY <2>3, StatusForStepType, Statuses
    <3>2. lastSeq + 1 \in Nat
      BY DEF ConstantsAssumption
    <3> QED
      BY <2>1, <2>3, <3>1, <3>2, PoNumbered
  <2>6. rows' \in [PO -> [Rule -> {"none", "pending", "approved", "rejected"}]]
    BY <2>1
  <2>7. queued' \in [PO -> SUBSET ((User \cup {NoUser}) \X (ApprovalEvent \cup {"update"}))]
    BY <2>1, <2>2 DEF CancelAll, ApprovalNotes, NotesFor, AtStep, ConstantsAssumption
  <2>8. asked' \in [PO -> SUBSET User]
    BY <2>1, <2>2 DEF AtStep, ConstantsAssumption
  <2>9. filed' \in [PO -> [content : Content, rules : SUBSET Rule]]
    BY <2>1, <2>2 DEF Row
  <2> QED
    BY <1>2, <2>4, <2>5, <2>6, <2>7, <2>8, <2>9 DEF Submit, NextNumber
<1>3. ASSUME NEW p \in PO, NEW u \in User, ApproveStep(p, u)
      PROVE  TypeOK'
  <2>1. PICK r \in Actionable(p, u) :
          /\ \/ ApprovePartial(p, u, r)
             \/ ApproveAdvance(p, r)
             \/ ApproveFinal(p, r)
          /\ rows' = [rows EXCEPT ![p][r] = "approved"]
    BY <1>3 DEF ApproveStep
  <2>2. r \in Rule
    BY ActionableRow
  <2>3. rows' \in [PO -> [Rule -> {"none", "pending", "approved", "rejected"}]]
    BY <2>1, <2>2
  <2>4. UNCHANGED <<rules, lastSeq, filed>>
    BY <1>3 DEF ApproveStep
  <2>5. CASE ApprovePartial(p, u, r)
    BY <2>3, <2>4, <2>5 DEF ApprovePartial, CancelForUser
  <2>6. CASE ApproveAdvance(p, r)
    <3>1. PICK s \in {StepOf[q] : q \in InState(p, "pending") \ {r}} :
            LET next == AtStep(s, RowsOf(p))
            IN  /\ po' = [po EXCEPT ![p].step = s, ![p].status = StatusForStep(s)]
                /\ queued' = [queued EXCEPT ![p] = CancelAll(@) \cup NotesFor(next)]
                /\ asked' = [asked EXCEPT ![p] = {Approver[q] : q \in next}]
      BY <2>6 DEF ApproveAdvance
    <3>2. s \in Nat
      BY <3>1 DEF InState, ConstantsAssumption
    <3>3. po' \in [PO -> Row]
      BY <3>1, <3>2, StatusForStepType, Statuses, PoStatusStep
    <3>4. queued' \in [PO -> SUBSET ((User \cup {NoUser}) \X (ApprovalEvent \cup {"update"}))]
      BY <3>1 DEF CancelAll, ApprovalNotes, NotesFor, AtStep, RowsOf, ConstantsAssumption
    <3>5. asked' \in [PO -> SUBSET User]
      BY <3>1 DEF AtStep, RowsOf, ConstantsAssumption
    <3> QED
      BY <2>3, <2>4, <3>3, <3>4, <3>5
  <2>7. CASE ApproveFinal(p, r)
    <3>1. po' \in [PO -> Row]
      BY <2>7, Statuses, PoStatusStep DEF ApproveFinal
    <3>2. queued' \in [PO -> SUBSET ((User \cup {NoUser}) \X (ApprovalEvent \cup {"update"}))]
      BY <2>7 DEF ApproveFinal, CancelAll, ApprovalNotes, ToldRequester, Row
    <3> QED
      BY <2>3, <2>4, <2>7, <3>1, <3>2 DEF ApproveFinal
  <2> QED
    BY <2>1, <2>5, <2>6, <2>7
<1>4. ASSUME NEW p \in PO, NEW u \in User, NEW row \in Row, LeaveQueue(p, u, row),
             rows' \in [PO -> [Rule -> {"none", "pending", "approved", "rejected"}]]
      PROVE  TypeOK'
  <2>1. po' \in [PO -> Row]
    BY <1>4 DEF LeaveQueue
  <2>2. queued' \in [PO -> SUBSET ((User \cup {NoUser}) \X (ApprovalEvent \cup {"update"}))]
    BY <1>4 DEF LeaveQueue, CancelAll, ApprovalNotes, ToldRequester, Row
  <2> QED
    BY <1>4, <2>1, <2>2 DEF LeaveQueue
<1>5. ASSUME NEW p \in PO, NEW u \in User, RejectPO(p, u)
      PROVE  TypeOK'
  <2>1. PICK r \in Actionable(p, u) :
          /\ rows' = [rows EXCEPT ![p][r] = "rejected"]
          /\ LeaveQueue(p, u, [po[p] EXCEPT !.status = "rejected", !.step = 0])
    BY <1>5 DEF RejectPO
  <2>2. [po[p] EXCEPT !.status = "rejected", !.step = 0] \in Row
    BY Statuses, RowStatusStep
  <2>3. rows' \in [PO -> [Rule -> {"none", "pending", "approved", "rejected"}]]
    BY <2>1, ActionableRow
  <2> QED
    BY <1>4, <2>1, <2>2, <2>3
<1>6. ASSUME NEW p \in PO, NEW u \in User, RequestChanges(p, u)
      PROVE  TypeOK'
  <2>1. [po[p] EXCEPT !.status = "changes_requested", !.step = 0] \in Row
    BY Statuses, RowStatusStep
  <2> QED
    BY <1>4, <1>6, <2>1 DEF RequestChanges
<1>7. ASSUME NEW p \in PO, NEW u \in User, PostponePO(p, u)
      PROVE  TypeOK'
  <2>1. po[p].status \in Status
    BY <1>7 DEF PostponePO, LeaveQueue, Exists, Row
  <2>2. [po[p] EXCEPT !.status = "postponed", !.step = 0,
                      !.heldStatus = po[p].status, !.heldStep = po[p].step] \in Row
    BY <2>1, RowPostponed
  <2> QED
    BY <1>4, <1>7, <2>2 DEF PostponePO
<1>8. ASSUME NEW p \in PO, ResumePostponed(p)
      PROVE  TypeOK'
  <2>1. po' \in [PO -> Row]
    BY <1>8, PoResumed DEF ResumePostponed
  <2>2. queued' \in [PO -> SUBSET ((User \cup {NoUser}) \X (ApprovalEvent \cup {"update"}))]
    BY <1>8 DEF ResumePostponed, NotesFor, AtStep, InState, ToldRequester, Row,
                ConstantsAssumption
  <2>3. asked' \in [PO -> SUBSET User]
    BY <1>8 DEF ResumePostponed, AtStep, InState, ConstantsAssumption
  <2> QED
    BY <1>8, <2>1, <2>2, <2>3 DEF ResumePostponed
<1>9. ASSUME NEW p \in PO, NEW target \in DOMAIN LifecycleFrom, UpdateLifecycle(p, target)
      PROVE  TypeOK'
  <2>1. target \in Status
    BY Statuses DEF LifecycleFrom
  <2> QED
    BY <1>9, <2>1, PoStatusStep DEF UpdateLifecycle, CancelAll, ApprovalNotes
<1>10. ASSUME NEW p \in PO, DeletePO(p)
       PROVE  TypeOK'
  BY <1>10, Statuses, PoStatusStep DEF DeletePO
<1>11. ASSUME NEW r \in Rule, AddRule(r) \/ DeleteRule(r)
       PROVE  TypeOK'
  BY <1>11 DEF AddRule, DeleteRule
<1>12. ASSUME NEW p \in PO, NEW n \in Note, Deliver(p, n)
       PROVE  TypeOK'
  BY <1>12 DEF Deliver
<1>13. CASE SweepNotifications
  BY <1>13 DEF SweepNotifications, CancelAll, ApprovalNotes
<1>14. CASE UNCHANGED vars
  BY <1>14 DEF vars
<1> QED
  BY <1>1, <1>2, <1>3, <1>5, <1>6, <1>7, <1>8, <1>9, <1>10, <1>11, <1>12, <1>13, <1>14
     DEF Next, UserStep

\* Every state of the workflow is well typed.
THEOREM TypeCorrect == Spec => []TypeOK
<1>1. ConstantsAssumption
  BY ConstantsAssumption
<1>2. Init => TypeOK
  BY <1>1, InitType
<1>3. TypeOK /\ [Next]_vars => TypeOK'
  BY <1>1, NextType
<1> QED
  BY <1>2, <1>3, PTL DEF Spec

-----------------------------------------------------------------------------
(* The inductive invariant. *)

\* A PO the step does not touch keeps its invariant; notes may leave.
LEMMA Frame ==
  ASSUME NEW q \in PO, POInv(q), po'[q] = po[q], rows'[q] = rows[q],
         filed'[q] = filed[q], queued'[q] \subseteq queued[q]
  PROVE  POInv(q)'
BY DEF POInv, StepGuards, RowsInOrder, FiledRows, QueueFollows, InDecision, StepHeld

\* An actionable row exists only where a step is current, so in a PO that
\* waits or was cancelled while it waited.
LEMMA ActionableInDecision ==
  ASSUME ConstantsAssumption, TypeOK, NEW p \in PO, POInv(p), NEW u, NEW r \in Actionable(p, u)
  PROVE  /\ r \in Rule
         /\ rows[p][r] = "pending"
         /\ StepOf[r] = po[p].step
         /\ po[p].step > 0
         /\ po[p].step \in Nat
         /\ po[p].status \in Waiting \cup {"cancelled"}
         /\ StepHeld(p) = po[p].step
         /\ InDecision(p)
<1>1. r \in Rule /\ rows[p][r] = "pending" /\ StepOf[r] = po[p].step
  BY ActionableRow
<1>2. po[p].step \in Nat
  BY DEF TypeOK, Row
<1>3. po[p].step > 0
  BY <1>1, <1>2 DEF ConstantsAssumption
<1>4. po[p].status \in Waiting \cup {"cancelled"}
  BY <1>3 DEF POInv, StepGuards
<1> QED
  BY <1>1, <1>2, <1>3, <1>4 DEF StepHeld, InDecision, Waiting

LEMMA CancelAllQuiet ==
  ASSUME NEW ns, NEW n \in CancelAll(ns)
  PROVE  n \in ns /\ n[2] \notin ApprovalEvent
BY DEF CancelAll, ApprovalNotes

LEMMA InitInv == ConstantsAssumption /\ Init => \A p \in PO : POInv(p)
<1> SUFFICES ASSUME Init, NEW p \in PO
             PROVE  POInv(p)
  OBVIOUS
<1>1. po[p].status = "none" /\ po[p].step = 0 /\ queued[p] = {}
  BY DEF Init
<1> QED
  BY <1>1 DEF POInv, StepGuards, RowsInOrder, FiledRows, QueueFollows, InDecision,
              Waiting, Fulfilled

LEMMA SubmitInv ==
  ASSUME ConstantsAssumption, TypeOK, NEW p \in PO, NEW u \in User, Submit(p, u)
  PROVE  POInv(p)'
<1> DEFINE taken == LoadRules(po[p].content)
<1>1. taken \subseteq Rule
  BY LoadRulesType
<1>2. PICK s \in {StepOf[r] : r \in taken} :
        /\ First(s, taken)
        /\ rows' = [rows EXCEPT ![p] =
                      [r \in Rule |-> IF r \in taken THEN "pending" ELSE "none"]]
        /\ po' = [po EXCEPT ![p].number = lastSeq + 1, ![p].step = s,
                            ![p].status = StatusForStep(s)]
        /\ queued' = [queued EXCEPT ![p] = CancelAll(@) \cup NotesFor(AtStep(s, taken))]
        /\ filed' = [filed EXCEPT ![p] = [content |-> po[p].content, rules |-> taken]]
  BY DEF Submit, NextNumber
<1>3. s \in Nat \ {0}
  BY <1>1, <1>2 DEF ConstantsAssumption
<1>4. /\ po'[p].step = s
      /\ po'[p].status = StatusForStep(s)
      /\ po'[p].content = po[p].content
  BY <1>2 DEF TypeOK, Row
<1>5. po'[p].status \in Waiting /\ po'[p].status # "postponed" /\ po'[p].status \notin Fulfilled
  BY <1>3, <1>4, StatusForStepType DEF Waiting, Fulfilled
<1>6. \A r \in Rule : rows'[p][r] = IF r \in taken THEN "pending" ELSE "none"
  BY <1>2 DEF TypeOK
<1>7. filed'[p] = [content |-> po[p].content, rules |-> taken]
  BY <1>2 DEF TypeOK
<1>8. queued'[p] = CancelAll(queued[p]) \cup NotesFor(AtStep(s, taken))
  BY <1>2 DEF TypeOK
<1>9. StepGuards(p)'
  BY <1>3, <1>4, <1>5 DEF StepGuards
<1>10. RowsInOrder(p)'
  <2>1. StepHeld(p)' = s
    BY <1>4, <1>5 DEF StepHeld
  <2>2. \E r \in Rule : rows'[p][r] = "pending" /\ StepOf[r] = s
    BY <1>1, <1>2, <1>6
  <2>3. \A r \in Rule : rows'[p][r] # "none" => rows'[p][r] = "pending" /\ s <= StepOf[r]
    BY <1>2, <1>6 DEF First
  <2>4. \A r \in Rule : StepOf[r] \in Nat
    BY DEF ConstantsAssumption
  <2> QED
    BY <1>3, <2>1, <2>2, <2>3, <2>4 DEF RowsInOrder
<1>11. FiledRows(p)'
  BY <1>2, <1>4, <1>5, <1>6, <1>7, <1>1 DEF FiledRows
<1>12. QueueFollows(p)'
  <2> SUFFICES ASSUME NEW n \in queued'[p], n[2] \in ApprovalEvent
               PROVE  \E r \in Rule : /\ rows'[p][r] # "none"
                                     /\ StepOf[r] = s
                                     /\ Approver[r] = n[1]
    BY <1>4, <1>5 DEF QueueFollows
  <2>1. n \in NotesFor(AtStep(s, taken))
    BY <1>8, CancelAllQuiet
  <2> QED
    BY <2>1, <1>1, <1>6 DEF NotesFor, AtStep
<1> QED
  BY <1>9, <1>10, <1>11, <1>12 DEF POInv

LEMMA ApproveInv ==
  ASSUME ConstantsAssumption, TypeOK, NEW p \in PO, POInv(p), NEW u \in User, ApproveStep(p, u)
  PROVE  POInv(p)'
<1>1. PICK r \in Actionable(p, u) :
        /\ \/ ApprovePartial(p, u, r)
           \/ ApproveAdvance(p, r)
           \/ ApproveFinal(p, r)
        /\ rows' = [rows EXCEPT ![p][r] = "approved"]
  BY DEF ApproveStep
<1>2. /\ r \in Rule
      /\ rows[p][r] = "pending"
      /\ StepOf[r] = po[p].step
      /\ po[p].step > 0
      /\ po[p].step \in Nat
      /\ StepHeld(p) = po[p].step
      /\ InDecision(p)
  BY ActionableInDecision
<1>3. po[p].status \in Waiting
  BY ActionableInDecision DEF ApproveStep, Terminal
<1>4. \A q \in Rule : rows'[p][q] = IF q = r THEN "approved" ELSE rows[p][q]
  BY <1>1, <1>2 DEF TypeOK
<1>5. filed'[p] = filed[p]
  BY DEF ApproveStep
<1>6. \A q \in Rule : StepOf[q] \in Nat
  BY DEF ConstantsAssumption
<1>7. CASE ApprovePartial(p, u, r)
  <2>1. po'[p] = po[p] /\ queued'[p] \subseteq queued[p]
    BY <1>7 DEF ApprovePartial, CancelForUser, TypeOK
  <2>2. StepGuards(p)'
    BY <2>1 DEF StepGuards, POInv
  <2>3. RowsInOrder(p)'
    <3>1. \E q \in Rule : rows[p][q] = "pending" /\ StepOf[q] = po[p].step /\ q # r
      BY <1>7 DEF ApprovePartial, AtStep, InState
    <3>2. StepHeld(p)' = po[p].step /\ InDecision(p)'
      BY <1>2, <2>1 DEF StepHeld, InDecision
    <3> QED
      BY <1>2, <1>4, <1>6, <3>1, <3>2 DEF RowsInOrder, POInv
  <2>4. FiledRows(p)'
    BY <1>2, <1>3, <1>4, <1>5, <2>1 DEF FiledRows, POInv, InDecision, Waiting, Fulfilled
  <2>5. QueueFollows(p)'
    BY <1>2, <1>4, <2>1 DEF QueueFollows, POInv
  <2> QED
    BY <2>2, <2>3, <2>4, <2>5 DEF POInv
<1>8. CASE ApproveAdvance(p, r)
  <2> DEFINE left == InState(p, "pending") \ {r}
  <2>1. PICK s \in {StepOf[q] : q \in left} :
          /\ First(s, left)
          /\ po' = [po EXCEPT ![p].step = s, ![p].status = StatusForStep(s)]
          /\ queued' = [queued EXCEPT ![p] = CancelAll(@) \cup NotesFor(AtStep(s, RowsOf(p)))]
    BY <1>8 DEF ApproveAdvance
  <2>2. AtStep(po[p].step, left) = {}
    BY <1>8 DEF ApproveAdvance
  <2>3. s \in Nat \ {0}
    BY <2>1 DEF InState, ConstantsAssumption
  <2>4. /\ po'[p].step = s
        /\ po'[p].status = StatusForStep(s)
        /\ po'[p].content = po[p].content
    BY <2>1 DEF TypeOK, Row
  <2>5. po'[p].status \in Waiting /\ po'[p].status # "postponed" /\ po'[p].status \notin Fulfilled
    BY <2>3, <2>4, StatusForStepType DEF Waiting, Fulfilled
  <2>6. queued'[p] = CancelAll(queued[p]) \cup NotesFor(AtStep(s, RowsOf(p)))
    BY <2>1 DEF TypeOK
  <2>7. StepGuards(p)'
    BY <2>3, <2>4, <2>5 DEF StepGuards
  <2>8. \A q \in Rule : rows[p][q] = "pending" /\ q # r =>
          /\ s <= StepOf[q]
          /\ StepOf[q] > po[p].step
    <3> SUFFICES ASSUME NEW q \in Rule, rows[p][q] = "pending", q # r
                 PROVE  s <= StepOf[q] /\ StepOf[q] > po[p].step
      OBVIOUS
    <3>1. q \in left
      BY DEF InState
    <3>2. s <= StepOf[q]
      BY <2>1, <3>1 DEF First
    <3>3. StepOf[q] # po[p].step
      BY <2>2, <3>1 DEF AtStep
    <3>4. ~ (StepOf[q] < po[p].step)
      BY <1>2 DEF POInv, RowsInOrder
    <3> QED
      BY <1>2, <1>6, <3>2, <3>3, <3>4
  <2>9. \E q \in Rule : rows[p][q] = "pending" /\ q # r /\ StepOf[q] = s
    BY <2>1 DEF First, InState
  <2>10. RowsInOrder(p)'
    <3>1. StepHeld(p)' = s
      BY <2>4, <2>5 DEF StepHeld
    <3>2. \A q \in Rule : rows[p][q] # "none" /\ StepOf[q] < s => rows'[p][q] = "approved"
      <4> SUFFICES ASSUME NEW q \in Rule, rows[p][q] # "none", StepOf[q] < s, q # r
                   PROVE  rows[p][q] = "approved"
        BY <1>4
      <4>1. rows[p][q] # "pending"
        BY <1>6, <2>3, <2>8
      <4>2. rows[p][q] # "rejected"
        BY <1>2 DEF POInv, RowsInOrder
      <4> QED
        BY <4>1, <4>2 DEF TypeOK
    <3>3. \A q \in Rule : rows[p][q] # "none" /\ StepOf[q] > s => rows'[p][q] = "pending"
      BY <1>2, <1>4, <1>6, <2>3, <2>8, <2>9 DEF POInv, RowsInOrder
    <3>4. \A q \in Rule : rows'[p][q] # "none" => rows[p][q] # "none" /\ rows'[p][q] # "rejected"
      <4>1. \A q \in Rule : rows[p][q] # "none" => rows[p][q] # "rejected"
        BY <1>2 DEF POInv, RowsInOrder
      <4> QED
        BY <1>2, <1>4, <4>1
    <3>5. \E q \in Rule : rows'[p][q] = "pending" /\ StepOf[q] = s
      BY <1>4, <2>9
    <3> QED
      BY <3>1, <3>2, <3>3, <3>4, <3>5 DEF RowsInOrder
  <2>11. FiledRows(p)'
    BY <1>2, <1>4, <1>5, <2>4, <2>5 DEF FiledRows, POInv
  <2>12. QueueFollows(p)'
    <3> SUFFICES ASSUME NEW n \in queued'[p], n[2] \in ApprovalEvent
                 PROVE  \E q \in Rule : /\ rows'[p][q] # "none"
                                       /\ StepOf[q] = s
                                       /\ Approver[q] = n[1]
      BY <2>4, <2>5 DEF QueueFollows
    <3>1. n \in NotesFor(AtStep(s, RowsOf(p)))
      BY <2>6, CancelAllQuiet
    <3>2. PICK q \in Rule : rows[p][q] # "none" /\ StepOf[q] = s /\ Approver[q] = n[1]
      BY <3>1 DEF NotesFor, AtStep, RowsOf
    <3> QED
      BY <3>2, <1>4
  <2> QED
    BY <2>7, <2>10, <2>11, <2>12 DEF POInv
<1>9. CASE ApproveFinal(p, r)
  <2>1. /\ po'[p].status = "approved"
        /\ po'[p].step = 0
        /\ po'[p].content = po[p].content
        /\ queued'[p] = CancelAll(queued[p]) \cup ToldRequester(p)
    BY <1>9 DEF ApproveFinal, TypeOK, Row
  <2>2. \A q \in Rule : rows[p][q] = "pending" => q = r
    BY <1>9 DEF ApproveFinal, InState
  <2>3. \A q \in Rule : rows[p][q] # "none" => rows'[p][q] = "approved"
    <3> SUFFICES ASSUME NEW q \in Rule, rows[p][q] # "none", q # r
                 PROVE  rows[p][q] = "approved"
      BY <1>4
    <3>1. rows[p][q] # "rejected" /\ rows[p][q] # "pending"
      BY <1>2, <2>2 DEF POInv, RowsInOrder
    <3> QED
      BY <3>1 DEF TypeOK
  <2>4. StepGuards(p)' /\ RowsInOrder(p)'
    BY <2>1 DEF StepGuards, RowsInOrder, InDecision, Waiting
  <2>5. FiledRows(p)'
    BY <1>2, <1>4, <1>5, <2>1, <2>3 DEF FiledRows, POInv
  <2>6. QueueFollows(p)'
    BY <2>1, CancelAllQuiet DEF QueueFollows, ToldRequester, ApprovalEvent
  <2> QED
    BY <2>4, <2>5, <2>6 DEF POInv
<1> QED
  BY <1>1, <1>7, <1>8, <1>9

\* Declining, putting on hold and postponing leave the approval queue.
LEMMA LeaveInv ==
  ASSUME ConstantsAssumption, TypeOK, NEW p \in PO, NEW u \in User, NEW row,
         LeaveQueue(p, u, row), row.step = 0,
         row.status \in {"rejected", "changes_requested"}
  PROVE  POInv(p)'
<1>1. po'[p] = row /\ queued'[p] = CancelAll(queued[p]) \cup ToldRequester(p)
  BY DEF LeaveQueue, TypeOK
<1>2. StepGuards(p)' /\ RowsInOrder(p)' /\ FiledRows(p)'
  BY <1>1 DEF StepGuards, RowsInOrder, FiledRows, InDecision, Waiting, Fulfilled
<1>3. QueueFollows(p)'
  BY <1>1, CancelAllQuiet DEF QueueFollows, ToldRequester, ApprovalEvent
<1> QED
  BY <1>2, <1>3 DEF POInv

LEMMA PostponeInv ==
  ASSUME ConstantsAssumption, TypeOK, NEW p \in PO, POInv(p), NEW u \in User, PostponePO(p, u)
  PROVE  POInv(p)'
<1>1. PICK r \in Actionable(p, u) : TRUE
  BY DEF PostponePO
<1>2. /\ po[p].step > 0
      /\ po[p].step \in Nat
      /\ po[p].status \in Waiting \cup {"cancelled"}
      /\ StepHeld(p) = po[p].step
      /\ InDecision(p)
  BY ActionableInDecision
<1>3. /\ po'[p].status = "postponed"
      /\ po'[p].step = 0
      /\ po'[p].heldStatus = po[p].status
      /\ po'[p].heldStep = po[p].step
      /\ po'[p].content = po[p].content
  BY DEF PostponePO, LeaveQueue, TypeOK, Row
<1>4. /\ queued'[p] = CancelAll(queued[p]) \cup ToldRequester(p)
      /\ rows'[p] = rows[p]
      /\ filed'[p] = filed[p]
  BY DEF PostponePO, LeaveQueue, TypeOK
<1>5. StepHeld(p)' = po[p].step
  BY <1>3 DEF StepHeld
<1>6. StepGuards(p)'
  BY <1>2, <1>3 DEF StepGuards, POInv, Waiting
<1>7. RowsInOrder(p)'
  BY <1>2, <1>4, <1>5 DEF RowsInOrder, POInv
<1>8. FiledRows(p)'
  BY <1>2, <1>3, <1>4 DEF FiledRows, POInv, Fulfilled
<1>9. QueueFollows(p)'
  BY <1>4, CancelAllQuiet DEF QueueFollows, ToldRequester, ApprovalEvent
<1> QED
  BY <1>6, <1>7, <1>8, <1>9 DEF POInv

LEMMA ResumeInv ==
  ASSUME ConstantsAssumption, TypeOK, NEW p \in PO, POInv(p), ResumePostponed(p)
  PROVE  POInv(p)'
<1> DEFINE s == po[p].heldStep
<1>1. /\ po[p].status = "postponed"
      /\ s > 0
      /\ s \in Nat
      /\ po[p].heldStatus \in {StatusForStep(s), "cancelled"}
      /\ StepHeld(p) = s
      /\ InDecision(p)
  BY DEF ResumePostponed, POInv, StepGuards, StepHeld, InDecision, TypeOK, Row
<1>2. /\ po'[p].status = po[p].heldStatus
      /\ po'[p].step = s
      /\ po'[p].content = po[p].content
  BY DEF ResumePostponed, TypeOK, Row
<1>3. /\ queued'[p] = queued[p] \cup NotesFor(AtStep(s, InState(p, "pending")))
                                 \cup ToldRequester(p)
      /\ rows'[p] = rows[p]
      /\ filed'[p] = filed[p]
  BY DEF ResumePostponed, TypeOK
<1>4. po'[p].status \in Waiting \cup {"cancelled"} /\ po'[p].status # "postponed"
  BY <1>1, <1>2, StatusForStepType DEF Waiting
<1>5. StepHeld(p)' = s
  BY <1>2, <1>4 DEF StepHeld
<1>6. StepGuards(p)'
  BY <1>1, <1>2, <1>4 DEF StepGuards, Waiting
<1>7. RowsInOrder(p)'
  BY <1>1, <1>3, <1>5 DEF RowsInOrder, POInv
<1>8. FiledRows(p)'
  BY <1>1, <1>2, <1>3, <1>4 DEF FiledRows, POInv, Fulfilled, Waiting
<1>9. QueueFollows(p)'
  <2> SUFFICES ASSUME NEW n \in queued'[p], n[2] \in ApprovalEvent
               PROVE  \E r \in Rule : /\ rows'[p][r] # "none"
                                     /\ StepOf[r] = s
                                     /\ Approver[r] = n[1]
    BY <1>2, <1>4 DEF QueueFollows
  <2>1. n \notin queued[p]
    BY <1>1 DEF POInv, QueueFollows, Waiting
  <2>2. n \notin ToldRequester(p)
    BY DEF ToldRequester, ApprovalEvent
  <2>3. n \in NotesFor(AtStep(s, InState(p, "pending")))
    BY <1>3, <2>1, <2>2
  <2> QED
    BY <1>3, <2>3 DEF NotesFor, AtStep, InState
<1> QED
  BY <1>6, <1>7, <1>8, <1>9 DEF POInv

LEMMA LifecycleInv ==
  ASSUME ConstantsAssumption, TypeOK, NEW p \in PO, POInv(p),
         NEW target \in DOMAIN LifecycleFrom, UpdateLifecycle(p, target)
  PROVE  POInv(p)'
<1>1. /\ po'[p].status = target
      /\ po'[p].step = po[p].step
      /\ po'[p].content = po[p].content
      /\ queued'[p] = CancelAll(queued[p])
      /\ rows'[p] = rows[p]
      /\ filed'[p] = filed[p]
  BY DEF UpdateLifecycle, TypeOK, Row
<1>2. po[p].step \in Nat
  BY DEF TypeOK, Row
<1>3. QueueFollows(p)'
  BY <1>1, CancelAllQuiet DEF QueueFollows
<1>4. CASE target = "cancelled"
  <2>1. StepGuards(p)'
    BY <1>1, <1>4 DEF StepGuards, Waiting
  <2>2. InDecision(p)' => InDecision(p) /\ po[p].step > 0
    BY <1>1, <1>4 DEF InDecision
  <2>3. po[p].step > 0 => StepHeld(p) = po[p].step /\ StepHeld(p)' = po[p].step
    BY <1>1, <1>4 DEF StepHeld, POInv, StepGuards, Waiting
  <2>4. RowsInOrder(p)'
    BY <1>1, <2>2, <2>3 DEF RowsInOrder, POInv
  <2>5. FiledRows(p)'
    BY <1>1, <1>4, <2>2 DEF FiledRows, POInv, Fulfilled
  <2> QED
    BY <1>3, <2>1, <2>4, <2>5 DEF POInv
<1>5. CASE target # "cancelled"
  <2>1. target \in Fulfilled /\ po[p].status \in Fulfilled
    BY <1>5 DEF UpdateLifecycle, LifecycleFrom, Fulfilled
  <2>2. po[p].step = 0
    BY <1>2, <2>1 DEF POInv, StepGuards, Waiting, Fulfilled
  <2>3. StepGuards(p)' /\ RowsInOrder(p)'
    BY <1>1, <2>1, <2>2 DEF StepGuards, RowsInOrder, InDecision, Waiting, Fulfilled
  <2>4. FiledRows(p)'
    BY <1>1, <2>1 DEF FiledRows, POInv
  <2> QED
    BY <1>3, <2>3, <2>4 DEF POInv
<1> QED
  BY <1>4, <1>5

LEMMA NextInv == ConstantsAssumption /\ IInv /\ [Next]_vars => (\A p \in PO : POInv(p))'
<1> SUFFICES ASSUME ConstantsAssumption, TypeOK, \A q \in PO : POInv(q), [Next]_vars,
                    NEW q \in PO
             PROVE  POInv(q)'
  BY DEF IInv
<1>1. ASSUME NEW p \in PO, NEW u \in User, NEW c \in Content,
             CreateDraft(p, u, c) \/ UpdateDraft(p, u, c)
      PROVE  POInv(q)'
  <2>1. CASE q # p
    BY <1>1, <2>1, Frame DEF CreateDraft, UpdateDraft, TypeOK
  <2>2. CASE q = p
    <3>1. /\ po[p].status \in Editable \cup {"none"}
          /\ po'[p].status \in Editable
          /\ po'[p].step = po[p].step
          /\ rows'[p] = rows[p]
          /\ queued'[p] = queued[p]
      BY <1>1 DEF CreateDraft, UpdateDraft, TypeOK, Row, Editable
    <3>2. ~ po[p].step > 0
      BY <3>1 DEF POInv, StepGuards, Editable, Waiting
    <3>3. \A n \in queued[p] : n[2] \notin ApprovalEvent
      BY <3>1 DEF POInv, QueueFollows, Editable, Waiting
    <3> QED
      BY <2>2, <3>1, <3>2, <3>3
         DEF POInv, StepGuards, RowsInOrder, FiledRows, QueueFollows, InDecision,
             Editable, Waiting, Fulfilled
  <2> QED
    BY <2>1, <2>2
<1>2. ASSUME NEW p \in PO, NEW u \in User, Submit(p, u)
      PROVE  POInv(q)'
  <2>1. CASE q # p
    BY <1>2, <2>1, Frame DEF Submit, NextNumber, TypeOK
  <2> QED
    BY <1>2, <2>1, SubmitInv
<1>3. ASSUME NEW p \in PO, NEW u \in User, ApproveStep(p, u)
      PROVE  POInv(q)'
  <2>1. CASE q # p
    <3>1. /\ po'[q] = po[q]
          /\ queued'[q] = queued[q]
          /\ rows'[q] = rows[q]
          /\ filed'[q] = filed[q]
      BY <1>3, <2>1 DEF ApproveStep, ApprovePartial, ApproveAdvance, ApproveFinal, TypeOK
    <3> QED
      BY <3>1, Frame
  <2> QED
    BY <1>3, <2>1, ApproveInv
<1>4. ASSUME NEW p \in PO, NEW u \in User, NEW row, LeaveQueue(p, u, row), q # p
      PROVE  po'[q] = po[q] /\ queued'[q] = queued[q] /\ filed'[q] = filed[q]
  BY <1>4 DEF LeaveQueue, TypeOK
<1>5. ASSUME NEW p \in PO, NEW u \in User, RejectPO(p, u)
      PROVE  POInv(q)'
  <2>1. CASE q # p
    <3>1. rows'[q] = rows[q]
      BY <1>5, <2>1 DEF RejectPO, TypeOK
    <3> QED
      BY <1>4, <1>5, <2>1, <3>1, Frame DEF RejectPO
  <2>2. CASE q = p
    <3> DEFINE row == [po[p] EXCEPT !.status = "rejected", !.step = 0]
    <3>1. row.status = "rejected" /\ row.step = 0
      BY DEF TypeOK, Row
    <3> QED
      BY <1>5, <2>2, <3>1, LeaveInv DEF RejectPO
  <2> QED
    BY <2>1, <2>2
<1>6. ASSUME NEW p \in PO, NEW u \in User, RequestChanges(p, u)
      PROVE  POInv(q)'
  <2>1. CASE q # p
    BY <1>4, <1>6, <2>1, Frame DEF RequestChanges
  <2>2. CASE q = p
    <3> DEFINE row == [po[p] EXCEPT !.status = "changes_requested", !.step = 0]
    <3>1. row.status = "changes_requested" /\ row.step = 0
      BY DEF TypeOK, Row
    <3> QED
      BY <1>6, <2>2, <3>1, LeaveInv DEF RequestChanges
  <2> QED
    BY <2>1, <2>2
<1>7. ASSUME NEW p \in PO, NEW u \in User, PostponePO(p, u)
      PROVE  POInv(q)'
  <2>1. CASE q # p
    BY <1>4, <1>7, <2>1, Frame DEF PostponePO
  <2> QED
    BY <1>7, <2>1, PostponeInv
<1>8. ASSUME NEW p \in PO, ResumePostponed(p)
      PROVE  POInv(q)'
  <2>1. CASE q # p
    BY <1>8, <2>1, Frame DEF ResumePostponed, TypeOK
  <2> QED
    BY <1>8, <2>1, ResumeInv
<1>9. ASSUME NEW p \in PO, NEW target \in DOMAIN LifecycleFrom, UpdateLifecycle(p, target)
      PROVE  POInv(q)'
  <2>1. CASE q # p
    BY <1>9, <2>1, Frame DEF UpdateLifecycle, TypeOK
  <2> QED
    BY <1>9, <2>1, LifecycleInv
<1>10. ASSUME NEW p \in PO, DeletePO(p)
       PROVE  POInv(q)'
  <2>1. CASE q # p
    BY <1>10, <2>1, Frame DEF DeletePO, TypeOK
  <2>2. CASE q = p
    <3>1. po'[p].status = "deleted" /\ po'[p].step = 0 /\ queued'[p] = queued[p]
      BY <1>10 DEF DeletePO, TypeOK, Row
    <3>2. \A n \in queued[p] : n[2] \in ApprovalEvent => po[p].status \in Waiting \cup {"cancelled", "deleted"}
      BY DEF POInv, QueueFollows
    <3> QED
      BY <2>2, <3>1, <3>2
         DEF POInv, StepGuards, RowsInOrder, FiledRows, QueueFollows, InDecision,
             Waiting, Fulfilled
  <2> QED
    BY <2>1, <2>2
<1>11. ASSUME NEW r \in Rule, AddRule(r) \/ DeleteRule(r)
       PROVE  POInv(q)'
  BY <1>11, Frame DEF AddRule, DeleteRule
<1>12. ASSUME NEW p \in PO, NEW n \in Note, Deliver(p, n)
       PROVE  POInv(q)'
  BY <1>12, Frame DEF Deliver, TypeOK
<1>13. CASE SweepNotifications
  BY <1>13, Frame DEF SweepNotifications, CancelAll, TypeOK
<1>14. CASE UNCHANGED vars
  BY <1>14, Frame DEF vars
<1> QED
  BY <1>1, <1>2, <1>3, <1>5, <1>6, <1>7, <1>8, <1>9, <1>10, <1>11, <1>12, <1>13, <1>14
     DEF Next, UserStep

\* The inductive invariant holds in every reachable state.
THEOREM Inductive == Spec => []IInv
<1>1. ConstantsAssumption
  BY ConstantsAssumption
<1>2. Init => IInv
  BY <1>1, InitType, InitInv DEF IInv
<1>3. IInv /\ [Next]_vars => IInv'
  BY <1>1, NextType, NextInv DEF IInv
<1> QED
  BY <1>2, <1>3, PTL DEF Spec

-----------------------------------------------------------------------------
(* The safety properties. *)

\* A waiting PO always has an open row in its current step, so it can be
\* decided.
THEOREM NeverStuck == Spec => []WaitingIsActionable
<1>1. IInv => WaitingIsActionable
  BY DEF IInv, POInv, StepGuards, RowsInOrder, InDecision, StepHeld, WaitingIsActionable,
         AtStep, InState, Waiting
<1> QED
  BY <1>1, Inductive, PTL

\* No step is open before every row of the earlier steps is approved.
THEOREM Sequential == Spec => []StepsInOrder
<1>1. IInv => StepsInOrder
  <2> SUFFICES ASSUME IInv, NEW p \in PO, NEW r \in RowsOf(p), StepHeld(p) > 0
               PROVE  /\ StepOf[r] < StepHeld(p) => rows[p][r] = "approved"
                      /\ StepOf[r] > StepHeld(p) => rows[p][r] = "pending"
                      /\ rows[p][r] # "rejected"
    BY DEF StepsInOrder, StepHeld
  <2>1. InDecision(p)
    BY DEF InDecision, StepHeld
  <2> QED
    BY <2>1 DEF IInv, POInv, RowsInOrder, RowsOf
<1> QED
  BY <1>1, Inductive, PTL

\* Whatever reaches the supplier was approved by every rule in force at its
\* submission, in the contents it was submitted with.
THEOREM FullyApproved == Spec => []ApprovedByEveryRule
<1>1. IInv => ApprovedByEveryRule
  <2> SUFFICES ASSUME IInv, NEW p \in PO, po[p].status \in Fulfilled
               PROVE  /\ filed[p].rules # {}
                      /\ InState(p, "approved") = filed[p].rules
                      /\ RowsOf(p) = filed[p].rules
                      /\ po[p].content = filed[p].content
    BY DEF ApprovedByEveryRule
  <2>1. FiledRows(p) /\ filed[p].rules \subseteq Rule
    BY DEF IInv, POInv, TypeOK
  <2> QED
    BY <2>1 DEF FiledRows, InState, RowsOf
<1> QED
  BY <1>1, Inductive, PTL

\* No reminder of an earlier step, or of a decided PO, stays in the queue.
THEOREM RemindersFollow == Spec => []RemindersFollowStep
<1>1. IInv => RemindersFollowStep
  <2> SUFFICES ASSUME IInv, NEW p \in PO, NEW n \in ApprovalNotes(queued[p])
               PROVE  /\ po[p].status \in Waiting =>
                           n[1] \in {Approver[r] : r \in AtStep(po[p].step, RowsOf(p))}
                      /\ po[p].status \in Waiting \cup {"cancelled", "deleted"}
    BY DEF RemindersFollowStep
  <2>1. n \in queued[p] /\ n[2] \in ApprovalEvent
    BY DEF ApprovalNotes
  <2> QED
    BY <2>1 DEF IInv, POInv, QueueFollows, AtStep, RowsOf
<1> QED
  BY <1>1, Inductive, PTL

-----------------------------------------------------------------------------
\* A declined or closed PO never returns to the workflow.
THEOREM DeclinedStays == Spec => DeclinedStaysDeclined
<1>1. IInv /\ [Next]_vars =>
        [\A p \in PO : po[p].status \in {"rejected", "closed"} =>
           po'[p].status \in {po[p].status, "cancelled", "deleted"}]_vars
  <2> SUFFICES ASSUME IInv, Next, NEW q \in PO, po[q].status \in {"rejected", "closed"}
               PROVE  po'[q].status \in {po[q].status, "cancelled", "deleted"}
    OBVIOUS
  <2>1. \A u : Actionable(q, u) = {}
    <3> SUFFICES ASSUME NEW u, NEW r \in Actionable(q, u)
                 PROVE  FALSE
      OBVIOUS
    <3> QED
      BY ConstantsAssumption, ActionableInDecision DEF IInv, Waiting
  <2>2. po[q].status \notin Editable \cup {"none", "postponed"}
    BY DEF Editable
  <2> USE DEF IInv, TypeOK, Row
  <2>3. ASSUME NEW p \in PO, NEW u \in User, UserStep(p, u)
        PROVE  po'[q].status = po[q].status
    <3>1. CASE q = p
      BY <2>1, <2>2, <2>3, <3>1
         DEF UserStep, CreateDraft, UpdateDraft, Submit, ApproveStep, RejectPO,
             RequestChanges, PostponePO
    <3>2. CASE q # p
      BY <2>3, <3>2
         DEF UserStep, CreateDraft, UpdateDraft, Submit, ApproveStep, ApprovePartial,
             ApproveAdvance, ApproveFinal, RejectPO, RequestChanges, PostponePO, LeaveQueue
    <3> QED
      BY <3>1, <3>2
  <2>4. ASSUME NEW p \in PO, ResumePostponed(p) \/ DeletePO(p)
        PROVE  po'[q].status \in {po[q].status, "deleted"}
    <3>1. CASE ResumePostponed(p)
      BY <2>2, <3>1 DEF ResumePostponed
    <3>2. CASE DeletePO(p)
      BY <3>2 DEF DeletePO
    <3> QED
      BY <2>4, <3>1, <3>2
  <2>5. ASSUME NEW p \in PO, NEW target \in DOMAIN LifecycleFrom, UpdateLifecycle(p, target)
        PROVE  po'[q].status \in {po[q].status, "cancelled"}
    <3>1. q = p => target = "cancelled"
      BY <2>5 DEF UpdateLifecycle, LifecycleFrom
    <3>2. po'[q].status = IF q = p THEN target ELSE po[q].status
      BY <2>5 DEF UpdateLifecycle
    <3> QED
      BY <3>1, <3>2
  <2>6. ASSUME \/ \E r \in Rule : AddRule(r) \/ DeleteRule(r)
               \/ \E p \in PO, n \in Note : Deliver(p, n)
               \/ SweepNotifications
        PROVE  po'[q].status = po[q].status
    BY <2>6 DEF AddRule, DeleteRule, Deliver, SweepNotifications
  <2> QED
    BY <2>3, <2>4, <2>5, <2>6 DEF Next
<1> QED
  BY <1>1, Inductive, PTL DEF Spec, DeclinedStaysDeclined

-----------------------------------------------------------------------------
\* What is under approval changes neither in content nor in its set of rows.
THEOREM NoChangeMeanwhile == Spec => LockedWhileWaiting
<1>1. IInv /\ [Next]_vars =>
        [\A p \in PO :
           po[p].status \in Waiting \cup {"postponed"} /\ po'[p].status # "deleted" =>
             /\ po'[p].content = po[p].content
             /\ \A r \in Rule : (rows'[p][r] = "none") <=> (rows[p][r] = "none")]_vars
  <2> DEFINE Same(q) == /\ po'[q].content = po[q].content
                        /\ \A r \in Rule : (rows'[q][r] = "none") <=> (rows[q][r] = "none")
  <2> SUFFICES ASSUME IInv, Next, NEW q \in PO,
                      po[q].status \in Waiting \cup {"postponed"},
                      po'[q].status # "deleted"
               PROVE  Same(q)
    OBVIOUS
  <2>1. po[q].status \notin Editable \cup {"none"}
    BY DEF Waiting, Editable
  <2>2. ASSUME NEW p \in PO, NEW u \in User, NEW c \in Content,
               CreateDraft(p, u, c) \/ UpdateDraft(p, u, c)
        PROVE  Same(q)
    <3>1. q # p
      BY <2>1, <2>2 DEF CreateDraft, UpdateDraft
    <3> QED
      BY <2>2, <3>1 DEF CreateDraft, UpdateDraft, IInv, TypeOK
  <2>3. ASSUME NEW p \in PO, NEW u \in User, Submit(p, u)
        PROVE  Same(q)
    <3>1. q # p
      BY <2>1, <2>3 DEF Submit, NextNumber
    <3> QED
      BY <2>3, <3>1 DEF Submit, NextNumber, IInv, TypeOK
  <2>4. ASSUME NEW p \in PO, NEW u \in User, ApproveStep(p, u)
        PROVE  Same(q)
    <3>1. PICK r \in Actionable(p, u) :
            /\ \/ ApprovePartial(p, u, r)
               \/ ApproveAdvance(p, r)
               \/ ApproveFinal(p, r)
            /\ rows' = [rows EXCEPT ![p][r] = "approved"]
      BY <2>4 DEF ApproveStep
    <3>2. r \in Rule /\ rows[p][r] = "pending"
      BY ActionableRow
    <3>3. \A x \in Rule : (rows'[q][x] = "none") <=> (rows[q][x] = "none")
      BY <3>1, <3>2 DEF IInv, TypeOK
    <3>4. CASE ApprovePartial(p, u, r)
      BY <3>3, <3>4 DEF ApprovePartial
    <3>5. CASE ApproveAdvance(p, r)
      BY <3>3, <3>5 DEF ApproveAdvance, IInv, TypeOK
    <3>6. CASE ApproveFinal(p, r)
      BY <3>3, <3>6 DEF ApproveFinal, IInv, TypeOK
    <3> QED
      BY <3>1, <3>4, <3>5, <3>6
  <2>5. ASSUME NEW p \in PO, NEW u \in User, NEW row, LeaveQueue(p, u, row),
               row.content = po[p].content
        PROVE  po'[q].content = po[q].content
    BY <2>5 DEF LeaveQueue, IInv, TypeOK
  <2>6. ASSUME NEW p \in PO, NEW u \in User, RejectPO(p, u)
        PROVE  Same(q)
    <3>1. PICK r \in Actionable(p, u) :
            /\ rows' = [rows EXCEPT ![p][r] = "rejected"]
            /\ LeaveQueue(p, u, [po[p] EXCEPT !.status = "rejected", !.step = 0])
      BY <2>6 DEF RejectPO
    <3>2. [po[p] EXCEPT !.status = "rejected", !.step = 0].content = po[p].content
      OBVIOUS
    <3>3. r \in Rule /\ rows[p][r] = "pending"
      BY ActionableRow
    <3>4. \A x \in Rule : (rows'[q][x] = "none") <=> (rows[q][x] = "none")
      BY <3>1, <3>3 DEF IInv, TypeOK
    <3> QED
      BY <2>5, <3>1, <3>2, <3>4
  <2>7. ASSUME NEW p \in PO, NEW u \in User, RequestChanges(p, u)
        PROVE  Same(q)
    <3>1. [po[p] EXCEPT !.status = "changes_requested", !.step = 0].content = po[p].content
      OBVIOUS
    <3> QED
      BY <2>5, <2>7, <3>1 DEF RequestChanges
  <2>8. ASSUME NEW p \in PO, NEW u \in User, PostponePO(p, u)
        PROVE  Same(q)
    <3>1. [po[p] EXCEPT !.status = "postponed", !.step = 0,
             !.heldStatus = po[p].status, !.heldStep = po[p].step].content = po[p].content
      OBVIOUS
    <3> QED
      BY <2>5, <2>8, <3>1 DEF PostponePO
  <2>9. ASSUME NEW p \in PO, ResumePostponed(p)
        PROVE  Same(q)
    BY <2>9 DEF ResumePostponed, IInv, TypeOK, Row
  <2>10. ASSUME NEW p \in PO, DeletePO(p)
         PROVE  Same(q)
    <3>1. q # p
      BY <2>10 DEF DeletePO, IInv, TypeOK, Row
    <3> QED
      BY <2>10, <3>1 DEF DeletePO, IInv, TypeOK
  <2>11. ASSUME NEW p \in PO, NEW target \in DOMAIN LifecycleFrom, UpdateLifecycle(p, target)
         PROVE  Same(q)
    BY <2>11 DEF UpdateLifecycle, IInv, TypeOK, Row
  <2>12. ASSUME \/ \E r \in Rule : AddRule(r) \/ DeleteRule(r)
                \/ \E p \in PO, n \in Note : Deliver(p, n)
                \/ SweepNotifications
         PROVE  Same(q)
    BY <2>12 DEF AddRule, DeleteRule, Deliver, SweepNotifications
  <2> QED
    BY <2>2, <2>3, <2>4, <2>6, <2>7, <2>8, <2>9, <2>10, <2>11, <2>12 DEF Next, UserStep
<1> QED
  BY <1>1, Inductive, PTL DEF Spec, LockedWhileWaiting

-----------------------------------------------------------------------------
(* Whoever a PO waits for was asked.                                        *)

\* What ApproversAsked says of one PO.
AskedOf(p) ==
  po[p].status \in Waiting /\ OneRolePerStep(p) =>
    \A r \in AtStep(po[p].step, InState(p, "pending")) : Approver[r] \in asked[p]

LEMMA AskedFrame ==
  ASSUME NEW q \in PO, AskedOf(q), po'[q] = po[q], rows'[q] = rows[q], asked'[q] = asked[q]
  PROVE  AskedOf(q)'
BY DEF AskedOf, OneRolePerStep, RowsOf, AtStep, InState

\* A decision of one row: the others of the step have approvers of their own,
\* and somebody who acts for everybody has no part in the step.
LEMMA PartialAsked ==
  ASSUME TypeOK, NEW p \in PO, AskedOf(p), NEW u \in User, NEW r \in Actionable(p, u),
         ApprovePartial(p, u, r), rows' = [rows EXCEPT ![p][r] = "approved"]
  PROVE  AskedOf(p)'
<1>1. r \in Rule /\ rows[p][r] = "pending" /\ StepOf[r] = po[p].step
  BY ActionableRow
<1>2. po' = po /\ asked'[p] = asked[p] \ {u}
  BY DEF ApprovePartial, TypeOK
<1>3. \A q \in Rule : rows'[p][q] = IF q = r THEN "approved" ELSE rows[p][q]
  BY DEF TypeOK
<1>4. SUFFICES ASSUME po[p].status \in Waiting, OneRolePerStep(p)', NEW q \in Rule,
                      q # r, rows[p][q] = "pending", StepOf[q] = po[p].step
      PROVE  Approver[q] \in asked[p] /\ Approver[q] # u
  BY <1>2, <1>3 DEF AskedOf, AtStep, InState
<1>5. OneRolePerStep(p)
  BY <1>1, <1>3, <1>4 DEF OneRolePerStep, RowsOf
<1>6. Approver[q] \in asked[p]
  BY <1>4, <1>5 DEF AskedOf, AtStep, InState
<1>7. Approver[q] \notin {Approver[r], Backup[r]}
  BY <1>1, <1>4, <1>5 DEF OneRolePerStep, RowsOf
<1>8. u \in {Approver[r], Backup[r]} \/ u # Approver[q]
  BY <1>4 DEF Actionable, AtStep, InState
<1> QED
  BY <1>6, <1>7, <1>8

LEMMA NextAsked ==
  ASSUME TypeOK, NEW q \in PO, AskedOf(q), [Next]_vars
  PROVE  AskedOf(q)'
<1> DEFINE Quiet == po'[q].status \notin Waiting
<1>0. Quiet => AskedOf(q)'
  BY DEF AskedOf
<1>1. ASSUME NEW p \in PO, NEW u \in User, UserStep(p, u), p = q
      PROVE  AskedOf(q)'
  <2>1. CASE \E c \in Content : CreateDraft(p, u, c) \/ UpdateDraft(p, u, c)
    <3>1. PICK c \in Content : CreateDraft(p, u, c) \/ UpdateDraft(p, u, c)
      BY <2>1
    <3>2. CASE CreateDraft(p, u, c)
      <4>1. po'[q].status = "draft"
        BY <1>1, <3>2 DEF CreateDraft, TypeOK, Row
      <4> QED
        BY <1>0, <4>1 DEF Waiting
    <3>3. CASE UpdateDraft(p, u, c)
      <4>1. po'[q].status = po[q].status /\ po[q].status \in Editable
        BY <1>1, <3>3 DEF UpdateDraft, TypeOK, Row
      <4> QED
        BY <1>0, <4>1 DEF Waiting, Editable
    <3> QED
      BY <3>1, <3>2, <3>3
  <2>2. CASE Submit(p, u)
    <3>1. PICK s \in {StepOf[r] : r \in LoadRules(po[p].content)} :
            /\ po' = [po EXCEPT ![p].number = NextNumber, ![p].step = s,
                                ![p].status = StatusForStep(s)]
            /\ rows' = [rows EXCEPT ![p] = [r \in Rule |-> IF r \in LoadRules(po[p].content)
                                                           THEN "pending" ELSE "none"]]
            /\ asked' = [asked EXCEPT ![p] =
                           {Approver[r] : r \in AtStep(s, LoadRules(po[p].content))}]
      BY <2>2 DEF Submit
    <3>2. po'[q].step = s
      BY <1>1, <3>1 DEF TypeOK, Row
    <3>3. \A r \in Rule : rows'[q][r] = "pending" <=> r \in LoadRules(po[p].content)
      BY <1>1, <3>1 DEF TypeOK
    <3>4. asked'[q] = {Approver[r] : r \in AtStep(s, LoadRules(po[p].content))}
      BY <1>1, <3>1 DEF TypeOK
    <3> QED
      BY <3>2, <3>3, <3>4 DEF AskedOf, AtStep, InState
  <2>3. CASE ApproveStep(p, u)
    <3>1. PICK r \in Actionable(p, u) :
            /\ \/ ApprovePartial(p, u, r)
               \/ ApproveAdvance(p, r)
               \/ ApproveFinal(p, r)
            /\ rows' = [rows EXCEPT ![p][r] = "approved"]
      BY <2>3 DEF ApproveStep
    <3>2. CASE ApprovePartial(p, u, r)
      BY <1>1, <3>1, <3>2, PartialAsked
    <3>3. CASE ApproveAdvance(p, r)
      <4>1. PICK s : /\ po' = [po EXCEPT ![p].step = s, ![p].status = StatusForStep(s)]
                     /\ asked' = [asked EXCEPT ![p] = {Approver[x] : x \in AtStep(s, RowsOf(p))}]
        BY <3>3 DEF ApproveAdvance
      <4>2. po'[q].step = s /\ asked'[q] = {Approver[x] : x \in AtStep(s, RowsOf(p))}
        BY <1>1, <4>1 DEF TypeOK, Row
      <4>3. r \in Rule /\ rows[p][r] = "pending"
        BY ActionableRow
      <4>4. \A x \in Rule : rows'[q][x] = "pending" => x \in RowsOf(p)
        BY <1>1, <3>1, <4>3 DEF TypeOK, RowsOf
      <4> QED
        BY <4>2, <4>4 DEF AskedOf, AtStep, InState
    <3>4. CASE ApproveFinal(p, r)
      <4>1. Quiet
        BY <1>1, <3>4 DEF ApproveFinal, TypeOK, Row, Waiting
      <4> QED
        BY <1>0, <4>1
    <3> QED
      BY <3>1, <3>2, <3>3, <3>4
  <2>4. CASE RejectPO(p, u) \/ RequestChanges(p, u) \/ PostponePO(p, u)
    <3>1. ASSUME NEW row, LeaveQueue(p, u, row)
          PROVE  po'[q] = row
      BY <1>1, <3>1 DEF LeaveQueue, TypeOK
    <3>2. /\ [po[p] EXCEPT !.status = "rejected", !.step = 0].status = "rejected"
          /\ [po[p] EXCEPT !.status = "changes_requested", !.step = 0].status = "changes_requested"
          /\ [po[p] EXCEPT !.status = "postponed", !.step = 0, !.heldStatus = po[p].status,
                           !.heldStep = po[p].step].status = "postponed"
      BY DEF TypeOK, Row
    <3>3. po'[q].status \in {"rejected", "changes_requested", "postponed"}
      BY <2>4, <3>1, <3>2 DEF RejectPO, RequestChanges, PostponePO
    <3> QED
      BY <1>0, <3>3 DEF Waiting
  <2> QED
    BY <1>1, <2>1, <2>2, <2>3, <2>4 DEF UserStep
<1>2. ASSUME NEW p \in PO, ResumePostponed(p), p = q
      PROVE  AskedOf(q)'
  <2>1. po'[q].step = po[q].heldStep /\ rows' = rows
    BY <1>2 DEF ResumePostponed, TypeOK, Row
  <2>2. asked'[q] = {Approver[r] : r \in AtStep(po[q].heldStep, InState(q, "pending"))}
    BY <1>2 DEF ResumePostponed, TypeOK
  <2> QED
    BY <2>1, <2>2 DEF AskedOf, AtStep, InState
<1>3. ASSUME NEW p \in PO, DeletePO(p), p = q
      PROVE  AskedOf(q)'
  <2>1. Quiet
    BY <1>3 DEF DeletePO, TypeOK, Row, Waiting
  <2> QED
    BY <1>0, <2>1
<1>4. ASSUME NEW p \in PO, NEW target \in DOMAIN LifecycleFrom, UpdateLifecycle(p, target), p = q
      PROVE  AskedOf(q)'
  <2>1. Quiet
    BY <1>4 DEF UpdateLifecycle, LifecycleFrom, TypeOK, Row, Waiting
  <2> QED
    BY <1>0, <2>1
<1>5. ASSUME NEW p \in PO, p # q,
             \/ \E u \in User : UserStep(p, u)
             \/ ResumePostponed(p) \/ DeletePO(p)
             \/ \E target \in DOMAIN LifecycleFrom : UpdateLifecycle(p, target)
      PROVE  AskedOf(q)'
  <2>1. po'[q] = po[q] /\ rows'[q] = rows[q] /\ asked'[q] = asked[q]
    <3>1. CASE \E u \in User : UserStep(p, u)
      BY <1>5, <3>1 DEF UserStep, CreateDraft, UpdateDraft, Submit, ApproveStep, ApprovePartial,
           ApproveAdvance, ApproveFinal, RejectPO, RequestChanges, PostponePO, LeaveQueue, TypeOK
    <3>2. CASE \/ ResumePostponed(p) \/ DeletePO(p)
               \/ \E target \in DOMAIN LifecycleFrom : UpdateLifecycle(p, target)
      BY <1>5, <3>2 DEF ResumePostponed, DeletePO, UpdateLifecycle, TypeOK
    <3> QED
      BY <1>5, <3>1, <3>2
  <2> QED
    BY <2>1, AskedFrame
<1>6. ASSUME \/ \E r \in Rule : AddRule(r) \/ DeleteRule(r)
             \/ \E p \in PO, n \in Note : Deliver(p, n)
             \/ SweepNotifications
             \/ UNCHANGED vars
      PROVE  AskedOf(q)'
  BY <1>6, AskedFrame DEF AddRule, DeleteRule, Deliver, SweepNotifications, vars
<1> QED
  BY <1>1, <1>2, <1>3, <1>4, <1>5, <1>6 DEF Next

\* The approver of every open row of the current step was asked, through partial
\* approvals, later steps, postponements and whoever acts for somebody else.
THEOREM Asked == Spec => []ApproversAsked
<1>1. ApproversAsked <=> \A p \in PO : AskedOf(p)
  BY DEF ApproversAsked, AskedOf
<1>2. Init => \A p \in PO : AskedOf(p)
  BY DEF Init, AskedOf, Waiting
<1>3. TypeOK /\ (\A p \in PO : AskedOf(p)) /\ [Next]_vars => (\A p \in PO : AskedOf(p))'
  BY NextAsked
<1> QED
  BY <1>1, <1>2, <1>3, TypeCorrect, PTL DEF Spec

-----------------------------------------------------------------------------
(* Where handlers of one PO take turns, the transactions of POApprovalTx are the
   handlers above. *)

\* The ways of writing the row of a PO.
LEMMA PoWrites ==
  ASSUME NEW p \in PO, po \in [PO -> Row], NEW st, NEW s
  PROVE  /\ [po EXCEPT ![p].status = st, ![p].step = s]
              = [po EXCEPT ![p] = [po[p] EXCEPT !.status = st, !.step = s]]
         /\ [po EXCEPT ![p].status = st, ![p].step = s]
              = [po EXCEPT ![p].step = s, ![p].status = st]
BY DEF Row

LEMMA PoHeld ==
  ASSUME NEW p \in PO, po \in [PO -> Row], NEW hs, NEW h
  PROVE  [po EXCEPT ![p].status = "postponed", ![p].step = 0, ![p].heldStatus = hs, ![p].heldStep = h]
           = [po EXCEPT ![p] = [po[p] EXCEPT !.status = "postponed", !.step = 0,
                                             !.heldStatus = hs, !.heldStep = h]]
BY DEF Row

\* What a transaction that is about to commit knows.
LEMMA AtCommit ==
  ASSUME TypeOK, NEW t \in Transaction, Current(t), t.pc = "commit"
  PROVE  /\ t.p \in PO /\ Exists(t.p) /\ t.seen = po[t.p] /\ po[t.p] \in Row /\ po \in [PO -> Row]
         /\ t.content \in Content
         /\ t.op \in Deciding => /\ t.u \in User /\ t.row \in Actionable(t.p, t.u)
                                 /\ t.row # NoRow /\ Admits(t.op, t.p, t.u)
         /\ t.op = "approve" => Follows(t.p, t.row, t.next)
         /\ t.op = "submit" => t.next = lastSeq
         /\ \E u \in User : Admits(t.op, t.p, u)
<1>1. /\ t.p \in PO /\ Exists(t.p) /\ t.seen = po[t.p] /\ po[t.p] \in Row /\ po \in [PO -> Row]
      /\ t.content \in Content
  BY DEF Transaction, Current, TypeOK
<1>2. t.op \in Deciding => t.u \in User /\ t.row \in Actionable(t.p, t.u) /\ Admits(t.op, t.p, t.u)
  BY DEF Current
<1>3. t.op \in Deciding => t.row \in Rule /\ t.row # NoRow
  BY <1>1, <1>2, ActionableRow, TxAssumption
<1> QED
  BY <1>1, <1>2, <1>3 DEF Current

LEMMA ApproveCommits ==
  ASSUME TypeOK, NEW t \in Transaction, Current(t), t.pc = "commit", CommitApprove(t)
  PROVE  ApproveStep(t.p, t.u)
<1> DEFINE p == t.p
           r == t.row
           left == InState(p, "pending") \ {r}
<1>1. /\ p \in PO /\ Exists(p) /\ t.seen = po[p] /\ po[p] \in Row /\ po \in [PO -> Row]
      /\ t.op = "approve" /\ t.u \in User /\ r \in Actionable(p, t.u) /\ r # NoRow
      /\ Admits(t.op, p, t.u) /\ Follows(p, r, t.next)
  BY AtCommit DEF CommitApprove, Deciding
<1>2. po[p].status \notin Terminal
  BY <1>1 DEF Admits
<1>3. rows' = [rows EXCEPT ![p][r] = "approved"]
  BY <1>1 DEF CommitApprove, SetRow
<1>4. po[p].step \in Nat /\ StepOf[r] = po[p].step /\ po[p].step > 0
  <2>1. r \in Rule /\ StepOf[r] = po[p].step
    BY <1>1, ActionableRow
  <2> QED
    BY <1>1, <2>1, ConstantsAssumption DEF Row, ConstantsAssumption
<1>5. CASE t.next = po[p].step
  <2>1. AtStep(po[p].step, left) # {}
    BY <1>1, <1>4, <1>5 DEF Follows, First, AtStep
  <2>2. ApprovePartial(p, t.u, r)
    BY <1>1, <1>4, <1>5, <2>1 DEF CommitApprove, ApprovePartial
  <2> QED
    BY <1>1, <1>2, <1>3, <2>2 DEF ApproveStep, CommitApprove
<1>6. CASE t.next \notin {0, po[p].step}
  <2>1. AtStep(po[p].step, left) = {} /\ First(t.next, left)
    BY <1>1, <1>6 DEF Follows
  <2>2. t.next \in {StepOf[q] : q \in left}
    BY <2>1 DEF First
  <2>3. /\ po' = [po EXCEPT ![p].step = t.next, ![p].status = StatusForStep(t.next)]
        /\ queued' = [queued EXCEPT ![p] = CancelAll(@) \cup NotesFor(AtStep(t.next, RowsOf(p)))]
        /\ asked' = [asked EXCEPT ![p] = {Approver[q] : q \in AtStep(t.next, RowsOf(p))}]
    BY <1>1, <1>6, PoWrites DEF CommitApprove, SetPO, Requeue
  <2>4. ApproveAdvance(p, r)
    BY <2>1, <2>2, <2>3 DEF ApproveAdvance
  <2> QED
    BY <1>1, <1>2, <1>3, <2>4 DEF ApproveStep, CommitApprove
<1>7. CASE t.next = 0
  <2>1. left = {}
    <3>1. \A q \in left : StepOf[q] # 0
      BY ConstantsAssumption DEF ConstantsAssumption, InState
    <3> QED
      BY <1>1, <1>4, <1>7, <3>1 DEF Follows, First
  <2>2. /\ po' = [po EXCEPT ![p].status = "approved", ![p].step = 0]
        /\ queued' = [queued EXCEPT ![p] = CancelAll(@) \cup ToldRequester(p)]
        /\ asked' = [asked EXCEPT ![p] = {}]
    BY <1>1, <1>4, <1>7 DEF CommitApprove, SetPO, Requeue
  <2>3. ApproveFinal(p, r)
    BY <2>1, <2>2 DEF ApproveFinal
  <2> QED
    BY <1>1, <1>2, <1>3, <2>3 DEF ApproveStep, CommitApprove
<1> QED
  BY <1>5, <1>6, <1>7

LEMMA DecisionCommits ==
  ASSUME TypeOK, NEW t \in Transaction, Current(t), t.pc = "commit",
         CommitReject(t) \/ CommitChanges(t) \/ CommitPostpone(t)
  PROVE  RejectPO(t.p, t.u) \/ RequestChanges(t.p, t.u) \/ PostponePO(t.p, t.u)
<1> DEFINE p == t.p
<1>1. /\ p \in PO /\ Exists(p) /\ t.seen = po[p] /\ po[p] \in Row /\ po \in [PO -> Row]
      /\ t.u \in User /\ t.row \in Actionable(p, t.u) /\ t.row # NoRow
  BY AtCommit DEF CommitReject, CommitChanges, CommitPostpone, Deciding
<1>2. CASE CommitReject(t)
  <2>1. po' = [po EXCEPT ![p] = [po[p] EXCEPT !.status = "rejected", !.step = 0]]
    BY <1>1, <1>2, PoWrites DEF CommitReject, SetPO
  <2>2. rows' = [rows EXCEPT ![p][t.row] = "rejected"]
    BY <1>1, <1>2 DEF CommitReject, SetRow
  <2>3. LeaveQueue(p, t.u, [po[p] EXCEPT !.status = "rejected", !.step = 0])
    BY <1>1, <1>2, <2>1 DEF CommitReject, LeaveQueue, Requeue
  <2>4. RejectPO(p, t.u)
    BY <1>1, <2>2, <2>3 DEF RejectPO
  <2> QED
    BY <2>4
<1>3. CASE CommitChanges(t)
  <2>1. po' = [po EXCEPT ![p] = [po[p] EXCEPT !.status = "changes_requested", !.step = 0]]
    BY <1>1, <1>3, PoWrites DEF CommitChanges, SetPO
  <2>2. LeaveQueue(p, t.u, [po[p] EXCEPT !.status = "changes_requested", !.step = 0])
    BY <1>1, <1>3, <2>1 DEF CommitChanges, LeaveQueue, Requeue
  <2>3. RequestChanges(p, t.u)
    BY <1>1, <1>3, <2>2 DEF RequestChanges, CommitChanges
  <2> QED
    BY <2>3
<1>4. CASE CommitPostpone(t)
  <2>1. po' = [po EXCEPT ![p] = [po[p] EXCEPT !.status = "postponed", !.step = 0,
                                  !.heldStatus = po[p].status, !.heldStep = po[p].step]]
    <3>1. po' = [po EXCEPT ![p].status = "postponed", ![p].step = 0,
                           ![p].heldStatus = po[p].status, ![p].heldStep = po[p].step]
      BY <1>1, <1>4 DEF CommitPostpone
    <3> QED
      BY <1>1, <3>1, PoHeld
  <2>2. LeaveQueue(p, t.u, [po[p] EXCEPT !.status = "postponed", !.step = 0,
                                         !.heldStatus = po[p].status, !.heldStep = po[p].step])
    BY <1>1, <1>4, <2>1 DEF CommitPostpone, LeaveQueue, Requeue
  <2>3. po[p].step > 0
    <3>1. t.row \in Rule /\ StepOf[t.row] = po[p].step
      BY <1>1, ActionableRow
    <3> QED
      BY <1>1, <3>1, ConstantsAssumption DEF Row, ConstantsAssumption
  <2>4. PostponePO(p, t.u)
    BY <1>1, <1>4, <2>2, <2>3 DEF PostponePO, CommitPostpone
  <2> QED
    BY <2>4
<1> QED
  BY <1>2, <1>3, <1>4

LEMMA OwnerCommits ==
  ASSUME TypeOK, NEW t \in Transaction, Current(t), t.pc = "commit",
         CommitEdit(t) \/ CommitSubmit(t)
  PROVE  \E u \in User, c \in Content : UpdateDraft(t.p, u, c) \/ Submit(t.p, u)
<1> DEFINE p == t.p
<1>1. /\ p \in PO /\ t.seen = po[p] /\ po \in [PO -> Row] /\ t.content \in Content
      /\ t.op = "submit" => t.next = lastSeq
      /\ \E u \in User : Admits(t.op, p, u)
  BY AtCommit
<1>2. PICK u \in User : po[p].status \in Editable /\ po[p].by = u
  BY <1>1 DEF Admits, Owner, CommitEdit, CommitSubmit
<1>3. CASE CommitEdit(t)
  <2>1. UpdateDraft(p, u, t.content)
    BY <1>2, <1>3 DEF UpdateDraft, CommitEdit
  <2> QED
    BY <1>1, <2>1
<1>4. CASE CommitSubmit(t)
  <2>1. t.next = lastSeq /\ lastSeq < MaxSeq
    BY <1>1, <1>4 DEF CommitSubmit
  <2>2. Submit(p, u)
    BY <1>1, <1>2, <1>4, <2>1 DEF CommitSubmit, Submit, NextNumber, Requeue
  <2> QED
    BY <1>1, <2>2
<1> QED
  BY <1>3, <1>4

LEMMA ResumeCommits ==
  ASSUME TypeOK, NEW t \in Transaction, Current(t), t.pc = "commit", CommitResume(t)
  PROVE  ResumePostponed(t.p)
<1>1. t.p \in PO /\ t.seen = po[t.p] /\ t.op = "resume" /\ \E u \in User : Admits(t.op, t.p, u)
  BY AtCommit DEF CommitResume
<1>2. po[t.p].status = "postponed" /\ po[t.p].heldStatus # "null" /\ po[t.p].heldStep > 0
  BY <1>1 DEF Admits
<1> QED
  BY <1>1, <1>2 DEF CommitResume, ResumePostponed

LEMMA LifecycleCommits ==
  ASSUME TypeOK, NEW t \in Transaction, Current(t), t.pc = "commit", CommitLifecycle(t)
  PROVE  t.op \in DOMAIN LifecycleFrom /\ UpdateLifecycle(t.p, t.op)
<1>1. t.p \in PO /\ t.op \in DOMAIN LifecycleFrom /\ \E u \in User : Admits(t.op, t.p, u)
  BY AtCommit DEF CommitLifecycle
<1>2. po[t.p].status \in LifecycleFrom[t.op]
  BY <1>1 DEF Admits
<1>3. \A q : CancelAll(q) \cup {} = CancelAll(q)
  OBVIOUS
<1>4. queued' = [queued EXCEPT ![t.p] = CancelAll(@)] /\ asked' = [asked EXCEPT ![t.p] = {}]
  BY <1>3 DEF CommitLifecycle, Requeue
<1> QED
  BY <1>1, <1>2, <1>4 DEF CommitLifecycle, UpdateLifecycle

\* Every commit is a step of the workflow, and the worker is idle again.
LEMMA CommitIsAtomic ==
  ASSUME SerialInv, NEW w \in Worker, Commit(w)
  PROVE  Next /\ tx'[w] = Idle
<1> DEFINE t == tx[w]
<1>1. t \in Transaction /\ t.pc = "commit" /\ Current(t)
  BY DEF SerialInv, Commit, Idle
<1>2. TypeOK /\ t.p \in PO
  BY <1>1, AtCommit DEF SerialInv
<1>3. tx'[w] = Idle
  BY DEF Commit, Closed
<1> HIDE DEF t
<1>4. CASE CommitApprove(t)
  <2>1. t.u \in User
    BY <1>1, <1>2, <1>4, AtCommit DEF CommitApprove, Deciding
  <2> QED
    BY <1>1, <1>2, <1>3, <1>4, <2>1, ApproveCommits DEF Next, UserStep
<1>5. CASE CommitReject(t) \/ CommitChanges(t) \/ CommitPostpone(t)
  <2>1. t.u \in User
    BY <1>1, <1>2, <1>5, AtCommit DEF CommitReject, CommitChanges, CommitPostpone, Deciding
  <2> QED
    BY <1>1, <1>2, <1>3, <1>5, <2>1, DecisionCommits DEF Next, UserStep
<1>6. CASE CommitEdit(t) \/ CommitSubmit(t)
  BY <1>1, <1>2, <1>3, <1>6, OwnerCommits DEF Next, UserStep
<1>7. CASE CommitResume(t)
  BY <1>1, <1>2, <1>3, <1>7, ResumeCommits DEF Next
<1>8. CASE CommitLifecycle(t)
  BY <1>1, <1>2, <1>3, <1>8, LifecycleCommits DEF Next
<1> QED
  BY <1>4, <1>5, <1>6, <1>7, <1>8 DEF Commit, t

\* The steps before the commit: nothing is written, and what was read stays.
LEMMA BeginCurrent ==
  ASSUME SerialInv, NEW w \in Worker, NEW op \in Op, NEW p \in PO, NEW u \in User, NEW c \in Content,
         Begin(w, op, p, u, c)
  PROVE  tx'[w] \in Transaction /\ Current(tx[w])'
<1> DEFINE t == [pc |-> IF op \in Deciding THEN "pick" ELSE IF op = "submit" THEN "number" ELSE "commit",
                 op |-> op, p |-> p, u |-> IF op \in Deciding THEN u ELSE NoUser,
                 content |-> IF op = "edit" THEN c ELSE po[p].content,
                 seen |-> po[p], row |-> NoRow, next |-> 0]
<1>1. tx'[w] = t
  BY DEF Begin, SerialInv
<1>2. op \in AllOps /\ po[p] \in Row /\ po[p].content \in Content
  BY TxAssumption DEF SerialInv, TypeOK, Row
<1>3. t \in Transaction
  BY <1>2 DEF Transaction
<1>4. /\ t.p = p /\ t.op = op /\ t.seen = po[p] /\ (op \in Deciding => t.u = u)
      /\ t.pc \notin {"mark", "count"} /\ (t.pc = "commit" <=> op \notin Deciding \cup {"submit"})
      /\ t.pc = "pick" => op \in Deciding
      /\ t.pc = "number" => op = "submit"
  BY DEF Deciding
<1> HIDE DEF t
<1>5. Exists(p)' /\ Admits(op, p, u)' /\ po' = po
  BY DEF Begin, vars, Exists, Admits
<1> QED
  BY <1>1, <1>3, <1>4, <1>5 DEF Current, Deciding

\* A transaction that only moves on.
LEMMA MovesOn ==
  ASSUME UNCHANGED vars, NEW w \in Worker, Current(tx[w]),
         tx'[w].p = tx[w].p, tx'[w].op = tx[w].op, tx'[w].u = tx[w].u, tx'[w].seen = tx[w].seen,
         tx'[w].pc \in {"mark", "count", "commit"}, tx'[w].pc = "mark" => tx[w].op \in Deciding,
         tx'[w].pc = "count" => tx[w].op = "approve",
         tx[w].op \in Deciding => tx'[w].row \in Actionable(tx[w].p, tx[w].u),
         tx'[w].pc = "commit" /\ tx[w].op = "approve" => Follows(tx[w].p, tx'[w].row, tx'[w].next),
         tx'[w].pc = "commit" /\ tx[w].op = "submit" => tx'[w].next = lastSeq
  PROVE  Current(tx[w])'
BY DEF Current, vars, Exists, Admits, Actionable, Follows, AtStep, InState, First

LEMMA PickCurrent ==
  ASSUME SerialInv, NEW w \in Worker, Pick(w), tx'[w] # Idle
  PROVE  tx'[w] \in Transaction /\ Current(tx[w])'
<1>1. tx[w] \in Transaction /\ tx[w].pc = "pick" /\ Current(tx[w]) /\ tx[w].op \in Deciding
  BY DEF SerialInv, Pick, Idle, Current
<1>2. tx[w].seen = po[tx[w].p] /\ UNCHANGED vars
  BY <1>1 DEF Current, Pick
<1>3. OpenTo(tx[w].p, tx[w].seen.step, tx[w].u) = Actionable(tx[w].p, tx[w].u)
  BY <1>2 DEF OpenTo, Actionable
<1>4. PICK r \in Actionable(tx[w].p, tx[w].u) : tx' = [tx EXCEPT ![w].pc = "mark", ![w].row = r]
  <2>1. ~(tx' = [tx EXCEPT ![w] = Idle])
    BY DEF SerialInv
  <2> QED
    BY <1>3, <2>1 DEF Pick
<1>5. r \in Rule /\ tx[w].p \in PO
  BY <1>1, ActionableRow DEF Transaction
<1>6. tx'[w] = [tx[w] EXCEPT !.pc = "mark", !.row = r]
  BY <1>4 DEF SerialInv
<1>7. tx'[w] \in Transaction
  BY <1>1, <1>5, <1>6 DEF Transaction
<1>8. /\ tx'[w].p = tx[w].p /\ tx'[w].op = tx[w].op /\ tx'[w].u = tx[w].u /\ tx'[w].seen = tx[w].seen
      /\ tx'[w].pc = "mark" /\ tx'[w].row = r
  BY <1>1, <1>6 DEF Transaction
<1> QED
  BY <1>1, <1>2, <1>4, <1>7, <1>8, MovesOn

LEMMA MarkCurrent ==
  ASSUME SerialInv, NEW w \in Worker, Mark(w)
  PROVE  tx'[w] \in Transaction /\ Current(tx[w])'
<1>1. tx[w] \in Transaction /\ tx[w].pc = "mark" /\ Current(tx[w])
  BY DEF SerialInv, Mark, Idle
<1>2. tx[w].op \in Deciding /\ tx[w].row \in Actionable(tx[w].p, tx[w].u) /\ UNCHANGED vars
  BY <1>1 DEF Current, Mark
<1>3. tx'[w] = [tx[w] EXCEPT !.pc = IF tx[w].op = "approve" THEN "count" ELSE "commit"]
  BY DEF Mark, SerialInv
<1>4. /\ tx'[w] \in Transaction
      /\ tx'[w].p = tx[w].p /\ tx'[w].op = tx[w].op /\ tx'[w].u = tx[w].u /\ tx'[w].seen = tx[w].seen
      /\ tx'[w].row = tx[w].row /\ tx'[w].pc = IF tx[w].op = "approve" THEN "count" ELSE "commit"
  BY <1>1, <1>3 DEF Transaction
<1> QED
  BY <1>1, <1>2, <1>4, MovesOn DEF Deciding

LEMMA CountCurrent ==
  ASSUME SerialInv, NEW w \in Worker, Count(w)
  PROVE  tx'[w] \in Transaction /\ Current(tx[w])'
<1>1. tx[w] \in Transaction /\ tx[w].pc = "count" /\ Current(tx[w])
  BY DEF SerialInv, Count, Idle
<1>2. /\ tx[w].op = "approve" /\ tx[w].row \in Actionable(tx[w].p, tx[w].u) /\ UNCHANGED vars
      /\ tx[w].seen = po[tx[w].p]
  BY <1>1 DEF Current, Count, Deciding
<1> DEFINE left == InState(tx[w].p, "pending") \ {tx[w].row}
<1>3. PICK s \in 0..tx[w].seen.step \cup {StepOf[r] : r \in left} :
        /\ Follows(tx[w].p, tx[w].row, s)
        /\ tx' = [tx EXCEPT ![w].pc = "commit", ![w].next = s]
  BY <1>2 DEF Count, Follows
<1>4. s \in Nat
  <2>1. \A r \in left : StepOf[r] \in Nat
    BY ConstantsAssumption DEF ConstantsAssumption, InState
  <2> QED
    BY <1>3, <2>1
<1>5. tx'[w] = [tx[w] EXCEPT !.pc = "commit", !.next = s]
  BY <1>3 DEF SerialInv
<1>6. /\ tx'[w] \in Transaction
      /\ tx'[w].p = tx[w].p /\ tx'[w].op = tx[w].op /\ tx'[w].u = tx[w].u /\ tx'[w].seen = tx[w].seen
      /\ tx'[w].row = tx[w].row /\ tx'[w].pc = "commit" /\ tx'[w].next = s
  BY <1>1, <1>4, <1>5 DEF Transaction
<1> QED
  BY <1>1, <1>2, <1>3, <1>6, MovesOn

LEMMA NumberCurrent ==
  ASSUME SerialInv, NEW w \in Worker, Number(w)
  PROVE  tx'[w] \in Transaction /\ Current(tx[w])'
<1>1. tx[w] \in Transaction /\ tx[w].pc = "number" /\ Current(tx[w]) /\ tx[w].op = "submit"
  BY DEF SerialInv, Number, Idle, Current
<1>2. lastSeq \in Nat
  BY ConstantsAssumption DEF SerialInv, TypeOK, ConstantsAssumption
<1>3. tx'[w] = [tx[w] EXCEPT !.pc = "commit", !.next = lastSeq] /\ UNCHANGED vars
  BY DEF Number, SerialInv
<1>4. /\ tx'[w] \in Transaction
      /\ tx'[w].p = tx[w].p /\ tx'[w].op = tx[w].op /\ tx'[w].u = tx[w].u /\ tx'[w].seen = tx[w].seen
      /\ tx'[w].pc = "commit" /\ tx'[w].next = lastSeq
  BY <1>1, <1>2, <1>3 DEF Transaction
<1> QED
  BY <1>1, <1>3, <1>4, MovesOn DEF Deciding

\* A PO that is created is not the one that a transaction is about.
LEMMA CreateCurrent ==
  ASSUME SerialInv, NEW p \in PO, NEW u \in User, NEW c \in Content, CreateDraft(p, u, c),
         UNCHANGED tx, NEW w \in Worker, tx[w] # Idle
  PROVE  Current(tx[w])'
<1>1. tx[w] \in Transaction /\ Current(tx[w]) /\ tx[w].p \in PO /\ tx'[w] = tx[w]
  BY DEF SerialInv, Transaction
<1>2. tx[w].p # p
  BY <1>1 DEF Current, Exists, CreateDraft, Gone
<1>3. po'[tx[w].p] = po[tx[w].p] /\ rows' = rows /\ lastSeq' = lastSeq
  BY <1>1, <1>2 DEF CreateDraft, SerialInv, TypeOK
<1> QED
  BY <1>1, <1>3 DEF Current, Exists, Admits, Actionable, Follows, AtStep, InState, First

\* What a commit leaves alone: the other POs, and the sequence unless it submits.
LEMMA CommitFrame ==
  ASSUME TypeOK, NEW w \in Worker, Commit(w), NEW q \in PO, q # tx[w].p
  PROVE  /\ po'[q] = po[q] /\ rows'[q] = rows[q]
         /\ tx[w].op # "submit" => lastSeq' = lastSeq
<1>1. po \in [PO -> Row] /\ rows \in [PO -> [Rule -> {"none", "pending", "approved", "rejected"}]]
  BY DEF TypeOK
<1>2. CASE CommitApprove(tx[w])
  BY <1>1, <1>2 DEF CommitApprove, SetRow, SetPO
<1>3. CASE CommitReject(tx[w])
  BY <1>1, <1>3 DEF CommitReject, SetRow, SetPO
<1>4. CASE CommitChanges(tx[w]) \/ CommitPostpone(tx[w])
  BY <1>1, <1>4 DEF CommitChanges, CommitPostpone, SetPO
<1>5. CASE CommitResume(tx[w]) \/ CommitLifecycle(tx[w]) \/ CommitEdit(tx[w])
  BY <1>1, <1>5 DEF CommitResume, CommitLifecycle, CommitEdit
<1>6. CASE CommitSubmit(tx[w])
  BY <1>1, <1>6 DEF CommitSubmit
<1> QED
  BY <1>2, <1>3, <1>4, <1>5, <1>6 DEF Commit

\* Another transaction is about another PO, and is not the second submission.
LEMMA OthersCurrent ==
  ASSUME Alone = AllOps, SerialInv, NEW w \in Worker, NEW v \in Worker, v # w, tx[v] # Idle, Commit(w)
  PROVE  tx'[v] = tx[v] /\ Current(tx[v])'
<1>1. tx[v] \in Transaction /\ tx[w] \in Transaction /\ Current(tx[v]) /\ TypeOK /\ tx[w] # Idle
  BY DEF SerialInv, Commit, Idle
<1>2. tx[v].p \in PO /\ tx[v].p # tx[w].p /\ (tx[v].op = "submit" => tx[w].op # "submit")
  <2>1. tx[v].op \in Alone /\ tx[v].p \in PO
    BY <1>1 DEF Transaction
  <2>2. "submit" \in Alone
    BY DEF AllOps, Owner
  <2> QED
    BY <1>1, <2>1, <2>2 DEF SerialInv, Apart
<1>3. tx'[v] = tx[v]
  BY <1>2 DEF Commit, Closed
<1>4. /\ po'[tx[v].p] = po[tx[v].p] /\ rows'[tx[v].p] = rows[tx[v].p]
      /\ tx[v].op = "submit" => lastSeq' = lastSeq
  BY <1>1, <1>2, CommitFrame
<1> QED
  BY <1>1, <1>3, <1>4 DEF Current, Exists, Admits, Actionable, Follows, AtStep, InState, First

LEMMA StillCurrent ==
  ASSUME SerialInv, UNCHANGED vars, NEW v \in Worker, tx[v] # Idle, tx'[v] = tx[v]
  PROVE  Current(tx[v])'
<1>1. Current(tx[v])
  BY DEF SerialInv
<1> QED
  BY <1>1 DEF Current, vars, Exists, Admits, Actionable, Follows, AtStep, InState, First

LEMMA TxNextInv ==
  ASSUME Alone = AllOps, SerialInv, [TxNext /\ Apart']_txvars
  PROVE  SerialInv' /\ [Next]_vars
<1>0. ConstantsAssumption /\ TypeOK /\ Apart
  BY ConstantsAssumption DEF SerialInv
<1>1. ASSUME NEW w \in Worker, tx' = [v \in Worker |-> tx'[v]], [Next]_vars, Apart',
             tx'[w] = Idle \/ (tx'[w] \in Transaction /\ Current(tx[w])'),
             \A v \in Worker : v # w => tx'[v] = tx[v] /\ (tx[v] # Idle => Current(tx[v])')
      PROVE  SerialInv' /\ [Next]_vars
  <2>1. tx' \in [Worker -> Transaction \cup {Idle}]
    <3>1. \A v \in Worker : tx'[v] \in Transaction \cup {Idle}
      BY <1>1 DEF SerialInv
    <3> QED
      BY <1>1, <3>1
  <2>2. TypeOK'
    BY <1>0, <1>1, NextType
  <2>3. \A v \in Worker : tx'[v] # Idle => Current(tx[v])'
    BY <1>1
  <2> QED
    BY <1>1, <2>1, <2>2, <2>3 DEF SerialInv
<1>2. CASE (\E p \in PO, u \in User, c \in Content : CreateDraft(p, u, c) /\ UNCHANGED tx) /\ Apart'
  <2>1. PICK p \in PO, u \in User, c \in Content : CreateDraft(p, u, c) /\ tx' = tx
    BY <1>2
  <2>2. Next
    BY <2>1 DEF Next, UserStep
  <2>3. TypeOK' /\ tx' \in [Worker -> Transaction \cup {Idle}]
    BY <1>0, <2>1, <2>2, NextType DEF SerialInv
  <2>4. \A w \in Worker : tx'[w] # Idle => Current(tx[w])'
    BY <2>1, CreateCurrent
  <2> QED
    BY <1>2, <2>2, <2>3, <2>4 DEF SerialInv
<1>3. CASE (\E w \in Worker, op \in Op, p \in PO, u \in User, c \in Content : Begin(w, op, p, u, c)) /\ Apart'
  <2>1. PICK w \in Worker, op \in Op, p \in PO, u \in User, c \in Content : Begin(w, op, p, u, c)
    BY <1>3
  <2>2. UNCHANGED vars /\ tx' = [v \in Worker |-> tx'[v]] /\ \A v \in Worker : v # w => tx'[v] = tx[v]
    BY <2>1 DEF Begin, SerialInv
  <2> QED
    BY <1>1, <1>3, <2>1, <2>2, BeginCurrent, StillCurrent
<1>4. ASSUME NEW w \in Worker, Step(w), Apart'
      PROVE  SerialInv' /\ [Next]_vars
  <2>1. CASE Commit(w)
    <3>1. tx' = [v \in Worker |-> tx'[v]]
      BY <2>1 DEF Commit, Closed
    <3>2. \A v \in Worker : v # w => tx'[v] = tx[v] /\ (tx[v] # Idle => Current(tx[v])')
      <4> SUFFICES ASSUME NEW v \in Worker, v # w
                   PROVE  tx'[v] = tx[v] /\ (tx[v] # Idle => Current(tx[v])')
        OBVIOUS
      <4>1. CASE tx[v] = Idle
        BY <2>1, <4>1 DEF Commit, Closed, Idle
      <4> QED
        BY <2>1, <4>1, OthersCurrent
    <3> QED
      BY <1>1, <1>4, <2>1, <3>1, <3>2, CommitIsAtomic
  <2>2. CASE Pick(w) \/ Mark(w) \/ Count(w) \/ Number(w) \/ Rollback(w)
    <3>1. UNCHANGED vars /\ tx' = [v \in Worker |-> tx'[v]] /\ \A v \in Worker : v # w => tx'[v] = tx[v]
      BY <2>2 DEF Pick, Mark, Count, Number, Rollback, SerialInv
    <3>2. CASE Rollback(w)
      <4>1. tx'[w] = Idle
        BY <3>2 DEF Rollback, SerialInv
      <4> QED
        BY <1>1, <1>4, <3>1, <4>1, StillCurrent
    <3>3. CASE ~Rollback(w)
      BY <1>1, <1>4, <2>2, <3>1, <3>3, PickCurrent, MarkCurrent, CountCurrent, NumberCurrent, StillCurrent
    <3> QED
      BY <3>2, <3>3
  <2> QED
    BY <1>4, <2>1, <2>2 DEF Step
<1>5. CASE UNCHANGED txvars
  <2>1. UNCHANGED vars /\ tx' = tx
    BY <1>5 DEF txvars
  <2>2. TypeOK' /\ Apart'
    BY <1>0, <2>1, NextType DEF Apart
  <2> QED
    BY <2>1, <2>2, StillCurrent DEF SerialInv
<1> QED
  BY <1>2, <1>3, <1>4, <1>5 DEF TxNext

LEMMA TxInitInv == TxInit => SerialInv /\ Init
<1> SUFFICES ASSUME TxInit
             PROVE  SerialInv /\ Init
  OBVIOUS
<1>1. TypeOK /\ Init
  BY ConstantsAssumption, InitType DEF TxInit
<1> QED
  BY <1>1 DEF TxInit, SerialInv, Apart

\* What a handler has read is still so when it commits.
THEOREM SerialInductive == ASSUME Alone = AllOps PROVE TxSpec => []SerialInv
<1>1. TxInit => SerialInv
  BY TxInitInv
<1>2. SerialInv /\ [TxNext /\ Apart']_txvars => SerialInv'
  BY TxNextInv
<1> QED
  BY <1>1, <1>2, PTL DEF TxSpec

\* Refinement: however many handlers overlap, as long as those of one PO and
\* the submissions take turns, their transactions, read statement by statement
\* and rolled back at any of them, implement the atomic handlers of the workflow.
THEOREM SerialImplements == ASSUME Alone = AllOps PROVE TxSpec => SerialIsAtomic
<1>1. TxInit => Init
  BY TxInitInv
<1>2. SerialInv /\ [TxNext /\ Apart']_txvars => [Next]_vars
  BY TxNextInv
<1> QED
  BY <1>1, <1>2, SerialInductive, PTL DEF TxSpec, SerialIsAtomic, Spec
-----------------------------------------------------------------------------
(* Overlapping handlers of one PO. *)

AnyNote == (User \cup {NoUser}) \X (ApprovalEvent \cup {"update"})

LEMMA Requeued ==
  ASSUME TypeOK, NEW p \in PO, NEW notes \in SUBSET AnyNote, NEW us \in SUBSET User,
         Requeue(p, notes, us)
  PROVE  queued' \in [PO -> SUBSET AnyNote] /\ asked' \in [PO -> SUBSET User]
<1>1. queued \in [PO -> SUBSET AnyNote] /\ asked \in [PO -> SUBSET User]
  BY DEF TypeOK, AnyNote
<1>2. \A ns \in SUBSET AnyNote : CancelAll(ns) \cup notes \in SUBSET AnyNote
  BY DEF CancelAll, ApprovalNotes
<1> QED
  BY <1>1, <1>2 DEF Requeue

LEMMA NotesTyped ==
  ASSUME ConstantsAssumption, NEW rs \in SUBSET Rule
  PROVE  NotesFor(rs) \in SUBSET AnyNote /\ {Approver[r] : r \in rs} \in SUBSET User
<1>1. \A r \in rs : Approver[r] \in User
  BY DEF ConstantsAssumption
<1> QED
  BY <1>1 DEF NotesFor, AnyNote

LEMMA ToldTyped ==
  ASSUME TypeOK, NEW p \in PO
  PROVE  ToldRequester(p) \in SUBSET AnyNote
BY DEF TypeOK, Row, ToldRequester, AnyNote

LEMMA ToldOnly ==
  ASSUME TypeOK, NEW p \in PO, Requeue(p, ToldRequester(p), {})
  PROVE  queued' \in [PO -> SUBSET AnyNote] /\ asked' \in [PO -> SUBSET User]
<1>1. ToldRequester(p) \in SUBSET AnyNote /\ {} \in SUBSET User
  BY ToldTyped
<1> QED
  BY <1>1, Requeued

\* The record a commit writes for its own PO; everything else stays.
LEMMA Wrote ==
  ASSUME TypeOK, NEW w \in Worker, Commit(w), tx[w] \in Transaction
  PROVE  \A q \in PO : q # tx[w].p => /\ po'[q] = po[q] /\ rows'[q] = rows[q] /\ filed'[q] = filed[q]
<1> SUFFICES ASSUME NEW q \in PO, q # tx[w].p
             PROVE  filed'[q] = filed[q]
  BY CommitFrame
<1>1. filed \in [PO -> [content : Content, rules : SUBSET Rule]]
  BY DEF TypeOK
<1>2. CASE CommitApprove(tx[w]) \/ CommitReject(tx[w]) \/ CommitChanges(tx[w]) \/ CommitPostpone(tx[w])
  BY <1>2 DEF CommitApprove, CommitReject, CommitChanges, CommitPostpone
<1>3. CASE CommitResume(tx[w]) \/ CommitLifecycle(tx[w]) \/ CommitEdit(tx[w])
  BY <1>3 DEF CommitResume, CommitLifecycle, CommitEdit
<1>4. CASE CommitSubmit(tx[w])
  BY <1>1, <1>4 DEF CommitSubmit
<1> QED
  BY <1>2, <1>3, <1>4 DEF Commit

\* The five kinds of commit that may overlap leave the rows of a PO and its
\* content in place, and turn at most a row of theirs to approved.
Milder(p) ==
  /\ filed'[p] = filed[p]
  /\ po'[p].content = po[p].content
  /\ \A r \in Rule : \/ rows'[p][r] = rows[p][r]
                     \/ rows[p][r] # "none" /\ rows'[p][r] = "approved"

LEMMA StaysAsFiled ==
  ASSUME NEW p \in PO, Milder(p)
  PROVE  /\ RowsOf(p)' = RowsOf(p)
         /\ InState(p, "pending")' \subseteq InState(p, "pending")
         /\ AsFiled(p) => AsFiled(p)'
         /\ Settled(p) => Settled(p)'
<1>1. RowsOf(p)' = RowsOf(p)
  BY DEF Milder, RowsOf
<1>2. InState(p, "pending")' \subseteq InState(p, "pending")
  BY DEF Milder, InState
<1>3. InState(p, "rejected")' \subseteq InState(p, "rejected")
  BY DEF Milder, InState
<1>4. AsFiled(p) => AsFiled(p)'
  BY <1>1, <1>3 DEF AsFiled, Milder
<1> QED
  BY <1>1, <1>2, <1>4 DEF Settled

\* What the invariant gives a commit.
LEMMA Grounds ==
  ASSUME ConstantsAssumption, TypeOK, NEW t \in Transaction, TxSound(t), t.pc = "commit", POSound(t.p)
  PROVE  /\ t.p \in PO /\ t.content \in Content /\ t.seen \in Row /\ t.next \in Nat
         /\ po \in [PO -> Row] /\ po[t.p] \in Row
         /\ rows \in [PO -> [Rule -> {"none", "pending", "approved", "rejected"}]]
         /\ filed \in [PO -> [content : Content, rules : SUBSET Rule]]
         /\ t.op \in Deciding => /\ t.row \in Rule /\ t.row # NoRow /\ rows[t.p][t.row] # "none"
                                 /\ t.seen.step # 0 /\ AsFiled(t.p)
                                 /\ t.seen.status \notin Fulfilled \cup Editable
<1>1. /\ t.p \in PO /\ t.content \in Content /\ t.seen \in Row /\ t.next \in Nat
      /\ po \in [PO -> Row] /\ po[t.p] \in Row
      /\ rows \in [PO -> [Rule -> {"none", "pending", "approved", "rejected"}]]
      /\ filed \in [PO -> [content : Content, rules : SUBSET Rule]]
  BY DEF Transaction, TypeOK
<1>2. ASSUME t.op \in Deciding
      PROVE  /\ t.row \in Rule /\ t.row # NoRow /\ rows[t.p][t.row] # "none"
             /\ t.seen.step # 0 /\ AsFiled(t.p)
             /\ t.seen.status \notin Fulfilled \cup Editable
  BY <1>2, TxAssumption DEF TxSound, RowsOf, TxAssumption
<1> QED
  BY <1>1, <1>2

\* What a commit of t has to establish for its own PO.
CommitDone(p) == TypeOK' /\ POSound(p)' /\ Exists(p)'

LEMMA ApproveDone ==
  ASSUME ConstantsAssumption, TypeOK, NEW t \in Transaction, TxSound(t), t.pc = "commit", POSound(t.p),
         CommitApprove(t)
  PROVE  CommitDone(t.p) /\ Milder(t.p)
<1> DEFINE p == t.p
<1>1. /\ p \in PO /\ t.next \in Nat /\ po \in [PO -> Row] /\ po[p] \in Row /\ t.op = "approve"
      /\ rows \in [PO -> [Rule -> {"none", "pending", "approved", "rejected"}]]
      /\ t.row \in Rule /\ t.row # NoRow /\ rows[p][t.row] # "none"
      /\ t.seen.step # 0 /\ AsFiled(p)
  BY Grounds DEF CommitApprove, Deciding
<1>2. rows' = [rows EXCEPT ![p][t.row] = "approved"] /\ UNCHANGED <<rules, lastSeq, filed>>
  BY <1>1 DEF CommitApprove, SetRow
<1>3. rows' \in [PO -> [Rule -> {"none", "pending", "approved", "rejected"}]]
  BY <1>1, <1>2
<1>4. ASSUME po'[p].content = po[p].content
      PROVE  Milder(p)
  BY <1>1, <1>2, <1>4 DEF Milder
<1>5. ASSUME NEW st \in Status \ (Editable \cup {"postponed"}), NEW s \in Nat, SetPO(p, st, s),
             st \in Fulfilled => InState(p, "pending") \subseteq {t.row}
      PROVE  po' \in [PO -> Row] /\ POSound(p)' /\ Exists(p)' /\ Milder(p)
  <2>1. po' = [po EXCEPT ![p].status = st, ![p].step = s] /\ po' \in [PO -> Row]
    BY <1>1, <1>5, PoStatusStep DEF SetPO
  <2>2. po'[p].status = st /\ po'[p].content = po[p].content /\ po'[p].heldStatus = po[p].heldStatus
    BY <1>1, <2>1 DEF Row
  <2>3. Milder(p)
    BY <1>4, <2>2
  <2>4. st \in Fulfilled => InState(p, "pending")' = {}
    BY <1>1, <1>2, <1>5, StaysAsFiled, <2>3 DEF InState
  <2>5. AsFiled(p)'
    BY <1>1, <2>3, StaysAsFiled
  <2>6. st \notin Gone
    BY DEF Gone, Status, Waiting, Fulfilled, Terminal, Editable
  <2> QED
    BY <2>1, <2>2, <2>3, <2>4, <2>5, <2>6 DEF POSound, Settled, Exists
<1>6. CASE t.next = t.seen.step
  <2>1. po' = po /\ queued' = [queued EXCEPT ![p] = CancelForUser(@, t.u)] /\ asked' = [asked EXCEPT ![p] = @ \ {t.u}]
    BY <1>1, <1>6 DEF CommitApprove
  <2>2. Milder(p)
    BY <1>4, <2>1
  <2>3. TypeOK'
    BY <1>2, <1>3, <2>1 DEF TypeOK, CancelForUser
  <2>4. POSound(p)' /\ Exists(p)'
    BY <1>1, <2>1, <2>2, StaysAsFiled DEF POSound, TxSound, Exists
  <2> QED
    BY <2>2, <2>3, <2>4 DEF CommitDone
<1>7. CASE t.next \notin {0, t.seen.step}
  <2> DEFINE next == AtStep(t.next, RowsOf(p))
  <2>1. SetPO(p, StatusForStep(t.next), t.next) /\ Requeue(p, NotesFor(next), {Approver[r] : r \in next})
    BY <1>7 DEF CommitApprove
  <2>2. StatusForStep(t.next) \in Status \ (Fulfilled \cup Editable \cup {"postponed"})
    BY <1>1, StatusForStepType DEF Waiting, Fulfilled, Editable, Status
  <2>3. po' \in [PO -> Row] /\ POSound(p)' /\ Exists(p)' /\ Milder(p)
    BY <1>1, <1>5, <2>1, <2>2
  <2>4. next \in SUBSET Rule
    BY DEF AtStep, RowsOf
  <2>5. queued' \in [PO -> SUBSET AnyNote] /\ asked' \in [PO -> SUBSET User]
    BY <1>1, <2>1, <2>4, NotesTyped, Requeued
  <2> QED
    BY <1>2, <1>3, <2>3, <2>5 DEF CommitDone, TypeOK, AnyNote
<1>8. CASE t.next = 0
  <2>1. SetPO(p, "approved", 0) /\ Requeue(p, ToldRequester(p), {})
    BY <1>1, <1>8 DEF CommitApprove
  <2>2. "approved" \in Status \ (Editable \cup {"postponed"})
    BY DEF Waiting, Fulfilled, Editable, Status
  <2>3. InState(p, "pending") \subseteq {t.row}
    BY <1>1, <1>8 DEF TxSound
  <2>4. po' \in [PO -> Row] /\ POSound(p)' /\ Exists(p)' /\ Milder(p)
    BY <1>1, <1>5, <2>1, <2>2, <2>3
  <2>5. queued' \in [PO -> SUBSET AnyNote] /\ asked' \in [PO -> SUBSET User]
    BY <1>1, <2>1, ToldOnly
  <2> QED
    BY <1>2, <1>3, <2>4, <2>5 DEF CommitDone, TypeOK, AnyNote
<1> QED
  BY <1>6, <1>7, <1>8

LEMMA RejectDone ==
  ASSUME ConstantsAssumption, TypeOK, NEW t \in Transaction, TxSound(t), t.pc = "commit", POSound(t.p),
         CommitReject(t)
  PROVE  CommitDone(t.p)
<1> DEFINE p == t.p
<1>1. /\ p \in PO /\ po \in [PO -> Row] /\ po[p] \in Row
      /\ rows \in [PO -> [Rule -> {"none", "pending", "approved", "rejected"}]]
      /\ t.row \in Rule /\ t.row # NoRow
  BY Grounds DEF CommitReject, Deciding
<1>2. rows' \in [PO -> [Rule -> {"none", "pending", "approved", "rejected"}]]
  BY <1>1 DEF CommitReject, SetRow
<1>3. po' = [po EXCEPT ![p].status = "rejected", ![p].step = 0] /\ po' \in [PO -> Row]
  BY <1>1, Statuses, PoStatusStep DEF CommitReject, SetPO
<1>4. po'[p].status = "rejected" /\ po'[p].step = 0 /\ po'[p].heldStatus = po[p].heldStatus
  BY <1>1, <1>3 DEF Row
<1>5. queued' \in [PO -> SUBSET AnyNote] /\ asked' \in [PO -> SUBSET User]
  BY <1>1, ToldOnly DEF CommitReject
<1>6. POSound(p)' /\ Exists(p)'
  BY <1>4 DEF POSound, Exists, Fulfilled, Editable, Gone
<1> QED
  BY <1>2, <1>3, <1>5, <1>6 DEF CommitDone, CommitReject, TypeOK, AnyNote

\* Changes, a postponement, a resume and a fulfilment write no row.
LEMMA RowsStay ==
  ASSUME ConstantsAssumption, TypeOK, NEW t \in Transaction, TxSound(t), t.pc = "commit", POSound(t.p),
         CommitChanges(t) \/ CommitPostpone(t) \/ CommitResume(t) \/ CommitLifecycle(t)
  PROVE  CommitDone(t.p) /\ Milder(t.p)
<1> DEFINE p == t.p
<1>1. /\ p \in PO /\ t.seen \in Row /\ po \in [PO -> Row] /\ po[p] \in Row
      /\ UNCHANGED <<rows, rules, lastSeq, filed>>
  BY Grounds DEF CommitChanges, CommitPostpone, CommitResume, CommitLifecycle
<1>2. /\ t.op \in Deciding => /\ t.seen.step # 0 /\ AsFiled(p)
                              /\ t.seen.status \notin Fulfilled \cup Editable
  BY Grounds
<1>3. ASSUME po' \in [PO -> Row], po'[p].content = po[p].content,
             queued' \in [PO -> SUBSET AnyNote], asked' \in [PO -> SUBSET User]
      PROVE  TypeOK' /\ Milder(p) /\ (AsFiled(p) => AsFiled(p)') /\ (Settled(p) => Settled(p)')
  <2>1. Milder(p)
    BY <1>1, <1>3 DEF Milder
  <2> QED
    BY <1>1, <1>3, <2>1, StaysAsFiled DEF TypeOK, AnyNote
<1>4. CASE CommitChanges(t)
  <2>1. po' = [po EXCEPT ![p].status = "changes_requested", ![p].step = 0] /\ po' \in [PO -> Row]
    BY <1>1, <1>4, Statuses, PoStatusStep DEF CommitChanges, SetPO
  <2>2. /\ po'[p].status = "changes_requested" /\ po'[p].step = 0
        /\ po'[p].heldStatus = po[p].heldStatus /\ po'[p].content = po[p].content
    BY <1>1, <2>1 DEF Row
  <2>3. queued' \in [PO -> SUBSET AnyNote] /\ asked' \in [PO -> SUBSET User]
    BY <1>1, <1>4, ToldOnly DEF CommitChanges
  <2>4. POSound(p)' /\ Exists(p)'
    BY <2>2 DEF POSound, Exists, Fulfilled, Editable, Gone
  <2> QED
    BY <1>3, <2>1, <2>2, <2>3, <2>4 DEF CommitDone
<1>5. CASE CommitPostpone(t)
  <2>0. t.seen.status \in Status /\ t.seen.step \in Nat
    BY <1>1 DEF TxSound, Row
  <2>1. po' = [po EXCEPT ![p] = [po[p] EXCEPT !.status = "postponed", !.step = 0,
                                    !.heldStatus = t.seen.status, !.heldStep = t.seen.step]]
    BY <1>1, <1>5, PoHeld DEF CommitPostpone
  <2>2. /\ po'[p].status = "postponed" /\ po'[p].step = 0
        /\ po'[p].heldStatus = t.seen.status /\ po'[p].content = po[p].content
    BY <1>1, <2>1 DEF Row
  <2>3. po' \in [PO -> Row]
    BY <1>1, <2>0, <2>1, Statuses DEF Row
  <2>4. queued' \in [PO -> SUBSET AnyNote] /\ asked' \in [PO -> SUBSET User]
    BY <1>1, <1>5, ToldOnly DEF CommitPostpone
  <2>5. TypeOK' /\ Milder(p) /\ (AsFiled(p) => AsFiled(p)')
    BY <1>3, <2>2, <2>3, <2>4
  <2>6. AsFiled(p) /\ t.seen.status \in Resumable
    BY <1>2, <1>5, <2>0 DEF CommitPostpone, Deciding, Resumable
  <2>7. POSound(p)' /\ Exists(p)'
    BY <2>2, <2>5, <2>6 DEF POSound, Exists, Fulfilled, Editable, Gone
  <2> QED
    BY <2>5, <2>7 DEF CommitDone
<1>6. CASE CommitResume(t)
  <2> DEFINE open == AtStep(t.seen.heldStep, InState(p, "pending"))
  <2>1. /\ po' = [po EXCEPT ![p].status = t.seen.heldStatus, ![p].step = t.seen.heldStep,
                            ![p].heldStatus = "null", ![p].heldStep = 0]
        /\ queued' = [queued EXCEPT ![p] = @ \cup NotesFor(open) \cup ToldRequester(p)]
        /\ asked' = [asked EXCEPT ![p] = {Approver[r] : r \in open}]
    BY <1>6 DEF CommitResume
  <2>2. t.seen.heldStatus \in Resumable \ {"null"} /\ AsFiled(p) /\ t.seen.heldStep \in Nat
    BY <1>1, <1>6 DEF CommitResume, TxSound, Row
  <2>3. /\ po'[p].status = t.seen.heldStatus /\ po'[p].heldStatus = "null"
        /\ po'[p].content = po[p].content
    BY <1>1, <2>1 DEF Row
  <2>4. po' \in [PO -> Row]
    BY <1>1, <2>1, <2>2 DEF Row, Resumable
  <2>5. open \in SUBSET Rule
    BY DEF AtStep, InState
  <2>6. queued' \in [PO -> SUBSET AnyNote] /\ asked' \in [PO -> SUBSET User]
    <3>1. queued \in [PO -> SUBSET AnyNote] /\ asked \in [PO -> SUBSET User]
      BY DEF TypeOK, AnyNote
    <3> QED
      BY <1>1, <2>1, <2>5, <3>1, NotesTyped, ToldTyped
  <2>7. TypeOK' /\ Milder(p) /\ AsFiled(p)'
    BY <1>3, <2>2, <2>3, <2>4, <2>6
  <2>8. t.seen.heldStatus \notin Fulfilled \cup Editable \cup Gone
    BY <2>2 DEF Resumable, Status, Waiting, Fulfilled, Terminal, Editable, Gone
  <2>9. POSound(p)' /\ Exists(p)'
    BY <2>3, <2>7, <2>8 DEF POSound, Exists, Resumable
  <2> QED
    BY <2>7, <2>9 DEF CommitDone
<1>7. CASE CommitLifecycle(t)
  <2>1. po' = [po EXCEPT ![p].status = t.op] /\ t.op \in DOMAIN LifecycleFrom
        /\ Requeue(p, {}, {})
    BY <1>7 DEF CommitLifecycle
  <2>2. t.op \in Status /\ t.op \notin Editable \cup Gone \cup {"postponed"}
    BY <2>1, Statuses DEF LifecycleFrom, Editable, Gone
  <2>3. po' \in [PO -> Row]
    BY <1>1, <2>1, <2>2, PoStatusStep, 0 \in Nat
  <2>4. /\ po'[p].status = t.op /\ po'[p].step = po[p].step
        /\ po'[p].heldStatus = po[p].heldStatus /\ po'[p].content = po[p].content
    BY <1>1, <2>1 DEF Row
  <2>5. queued' \in [PO -> SUBSET AnyNote] /\ asked' \in [PO -> SUBSET User]
    BY <1>1, <2>1, Requeued
  <2>6. TypeOK' /\ Milder(p) /\ (AsFiled(p) => AsFiled(p)') /\ (Settled(p) => Settled(p)')
    BY <1>3, <2>3, <2>4, <2>5
  <2>7. t.op \in Fulfilled => t.seen.status \in Fulfilled
    BY <2>1 DEF TxSound, LifecycleFrom, Fulfilled
  <2>8. t.op \in Fulfilled => Settled(p)
    BY <2>7 DEF TxSound
  <2>9. POSound(p)' /\ Exists(p)'
    BY <2>2, <2>4, <2>6, <2>8 DEF POSound, Exists
  <2> QED
    BY <2>6, <2>9 DEF CommitDone
<1> QED
  BY <1>4, <1>5, <1>6, <1>7
LEMMA EditDone ==
  ASSUME ConstantsAssumption, TypeOK, NEW t \in Transaction, TxSound(t), t.pc = "commit", POSound(t.p),
         CommitEdit(t)
  PROVE  CommitDone(t.p)
<1> DEFINE p == t.p
<1>1. /\ p \in PO /\ t.content \in Content /\ po \in [PO -> Row] /\ po[p] \in Row
      /\ po' = [po EXCEPT ![p].content = t.content]
  BY Grounds DEF CommitEdit
<1>2. po[p].status \in Editable /\ po[p].step = 0
  BY DEF CommitEdit, TxSound, POSound, Owner
<1>3. po' \in [PO -> Row]
  BY <1>1 DEF Row
<1>4. po'[p].status = po[p].status /\ po'[p].step = 0 /\ po'[p].heldStatus = po[p].heldStatus
  BY <1>1, <1>2 DEF Row
<1>5. TypeOK'
  BY <1>3 DEF CommitEdit, TypeOK
<1>6. POSound(p)' /\ Exists(p)'
  BY <1>2, <1>4 DEF POSound, Exists, Fulfilled, Editable, Gone
<1> QED
  BY <1>5, <1>6 DEF CommitDone

LEMMA SubmitDone ==
  ASSUME ConstantsAssumption, TypeOK, NEW t \in Transaction, TxSound(t), t.pc = "commit", POSound(t.p),
         CommitSubmit(t)
  PROVE  CommitDone(t.p)
<1> DEFINE p == t.p
           taken == LoadRules(t.seen.content)
<1>1. /\ p \in PO /\ po \in [PO -> Row] /\ po[p] \in Row /\ t.next \in Nat
      /\ filed \in [PO -> [content : Content, rules : SUBSET Rule]]
      /\ rows \in [PO -> [Rule -> {"none", "pending", "approved", "rejected"}]]
      /\ t.seen = po[p] /\ taken \in SUBSET Rule
  <2>1. taken \subseteq Rule
    BY LoadRulesType
  <2> QED
    BY <2>1, Grounds DEF CommitSubmit, TxSound, Owner
<1>2. PICK s \in {StepOf[r] : r \in taken} :
        /\ First(s, taken)
        /\ po' = [po EXCEPT ![p].number = t.next + 1, ![p].step = s, ![p].status = StatusForStep(s)]
        /\ Requeue(p, NotesFor(AtStep(s, taken)), {Approver[r] : r \in AtStep(s, taken)})
  BY DEF CommitSubmit
<1>3. s \in Nat \ {0} /\ taken # {}
  BY <1>1, <1>2 DEF ConstantsAssumption
<1>4. /\ lastSeq' = t.next + 1 /\ t.next < MaxSeq /\ rules' = rules
      /\ rows' = [rows EXCEPT ![p] = [r \in Rule |-> IF r \in taken THEN "pending" ELSE "none"]]
      /\ filed' = [filed EXCEPT ![p] = [content |-> t.seen.content, rules |-> taken]]
  BY DEF CommitSubmit
<1>5. StatusForStep(s) \in Status \ (Fulfilled \cup Editable \cup Gone \cup {"postponed"})
  BY <1>3, StatusForStepType DEF Waiting, Fulfilled, Editable, Status, Gone
<1>6. /\ po'[p].status = StatusForStep(s) /\ po'[p].content = po[p].content
      /\ po'[p].heldStatus = po[p].heldStatus
  BY <1>1, <1>2 DEF Row
<1>7. TypeOK'
  <2>1. po' \in [PO -> Row]
    <3>1. t.next + 1 \in Nat /\ StatusForStep(s) \in Status
      BY <1>1, <1>5
    <3> QED
      BY <1>1, <1>2, <1>3, <3>1, PoNumbered
  <2>2. rows' \in [PO -> [Rule -> {"none", "pending", "approved", "rejected"}]]
    BY <1>1, <1>4
  <2>3. filed' \in [PO -> [content : Content, rules : SUBSET Rule]]
    BY <1>1, <1>4 DEF Row
  <2>4. lastSeq' \in 0..MaxSeq
    BY <1>1, <1>4 DEF ConstantsAssumption
  <2>5. AtStep(s, taken) \in SUBSET Rule
    BY <1>1 DEF AtStep
  <2>6. queued' \in [PO -> SUBSET AnyNote] /\ asked' \in [PO -> SUBSET User]
    BY <1>1, <1>2, <2>5, NotesTyped, Requeued
  <2> QED
    BY <1>4, <2>1, <2>2, <2>3, <2>4, <2>6 DEF TypeOK, AnyNote
<1>8. AsFiled(p)'
  <2>1. filed'[p].rules = taken /\ filed'[p].content = po[p].content
    BY <1>1, <1>4
  <2>2. \A r \in Rule : rows'[p][r] = IF r \in taken THEN "pending" ELSE "none"
    BY <1>1, <1>4
  <2> QED
    BY <1>1, <1>3, <1>6, <2>1, <2>2 DEF AsFiled, RowsOf, InState
<1>9. POSound(p)' /\ Exists(p)'
  BY <1>5, <1>6, <1>8 DEF POSound, Exists
<1> QED
  BY <1>7, <1>9 DEF CommitDone

\* Every commit leaves its PO sound, and the five that may overlap are mild.
LEMMA CommitSound ==
  ASSUME ConstantsAssumption, OverlapInv, NEW w \in Worker, Commit(w)
  PROVE  /\ TypeOK' /\ \A p \in PO : POSound(p)'
         /\ \A p \in PO : p = tx[w].p =>
              Exists(p)' /\ (tx[w].op \notin {"submit", "edit", "reject"} => Milder(p))
<1>1. PICK t \in Transaction : t = tx[w]
  BY DEF OverlapInv, Commit, Idle
<1>2. t.pc = "commit" /\ TypeOK /\ TxSound(t) /\ t.p \in PO /\ POSound(t.p)
  BY <1>1 DEF OverlapInv, Commit, Idle, Transaction
<1>3. CommitDone(t.p) /\ (t.op \notin {"submit", "edit", "reject"} => Milder(t.p))
  <2>1. CASE CommitApprove(t)
    BY <1>2, <2>1, ApproveDone
  <2>2. CASE CommitReject(t)
    BY <1>2, <2>2, RejectDone DEF CommitReject
  <2>3. CASE CommitChanges(t) \/ CommitPostpone(t) \/ CommitResume(t) \/ CommitLifecycle(t)
    BY <1>2, <2>3, RowsStay
  <2>4. CASE CommitEdit(t)
    BY <1>2, <2>4, EditDone DEF CommitEdit
  <2>5. CASE CommitSubmit(t)
    BY <1>2, <2>5, SubmitDone DEF CommitSubmit
  <2> QED
    BY <1>1, <2>1, <2>2, <2>3, <2>4, <2>5 DEF Commit
<1>4. ASSUME NEW q \in PO, q # t.p
      PROVE  POSound(q)'
  <2>1. po'[q] = po[q] /\ rows'[q] = rows[q] /\ filed'[q] = filed[q]
    BY <1>1, <1>2, <1>4, Wrote
  <2>2. POSound(q)
    BY DEF OverlapInv
  <2> QED
    BY <2>1, <2>2 DEF POSound, AsFiled, Settled, RowsOf, InState
<1>5. TypeOK' /\ POSound(t.p)' /\ Exists(t.p)'
  BY <1>3 DEF CommitDone
<1>6. \A p \in PO : POSound(p)'
  BY <1>4, <1>5
<1> QED
  BY <1>1, <1>3, <1>5, <1>6

-----------------------------------------------------------------------------
(* The transactions: what each has read stays harmless.                      *)

\* Nothing is written.
LEMMA SoundStays ==
  ASSUME UNCHANGED vars, NEW v \in Worker, TxSound(tx[v]), tx'[v] = tx[v]
  PROVE  TxSound(tx[v])'
BY DEF TxSound, vars, Exists, Settled, AsFiled, RowsOf, InState

\* Another transaction of the same PO commits something mild.
LEMMA SoundBeside ==
  ASSUME NEW v \in Worker, NEW p \in PO, p = tx[v].p, TxSound(tx[v]), tx'[v] = tx[v],
         Exists(p)', Milder(p), tx[v].op \notin Owner
  PROVE  TxSound(tx[v])'
<1>1. /\ RowsOf(p)' = RowsOf(p)
      /\ InState(p, "pending")' \subseteq InState(p, "pending")
      /\ AsFiled(p) => AsFiled(p)'
      /\ Settled(p) => Settled(p)'
  BY StaysAsFiled
<1> QED
  BY <1>1 DEF TxSound, Exists, Settled, AsFiled, RowsOf, InState

\* A transaction of another PO commits, or another PO is created.
LEMMA SoundApart ==
  ASSUME NEW v \in Worker, NEW p \in PO, p = tx[v].p, TxSound(tx[v]), tx'[v] = tx[v],
         po'[p] = po[p], rows'[p] = rows[p], filed'[p] = filed[p]
  PROVE  TxSound(tx[v])'
BY DEF TxSound, Exists, Settled, AsFiled, RowsOf, InState

LEMMA BeginSound ==
  ASSUME ConstantsAssumption, OverlapInv, NEW w \in Worker, NEW op \in Op, NEW p \in PO,
         NEW u \in User, NEW c \in Content, Begin(w, op, p, u, c)
  PROVE  tx'[w] \in Transaction /\ TxSound(tx[w])'
<1> DEFINE t == [pc |-> IF op \in Deciding THEN "pick" ELSE IF op = "submit" THEN "number" ELSE "commit",
                 op |-> op, p |-> p, u |-> IF op \in Deciding THEN u ELSE NoUser,
                 content |-> IF op = "edit" THEN c ELSE po[p].content,
                 seen |-> po[p], row |-> NoRow, next |-> 0]
<1>1. tx'[w] = t
  BY DEF Begin, OverlapInv
<1>2. op \in AllOps /\ po[p] \in Row /\ po[p].content \in Content
  BY TxAssumption DEF OverlapInv, TypeOK, Row, TxAssumption
<1>3. t \in Transaction
  BY <1>2 DEF Transaction
<1>4. /\ t.p = p /\ t.op = op /\ t.seen = po[p]
      /\ t.pc \notin {"mark", "count"} /\ (t.pc = "commit" <=> op \notin Deciding \cup {"submit"})
      /\ t.pc = "pick" <=> op \in Deciding
      /\ t.pc = "number" => op = "submit"
  BY DEF Deciding
<1> HIDE DEF t
<1>5. Exists(p) /\ Admits(op, p, u) /\ UNCHANGED vars /\ POSound(p)
  BY DEF Begin, OverlapInv
<1>6. po[p].status \in Status
  BY <1>2, <1>5 DEF Row, Exists
<1>7. TxSound(t)
  BY <1>4, <1>5, <1>6 DEF TxSound, POSound, Admits, Exists, Owner, Deciding, LifecycleFrom
<1> QED
  BY <1>1, <1>3, <1>5, <1>7 DEF TxSound, vars, Exists, Settled, AsFiled, RowsOf, InState

LEMMA PickSound ==
  ASSUME ConstantsAssumption, OverlapInv, NEW w \in Worker, Pick(w), tx'[w] # Idle
  PROVE  tx'[w] \in Transaction /\ TxSound(tx[w])'
<1>1. tx[w] \in Transaction /\ tx[w].pc = "pick" /\ TxSound(tx[w]) /\ UNCHANGED vars
  BY DEF OverlapInv, Pick, Idle
<1>2. tx[w].op \in Deciding /\ tx[w].p \in PO
  BY <1>1 DEF TxSound, Transaction
<1>3. PICK r \in OpenTo(tx[w].p, tx[w].seen.step, tx[w].u) : tx' = [tx EXCEPT ![w].pc = "mark", ![w].row = r]
  <2>1. ~(tx' = [tx EXCEPT ![w] = Idle])
    BY DEF OverlapInv
  <2> QED
    BY <2>1 DEF Pick
<1>4. r \in InState(tx[w].p, "pending") /\ r \in Rule /\ StepOf[r] = tx[w].seen.step
  BY <1>3 DEF OpenTo, AtStep, InState
<1>5. tx[w].seen.step # 0
  BY <1>4 DEF ConstantsAssumption
<1>6. tx[w].seen.status \notin Fulfilled /\ r \in RowsOf(tx[w].p)
  BY <1>1, <1>4 DEF TxSound, Settled, RowsOf, InState
<1>7. tx'[w] = [tx[w] EXCEPT !.pc = "mark", !.row = r]
  BY <1>3 DEF OverlapInv
<1>8. /\ tx'[w] \in Transaction
      /\ tx'[w].p = tx[w].p /\ tx'[w].op = tx[w].op /\ tx'[w].seen = tx[w].seen
      /\ tx'[w].pc = "mark" /\ tx'[w].row = r
  BY <1>1, <1>4, <1>7 DEF Transaction
<1> QED
  BY <1>1, <1>2, <1>5, <1>6, <1>8 DEF TxSound, vars, Exists, Settled, AsFiled, RowsOf, InState

LEMMA MarkSound ==
  ASSUME ConstantsAssumption, OverlapInv, NEW w \in Worker, Mark(w)
  PROVE  tx'[w] \in Transaction /\ TxSound(tx[w])'
<1>1. tx[w] \in Transaction /\ tx[w].pc = "mark" /\ TxSound(tx[w]) /\ UNCHANGED vars
  BY DEF OverlapInv, Mark, Idle
<1>2. tx'[w] = [tx[w] EXCEPT !.pc = IF tx[w].op = "approve" THEN "count" ELSE "commit"]
  BY DEF Mark, OverlapInv
<1>3. /\ tx'[w] \in Transaction
      /\ tx'[w].p = tx[w].p /\ tx'[w].op = tx[w].op /\ tx'[w].seen = tx[w].seen
      /\ tx'[w].row = tx[w].row /\ tx'[w].pc = IF tx[w].op = "approve" THEN "count" ELSE "commit"
  BY <1>1, <1>2 DEF Transaction
<1> QED
  BY <1>1, <1>3 DEF TxSound, vars, Exists, Settled, AsFiled, RowsOf, InState

LEMMA CountSound ==
  ASSUME ConstantsAssumption, OverlapInv, NEW w \in Worker, Count(w)
  PROVE  tx'[w] \in Transaction /\ TxSound(tx[w])'
<1>1. tx[w] \in Transaction /\ tx[w].pc = "count" /\ TxSound(tx[w]) /\ UNCHANGED vars
  BY DEF OverlapInv, Count, Idle
<1> DEFINE left == InState(tx[w].p, "pending") \ {tx[w].row}
<1>2. PICK s \in 0..tx[w].seen.step \cup {StepOf[r] : r \in left} :
        /\ \/ AtStep(tx[w].seen.step, left) # {} /\ s = tx[w].seen.step
           \/ AtStep(tx[w].seen.step, left) = {} /\ First(s, left)
           \/ left = {} /\ s = 0
        /\ tx' = [tx EXCEPT ![w].pc = "commit", ![w].next = s]
  BY DEF Count
<1>3. \A r \in left : StepOf[r] \in Nat \ {0}
  BY DEF InState, ConstantsAssumption
<1>4. s \in Nat
  BY <1>2, <1>3
<1>5. tx[w].op = "approve" /\ tx[w].seen.step # 0
  BY <1>1 DEF TxSound, Deciding
<1>6. s = 0 => InState(tx[w].p, "pending") \subseteq {tx[w].row}
  BY <1>2, <1>3, <1>5 DEF First
<1>7. tx'[w] = [tx[w] EXCEPT !.pc = "commit", !.next = s]
  BY <1>2 DEF OverlapInv
<1>8. /\ tx'[w] \in Transaction
      /\ tx'[w].p = tx[w].p /\ tx'[w].op = tx[w].op /\ tx'[w].seen = tx[w].seen
      /\ tx'[w].row = tx[w].row /\ tx'[w].pc = "commit" /\ tx'[w].next = s
  BY <1>1, <1>4, <1>7 DEF Transaction
<1> QED
  BY <1>1, <1>6, <1>8 DEF TxSound, vars, Exists, Settled, AsFiled, RowsOf, InState

LEMMA NumberSound ==
  ASSUME ConstantsAssumption, OverlapInv, NEW w \in Worker, Number(w)
  PROVE  tx'[w] \in Transaction /\ TxSound(tx[w])'
<1>1. tx[w] \in Transaction /\ tx[w].pc = "number" /\ TxSound(tx[w]) /\ UNCHANGED vars
  BY DEF OverlapInv, Number, Idle
<1>2. tx[w].op = "submit" /\ lastSeq \in Nat
  BY <1>1 DEF TxSound, OverlapInv, TypeOK, ConstantsAssumption
<1>3. tx'[w] = [tx[w] EXCEPT !.pc = "commit", !.next = lastSeq]
  BY DEF Number, OverlapInv
<1>4. /\ tx'[w] \in Transaction
      /\ tx'[w].p = tx[w].p /\ tx'[w].op = tx[w].op /\ tx'[w].seen = tx[w].seen
      /\ tx'[w].row = tx[w].row /\ tx'[w].pc = "commit"
  BY <1>1, <1>2, <1>3 DEF Transaction
<1> QED
  BY <1>1, <1>2, <1>4 DEF TxSound, Deciding, vars, Exists, Settled, AsFiled, RowsOf, InState

\* A transaction that is open while another commits.
LEMMA OthersSound ==
  ASSUME {"submit", "edit", "reject"} \subseteq Alone, ConstantsAssumption, OverlapInv,
         NEW w \in Worker, Commit(w), NEW v \in Worker, v # w, tx[v] # Idle
  PROVE  tx'[v] = tx[v] /\ TxSound(tx[v])'
<1>1. tx[v] \in Transaction /\ tx[w] \in Transaction /\ TxSound(tx[v]) /\ TypeOK /\ tx[w] # Idle
  BY DEF OverlapInv, Commit, Idle
<1>2. PICK p \in PO : p = tx[v].p
  BY <1>1 DEF Transaction
<1>3. CASE p = tx[w].p
  <2>1. tx[v].op \notin Alone /\ tx[w].op \notin Alone
    BY <1>1, <1>2, <1>3 DEF OverlapInv, Apart
  <2>2. tx'[v] = tx[v]
    BY <2>1 DEF Commit, Closed
  <2>3. Exists(p)' /\ Milder(p)
    BY <1>3, <2>1, CommitSound
  <2>4. tx[v].op \notin Owner
    BY <2>1 DEF Owner
  <2> QED
    BY <1>1, <1>2, <2>2, <2>3, <2>4, SoundBeside
<1>4. CASE p # tx[w].p
  <2>1. tx'[v] = tx[v]
    BY <1>2, <1>4 DEF Commit, Closed
  <2>2. po'[p] = po[p] /\ rows'[p] = rows[p] /\ filed'[p] = filed[p]
    BY <1>1, <1>4, Wrote
  <2> QED
    BY <1>1, <1>2, <2>1, <2>2, SoundApart
<1> QED
  BY <1>3, <1>4

LEMMA CreateSound ==
  ASSUME ConstantsAssumption, OverlapInv, NEW p \in PO, NEW u \in User, NEW c \in Content,
         CreateDraft(p, u, c), UNCHANGED tx
  PROVE  /\ TypeOK' /\ \A q \in PO : POSound(q)'
         /\ \A w \in Worker : tx[w] # Idle => TxSound(tx[w])'
<1>1. TypeOK' /\ po \in [PO -> Row]
  <2>1. Next
    BY DEF Next, UserStep
  <2> QED
    BY <2>1, NextType DEF OverlapInv, TypeOK
<1>2. /\ rows' = rows /\ filed' = filed /\ po[p].status = "none"
      /\ po' = [po EXCEPT ![p].status = "draft", ![p].by = u, ![p].content = c]
  BY DEF CreateDraft
<1>3. ASSUME NEW q \in PO
      PROVE  POSound(q)'
  <2>1. POSound(q)
    BY DEF OverlapInv
  <2>2. CASE q = p
    <3>1. po[p].step = 0 /\ po[p].heldStatus \in Resumable
      BY <1>2, <2>1, <2>2 DEF POSound, Gone
    <3>2. po'[p].status = "draft" /\ po'[p].step = 0 /\ po'[p].heldStatus = po[p].heldStatus
      BY <1>1, <1>2, <3>1 DEF Row
    <3> QED
      BY <2>2, <3>1, <3>2 DEF POSound, Fulfilled
  <2>3. CASE q # p
    <3>1. po'[q] = po[q]
      BY <1>1, <1>2, <2>3
    <3> QED
      BY <1>2, <2>1, <3>1 DEF POSound, Settled, AsFiled, RowsOf, InState
  <2> QED
    BY <2>2, <2>3
<1>4. ASSUME NEW w \in Worker, tx[w] # Idle
      PROVE  TxSound(tx[w])'
  <2>1. tx[w] \in Transaction /\ TxSound(tx[w]) /\ tx'[w] = tx[w]
    BY <1>4 DEF OverlapInv
  <2>2. PICK q \in PO : q = tx[w].p
    BY <2>1 DEF Transaction
  <2>3. po'[q] = po[q]
    BY <1>1, <1>2, <2>1, <2>2 DEF TxSound, Exists, Gone
  <2> QED
    BY <1>2, <2>1, <2>2, <2>3, SoundApart
<1> QED
  BY <1>1, <1>3, <1>4

LEMMA OverlapNext ==
  ASSUME {"submit", "edit", "reject"} \subseteq Alone, ConstantsAssumption, OverlapInv,
         [TxNext /\ Apart']_txvars
  PROVE  OverlapInv'
<1>1. ASSUME NEW w \in Worker, tx' = [v \in Worker |-> tx'[v]], Apart',
             TypeOK', \A p \in PO : POSound(p)',
             tx'[w] = Idle \/ (tx'[w] \in Transaction /\ TxSound(tx[w])'),
             \A v \in Worker : v # w => tx'[v] = tx[v] /\ (tx[v] # Idle => TxSound(tx[v])')
      PROVE  OverlapInv'
  <2>1. \A v \in Worker : tx'[v] \in Transaction \cup {Idle}
    BY <1>1 DEF OverlapInv
  <2>2. tx' \in [Worker -> Transaction \cup {Idle}]
    BY <1>1, <2>1
  <2>3. \A v \in Worker : tx'[v] # Idle => TxSound(tx[v])'
    BY <1>1
  <2> QED
    BY <1>1, <2>2, <2>3 DEF OverlapInv
<1>2. UNCHANGED vars => TypeOK' /\ \A p \in PO : POSound(p)'
  <2>1. UNCHANGED vars => TypeOK'
    BY NextType DEF OverlapInv
  <2>2. ASSUME UNCHANGED vars, NEW p \in PO
        PROVE  POSound(p)'
    BY <2>2 DEF OverlapInv, vars, POSound, Settled, AsFiled, RowsOf, InState
  <2> QED
    BY <2>1, <2>2
<1>3. UNCHANGED vars => \A v \in Worker : tx'[v] = tx[v] /\ tx[v] # Idle => TxSound(tx[v])'
  BY SoundStays DEF OverlapInv
<1>4. CASE (\E p \in PO, u \in User, c \in Content : CreateDraft(p, u, c) /\ UNCHANGED tx) /\ Apart'
  <2>1. PICK p \in PO, u \in User, c \in Content : CreateDraft(p, u, c) /\ tx' = tx
    BY <1>4
  <2>2. /\ TypeOK' /\ \A q \in PO : POSound(q)'
        /\ \A w \in Worker : tx[w] # Idle => TxSound(tx[w])'
    BY <2>1, CreateSound
  <2> QED
    BY <1>4, <2>1, <2>2 DEF OverlapInv
<1>5. CASE (\E w \in Worker, op \in Op, p \in PO, u \in User, c \in Content : Begin(w, op, p, u, c)) /\ Apart'
  <2>1. PICK w \in Worker, op \in Op, p \in PO, u \in User, c \in Content : Begin(w, op, p, u, c)
    BY <1>5
  <2>2. UNCHANGED vars /\ tx' = [v \in Worker |-> tx'[v]] /\ \A v \in Worker : v # w => tx'[v] = tx[v]
    BY <2>1 DEF Begin, OverlapInv
  <2> QED
    BY <1>1, <1>2, <1>3, <1>5, <2>1, <2>2, BeginSound
<1>6. ASSUME NEW w \in Worker, Step(w), Apart'
      PROVE  OverlapInv'
  <2>1. CASE Commit(w)
    <3>1. tx' = [v \in Worker |-> tx'[v]] /\ tx'[w] = Idle
      BY <2>1 DEF Commit, Closed
    <3>2. ASSUME NEW v \in Worker, v # w
          PROVE  tx'[v] = tx[v] /\ (tx[v] # Idle => TxSound(tx[v])')
      <4>1. CASE tx[v] = Idle
        BY <2>1, <3>2, <4>1 DEF Commit, Closed, Idle
      <4> QED
        BY <2>1, <3>2, <4>1, OthersSound
    <3>3. TypeOK' /\ \A p \in PO : POSound(p)'
      BY <2>1, CommitSound
    <3> QED
      BY <1>1, <1>6, <3>1, <3>2, <3>3
  <2>2. CASE Pick(w) \/ Mark(w) \/ Count(w) \/ Number(w) \/ Rollback(w)
    <3>1. UNCHANGED vars /\ tx' = [v \in Worker |-> tx'[v]] /\ \A v \in Worker : v # w => tx'[v] = tx[v]
      BY <2>2 DEF Pick, Mark, Count, Number, Rollback, OverlapInv
    <3>2. CASE Rollback(w)
      <4>1. tx'[w] = Idle
        BY <3>2 DEF Rollback, OverlapInv
      <4> QED
        BY <1>1, <1>2, <1>3, <1>6, <3>1, <4>1
    <3>3. CASE ~Rollback(w)
      BY <1>1, <1>2, <1>3, <1>6, <2>2, <3>1, <3>3, PickSound, MarkSound, CountSound, NumberSound
    <3> QED
      BY <3>2, <3>3
  <2> QED
    BY <1>6, <2>1, <2>2 DEF Step
<1>7. CASE UNCHANGED txvars
  <2>1. UNCHANGED vars /\ tx' = tx
    BY <1>7 DEF txvars
  <2>2. Apart'
    BY <2>1 DEF OverlapInv, Apart
  <2> QED
    BY <1>2, <1>3, <2>1, <2>2 DEF OverlapInv
<1> QED
  BY <1>4, <1>5, <1>6, <1>7 DEF TxNext

LEMMA OverlapInit == ConstantsAssumption /\ TxInit => OverlapInv
<1> SUFFICES ASSUME ConstantsAssumption, TxInit
             PROVE  OverlapInv
  OBVIOUS
<1>1. TypeOK
  BY InitType DEF TxInit
<1>2. \A p \in PO : POSound(p)
  BY DEF TxInit, Init, POSound, Fulfilled, Editable, Gone, Resumable
<1> QED
  BY <1>1, <1>2 DEF TxInit, OverlapInv, Apart

\* However many handlers overlap, on one PO or on several: as long as a
\* submission, an edit or a decline overlaps no other handler of its PO, what
\* reaches fulfilment was approved by every rule it was filed under, and has
\* the content it was filed with.
THEOREM OverlapApproved ==
  ASSUME {"submit", "edit", "reject"} \subseteq Alone
  PROVE  TxSpec => []ApprovedByEveryRule
<1>1. TxInit => OverlapInv
  BY OverlapInit, ConstantsAssumption
<1>2. OverlapInv /\ [TxNext /\ Apart']_txvars => OverlapInv'
  BY OverlapNext, ConstantsAssumption
<1>3. OverlapInv => ApprovedByEveryRule
  <2> SUFFICES ASSUME OverlapInv, NEW p \in PO, po[p].status \in Fulfilled
               PROVE  /\ filed[p].rules # {}
                      /\ InState(p, "approved") = filed[p].rules
                      /\ RowsOf(p) = filed[p].rules
                      /\ po[p].content = filed[p].content
    BY DEF ApprovedByEveryRule
  <2>1. Settled(p)
    BY DEF OverlapInv, POSound
  <2>2. \A r \in Rule : rows[p][r] \in {"none", "pending", "approved", "rejected"}
    BY DEF OverlapInv, TypeOK
  <2> QED
    BY <2>1, <2>2 DEF Settled, AsFiled, RowsOf, InState
<1> QED
  BY <1>1, <1>2, <1>3, PTL DEF TxSpec
=============================================================================
