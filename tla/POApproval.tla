------------------------------ MODULE POApproval ------------------------------
(***************************************************************************)
(* The approval workflow of purchase_orders.py.  A purchase order (PO) is  *)
(* drafted, submitted to the approvers its rules name, approved step by    *)
(* step, and then sent, received and closed; on the way it can be          *)
(* declined, put on hold, postponed, cancelled or deleted.                 *)
(*                                                                         *)
(* Each handler opens one connection, runs its statements and commits      *)
(* once; here it is one atomic action (POApprovalTx.tla splits the ones    *)
(* that race).  The rows of the database are the state:                    *)
(*   po[p]      row of purchase_orders                                     *)
(*   rows[p]    purchase_order_approvals, one per rule taken at submission *)
(*   queued[p]  notifications still pending or dispatching                 *)
(*   rules      ids of the active approval_rules                           *)
(*   lastSeq    po_number_sequences.last_seq of the year                   *)
(* Two history variables are read by properties only: filed[p], what the   *)
(* last submission of p asked approval for, and asked[p], the approvers    *)
(* who were asked in the current step and not withdrawn since.             *)
(*                                                                         *)
(* A definition whose name ends in _X is a slip of the code that could     *)
(* have been made in the definition after it; no specification uses it,    *)
(* the property it is there for fails with it.                             *)
(***************************************************************************)
EXTENDS Integers, FiniteSets

CONSTANTS
  PO,        \* ids of purchase orders
  User,      \* ids of app_users
  NoUser,    \* SQL NULL in a user column
  Root,      \* users the break-glass check lets act for any approver
  Content,   \* lines, total, department and category of a PO
  Rule,      \* ids of approval rules
  StepOf,    \* step_number of a rule
  Approver,  \* approver_user_id of a rule
  Backup,    \* backup_approver_user_id of a rule, or NoUser
  Matches,   \* the contents a rule applies to
  Fallback,  \* the step-1 rule for the first admin, or {} without admins
  MaxSeq     \* bound: number of PO numbers handed out

ASSUME ConstantsAssumption ==
  /\ NoUser \notin User
  /\ Root \subseteq User
  /\ StepOf \in [Rule -> Nat \ {0}]
  /\ Approver \in [Rule -> User]
  /\ Backup \in [Rule -> User \cup {NoUser}]
  /\ Matches \in [Rule -> SUBSET Content]
  /\ Fallback \subseteq Rule
  /\ \A r \in Fallback : StepOf[r] = 1
  /\ MaxSeq \in Nat

VARIABLES po, rows, queued, rules, lastSeq, filed, asked

vars == <<po, rows, queued, rules, lastSeq, filed, asked>>

-----------------------------------------------------------------------------
Waiting   == {"submitted", "pending_manager", "pending_finance", "pending_director"}
Fulfilled == {"approved", "sent_to_supplier", "partially_received", "received", "closed"}
Terminal  == {"rejected", "cancelled", "closed"}
Editable  == {"draft", "changes_requested"}
Deletable == {"draft", "changes_requested", "rejected", "cancelled"}
Gone      == {"none", "deleted"}     \* no row: not created yet, or deleted
Status    == Waiting \cup Fulfilled \cup Terminal \cup Editable \cup {"postponed"}

StatusForStep(n) ==
  IF n = 1 THEN "pending_manager"
  ELSE IF n = 2 THEN "pending_finance"
  ELSE IF n = 3 THEN "pending_director"
  ELSE "submitted"

\* "request" is approval_required, "reminder" any of the three timed ones,
\* "update" is po_status_update.
ApprovalEvent == {"request", "reminder"}
Note == User \X (ApprovalEvent \cup {"update"})

Row == [status : Status \cup Gone, step : Nat, number : Nat,
        by : User \cup {NoUser}, content : Content,
        heldStatus : Status \cup {"null"}, heldStep : Nat]

\* Of the active rules the ones that match, or else the first admin.
LoadRules(c) ==
  LET matching == {r \in rules : c \in Matches[r]}
  IN  IF matching = {} THEN Fallback ELSE matching

ApprovalNotes(ns)      == {n \in ns : n[2] \in ApprovalEvent}
CancelAll(ns)          == ns \ ApprovalNotes(ns)
CancelForUser(ns, u)   == {n \in ns : n[1] = u => n[2] \notin ApprovalEvent}
NotesFor(rs)           == {Approver[r] : r \in rs} \X ApprovalEvent
ToldRequester(p)       == {<<po[p].by, "update">>}
First(s, rs)           == /\ \E r \in rs : StepOf[r] = s
                          /\ \A r \in rs : s <= StepOf[r]
AtStep(s, rs)          == {r \in rs : StepOf[r] = s}
InState(p, st)         == {r \in Rule : rows[p][r] = st}
RowsOf(p)              == {r \in Rule : rows[p][r] # "none"}

Exists(p) == po[p].status \notin Gone

-----------------------------------------------------------------------------
\* _next_po_number, within the transaction of the submission.
NextNumber == lastSeq + 1

Init ==
  /\ \E c \in Content :
       po = [p \in PO |-> [status |-> "none", step |-> 0, number |-> 0,
                           by |-> NoUser, content |-> c,
                           heldStatus |-> "null", heldStep |-> 0]]
  /\ rows = [p \in PO |-> [r \in Rule |-> "none"]]
  /\ queued = [p \in PO |-> {}]
  /\ rules \in SUBSET Rule
  /\ lastSeq = 0
  /\ filed = [p \in PO |-> [content |-> po[p].content, rules |-> {}]]
  /\ asked = [p \in PO |-> {}]

CreateDraft(p, u, c) ==
  /\ po[p].status = "none"
  /\ po' = [po EXCEPT ![p].status = "draft", ![p].by = u, ![p].content = c]
  /\ UNCHANGED <<rows, queued, rules, lastSeq, filed, asked>>

\* The edit forgets the status.
UpdateDraft_X(p, u, c) ==
  /\ Exists(p)
  /\ po[p].by = u
  /\ po' = [po EXCEPT ![p].content = c]
  /\ UNCHANGED <<rows, queued, rules, lastSeq, filed, asked>>

\* Only the requester, and only while the PO is editable.
UpdateDraft(p, u, c) ==
  /\ po[p].status \in Editable
  /\ po[p].by = u
  /\ po' = [po EXCEPT ![p].content = c]
  /\ UNCHANGED <<rows, queued, rules, lastSeq, filed, asked>>

\* Rebuilds the approval rows from the rules as they are now, and asks the
\* approvers of the first step.  Every submission takes a new PO number.
Submit(p, u) ==
  /\ po[p].status \in Editable
  /\ po[p].by = u
  /\ lastSeq < MaxSeq
  /\ \E s \in {StepOf[r] : r \in LoadRules(po[p].content)} :
       LET taken == LoadRules(po[p].content)
           first == AtStep(s, taken)
       IN  /\ First(s, taken)
           /\ lastSeq' = NextNumber
           /\ rows' = [rows EXCEPT ![p] =
                         [r \in Rule |-> IF r \in taken THEN "pending" ELSE "none"]]
           /\ po' = [po EXCEPT ![p].number = NextNumber, ![p].step = s,
                               ![p].status = StatusForStep(s)]
           /\ queued' = [queued EXCEPT ![p] = CancelAll(@) \cup NotesFor(first)]
           /\ asked' = [asked EXCEPT ![p] = {Approver[r] : r \in first}]
           /\ filed' = [filed EXCEPT ![p] = [content |-> po[p].content, rules |-> taken]]
  /\ UNCHANGED rules

-----------------------------------------------------------------------------
\* The query forgets the step.
Actionable_X(p, u) == {r \in InState(p, "pending") : u \in {Approver[r], Backup[r]}}

\* The pending rows of the current step that u may decide.  The code takes
\* the one with the lowest id; the order of ids is the administrator's.
Actionable(p, u) ==
  LET open == AtStep(po[p].step, InState(p, "pending"))
      mine == {r \in open : u \in {Approver[r], Backup[r]}}
  IN  IF mine = {} /\ u \in Root THEN open ELSE mine

\* A partial approval taken for granted, and one that withdraws everybody.
ApprovePartial_X(p, u, r) ==
  /\ queued' = [queued EXCEPT ![p] = CancelForUser(@, u)]
  /\ asked' = [asked EXCEPT ![p] = @ \ {u}]
  /\ UNCHANGED po

ApprovePartialAll_X(p, u, r) ==
  /\ AtStep(po[p].step, InState(p, "pending") \ {r}) # {}
  /\ queued' = [queued EXCEPT ![p] = CancelAll(@)]
  /\ asked' = [asked EXCEPT ![p] = {}]
  /\ UNCHANGED po

\* The rest of the step is still open: withdraw what the actor was sent.
ApprovePartial(p, u, r) ==
  /\ AtStep(po[p].step, InState(p, "pending") \ {r}) # {}
  /\ queued' = [queued EXCEPT ![p] = CancelForUser(@, u)]
  /\ asked' = [asked EXCEPT ![p] = @ \ {u}]
  /\ UNCHANGED po

\* The reminders of the step left behind stay (as before 2eb4ace).
ApproveAdvance_X(p, r) ==
  LET left == InState(p, "pending") \ {r}
  IN  /\ AtStep(po[p].step, left) = {}
      /\ \E s \in {StepOf[q] : q \in left} :
           LET next == AtStep(s, RowsOf(p))
           IN  /\ First(s, left)
               /\ po' = [po EXCEPT ![p].step = s, ![p].status = StatusForStep(s)]
               /\ queued' = [queued EXCEPT ![p] = @ \cup NotesFor(next)]
               /\ asked' = [asked EXCEPT ![p] = {Approver[q] : q \in next}]

\* The step is complete and a later one is open: ask its approvers.
ApproveAdvance(p, r) ==
  LET left == InState(p, "pending") \ {r}
  IN  /\ AtStep(po[p].step, left) = {}
      /\ \E s \in {StepOf[q] : q \in left} :
           LET next == AtStep(s, RowsOf(p))
           IN  /\ First(s, left)
               /\ po' = [po EXCEPT ![p].step = s, ![p].status = StatusForStep(s)]
               /\ queued' = [queued EXCEPT ![p] = CancelAll(@) \cup NotesFor(next)]
               /\ asked' = [asked EXCEPT ![p] = {Approver[q] : q \in next}]

\* The end of a step taken for the end of the approval.
ApproveFinal_X(p, r) ==
  /\ AtStep(po[p].step, InState(p, "pending") \ {r}) = {}
  /\ po' = [po EXCEPT ![p].status = "approved", ![p].step = 0]
  /\ queued' = [queued EXCEPT ![p] = CancelAll(@) \cup ToldRequester(p)]
  /\ asked' = [asked EXCEPT ![p] = {}]

\* The last open row: the PO is approved and the requester told.
ApproveFinal(p, r) ==
  /\ InState(p, "pending") \ {r} = {}
  /\ po' = [po EXCEPT ![p].status = "approved", ![p].step = 0]
  /\ queued' = [queued EXCEPT ![p] = CancelAll(@) \cup ToldRequester(p)]
  /\ asked' = [asked EXCEPT ![p] = {}]

\* A terminal PO is answered with its status and left alone.
ApproveStep(p, u) ==
  /\ Exists(p)
  /\ po[p].status \notin Terminal
  /\ \E r \in Actionable(p, u) :
       /\ \/ ApprovePartial(p, u, r)
          \/ ApproveAdvance(p, r)
          \/ ApproveFinal(p, r)
       /\ rows' = [rows EXCEPT ![p][r] = "approved"]
  /\ UNCHANGED <<rules, lastSeq, filed>>

\* What reject_po, request_changes and postpone_po do alike: none of them
\* looks at the status, an actionable row is enough.
LeaveQueue(p, u, row) ==
  /\ Exists(p)
  /\ po' = [po EXCEPT ![p] = row]
  /\ queued' = [queued EXCEPT ![p] = CancelAll(@) \cup ToldRequester(p)]
  /\ asked' = [asked EXCEPT ![p] = {}]
  /\ UNCHANGED <<rules, lastSeq, filed>>

\* A decline that keeps current_approval_step.
RejectPO_X(p, u) ==
  \E r \in Actionable(p, u) :
    /\ rows' = [rows EXCEPT ![p][r] = "rejected"]
    /\ LeaveQueue(p, u, [po[p] EXCEPT !.status = "rejected"])

RejectPO(p, u) ==
  \E r \in Actionable(p, u) :
    /\ rows' = [rows EXCEPT ![p][r] = "rejected"]
    /\ LeaveQueue(p, u, [po[p] EXCEPT !.status = "rejected", !.step = 0])

RequestChanges(p, u) ==
  /\ Actionable(p, u) # {}
  /\ LeaveQueue(p, u, [po[p] EXCEPT !.status = "changes_requested", !.step = 0])
  /\ UNCHANGED rows

\* A postponement that does not note the step.
PostponePO_X(p, u) ==
  /\ Actionable(p, u) # {}
  /\ po[p].step > 0
  /\ LeaveQueue(p, u, [po[p] EXCEPT !.status = "postponed", !.step = 0,
                                    !.heldStatus = po[p].status])
  /\ UNCHANGED rows

PostponePO(p, u) ==
  /\ Actionable(p, u) # {}
  /\ po[p].step > 0
  /\ LeaveQueue(p, u, [po[p] EXCEPT !.status = "postponed", !.step = 0,
                                    !.heldStatus = po[p].status,
                                    !.heldStep = po[p].step])
  /\ UNCHANGED rows

-----------------------------------------------------------------------------
\* The scheduler, once the resume date has come (any time after the
\* postponement: dates are not modelled).
ResumePostponed(p) ==
  /\ po[p].status = "postponed"
  /\ po[p].heldStatus # "null"
  /\ po[p].heldStep > 0
  /\ LET open == AtStep(po[p].heldStep, InState(p, "pending"))
     IN  /\ queued' = [queued EXCEPT ![p] = @ \cup NotesFor(open) \cup ToldRequester(p)]
         /\ asked' = [asked EXCEPT ![p] = {Approver[r] : r \in open}]
  /\ po' = [po EXCEPT ![p].status = po[p].heldStatus, ![p].step = po[p].heldStep,
                      ![p].heldStatus = "null", ![p].heldStep = 0]
  /\ UNCHANGED <<rows, rules, lastSeq, filed>>

\* A target that is no status.
LifecycleFrom_X == [sent |-> {"approved"}, cancelled |-> Status]

\* The statuses each fulfilment target accepts; a cancellation accepts any.
LifecycleFrom == [sent_to_supplier   |-> {"approved"},
                  received           |-> {"sent_to_supplier", "partially_received"},
                  partially_received |-> {"sent_to_supplier", "partially_received"},
                  closed             |-> {"received", "partially_received"},
                  cancelled          |-> Status]

\* Leaves current_approval_step and the approval rows as they are.
UpdateLifecycle(p, target) ==
  /\ po[p].status \in LifecycleFrom[target]
  /\ po' = [po EXCEPT ![p].status = target]
  /\ queued' = [queued EXCEPT ![p] = CancelAll(@)]
  /\ asked' = [asked EXCEPT ![p] = {}]
  /\ UNCHANGED <<rows, rules, lastSeq, filed>>

\* The notifications stay; fetch_due_notifications drops them later.
DeletePO(p) ==
  /\ po[p].status \in Deletable
  /\ po' = [po EXCEPT ![p].status = "deleted", ![p].step = 0]
  /\ rows' = [rows EXCEPT ![p] = [r \in Rule |-> "none"]]
  /\ UNCHANGED <<queued, rules, lastSeq, filed, asked>>

\* add_approval_rule, delete_approval_rule and update_approval_rule; an
\* edited rule is another member of Rule.
AddRule(r) ==
  /\ r \notin rules
  /\ rules' = rules \cup {r}
  /\ UNCHANGED <<po, rows, queued, lastSeq, filed, asked>>

DeleteRule(r) ==
  /\ r \in rules
  /\ rules' = rules \ {r}
  /\ UNCHANGED <<po, rows, queued, lastSeq, filed, asked>>

\* One sweep of fetch_due_notifications: approval notes of every PO that is
\* not waiting are dropped.
SweepNotifications ==
  /\ \E p \in PO : po[p].status \notin Waiting /\ ApprovalNotes(queued[p]) # {}
  /\ queued' = [p \in PO |-> IF po[p].status \in Waiting THEN queued[p]
                             ELSE CancelAll(queued[p])]
  /\ UNCHANGED <<po, rows, rules, lastSeq, filed, asked>>

\* A due note is dispatched (PONotifications.tla has the steps of it).
Deliver(p, n) ==
  /\ n \in queued[p]
  /\ n[2] \in ApprovalEvent => po[p].status \in Waiting
  /\ queued' = [queued EXCEPT ![p] = @ \ {n}]
  /\ UNCHANGED <<po, rows, rules, lastSeq, filed, asked>>

-----------------------------------------------------------------------------
UserStep(p, u) ==
  \/ \E c \in Content : CreateDraft(p, u, c) \/ UpdateDraft(p, u, c)
  \/ Submit(p, u)
  \/ ApproveStep(p, u)
  \/ RejectPO(p, u)
  \/ RequestChanges(p, u)
  \/ PostponePO(p, u)

Next ==
  \/ \E p \in PO, u \in User : UserStep(p, u)
  \/ \E p \in PO : ResumePostponed(p) \/ DeletePO(p)
  \/ \E p \in PO, target \in DOMAIN LifecycleFrom : UpdateLifecycle(p, target)
  \/ \E r \in Rule : AddRule(r) \/ DeleteRule(r)
  \/ \E p \in PO, n \in Note : Deliver(p, n)
  \/ SweepNotifications

Spec == Init /\ [][Next]_vars

\* The scheduler thread calls resume_due_postponed_pos on every tick, and
\* every resume date comes.
FairSpec == Spec /\ \A p \in PO : WF_vars(ResumePostponed(p))

-----------------------------------------------------------------------------
\* Type invariant.
TypeOK ==
  /\ po \in [PO -> Row]
  /\ rows \in [PO -> [Rule -> {"none", "pending", "approved", "rejected"}]]
  /\ queued \in [PO -> SUBSET ((User \cup {NoUser}) \X (ApprovalEvent \cup {"update"}))]
  /\ rules \in SUBSET Rule
  /\ lastSeq \in 0..MaxSeq
  /\ filed \in [PO -> [content : Content, rules : SUBSET Rule]]
  /\ asked \in [PO -> SUBSET User]

\* A PO that waits for approval can be decided: its status is the one of its
\* current step, and a row of that step is open (approve_step moves the step
\* on exactly when _complete_step_if_ready finds none).
WaitingIsActionable ==
  \A p \in PO : po[p].status \in Waiting =>
    /\ po[p].step > 0
    /\ po[p].status = StatusForStep(po[p].step)
    /\ AtStep(po[p].step, InState(p, "pending")) # {}

\* Approvals are sequential: while a step is open every row of an earlier
\* step is approved and no row of a later one is decided, also across a
\* postponement (resume_from_step).
StepsInOrder ==
  \A p \in PO : \A r \in RowsOf(p) :
    LET s == IF po[p].status = "postponed" THEN po[p].heldStep ELSE po[p].step
    IN  s > 0 => /\ StepOf[r] < s => rows[p][r] = "approved"
                 /\ StepOf[r] > s => rows[p][r] = "pending"
                 /\ rows[p][r] # "rejected"

\* A PO that reached fulfilment was approved by every rule that was in force
\* when it was last submitted, and carries the lines it was submitted with,
\* whatever edits of the PO and of the rules came between.  Handlers are atomic
\* here; for the ones that overlap see Apart in POApprovalTx.
ApprovedByEveryRule ==
  \A p \in PO : po[p].status \in Fulfilled =>
    /\ filed[p].rules # {}
    /\ InState(p, "approved") = filed[p].rules
    /\ RowsOf(p) = filed[p].rules
    /\ po[p].content = filed[p].content

\* Reminders follow the workflow: a queued approval note of a waiting PO is
\* for an approver of its current step, and a PO that was approved, declined,
\* put on hold or postponed has none queued (CHANGELOG.md, 2eb4ace).
RemindersFollowStep ==
  \A p \in PO : \A n \in ApprovalNotes(queued[p]) :
    /\ po[p].status \in Waiting =>
         n[1] \in {Approver[r] : r \in AtStep(po[p].step, RowsOf(p))}
    /\ po[p].status \in Waiting \cup {"cancelled", "deleted"}

\* Nobody waits for an approver who was not asked: as long as no user has two
\* parts in one step, the approver of every open row of the current step has
\* been sent the request in this step.
OneRolePerStep(p) ==
  \A r, q \in RowsOf(p) : r # q /\ StepOf[r] = StepOf[q] =>
    /\ Approver[r] \notin {Approver[q], Backup[q]}
    /\ Approver[q] \notin {Approver[r], Backup[r]}
ApproversAsked ==
  \A p \in PO : po[p].status \in Waiting /\ OneRolePerStep(p) =>
    \A r \in AtStep(po[p].step, InState(p, "pending")) : Approver[r] \in asked[p]

\* A declined or closed PO never comes back: only a cancellation or a
\* deletion is left.  reject_po and the others test no status, they rely on
\* current_approval_step being 0.
DeclinedStaysDeclined ==
  [][\A p \in PO : po[p].status \in {"rejected", "closed"} =>
       po'[p].status \in {po[p].status, "cancelled", "deleted"}]_vars

\* What is under approval does not change: while a PO waits or is postponed,
\* no edit reaches its lines and no row is added or withdrawn.
LockedWhileWaiting ==
  [][\A p \in PO :
       po[p].status \in Waiting \cup {"postponed"} /\ po'[p].status # "deleted" =>
         /\ po'[p].content = po[p].content
         /\ \A r \in Rule : (rows'[p][r] = "none") <=> (rows[p][r] = "none")]_vars

\* A postponed PO returns: the scheduler takes it back to the queue unless
\* somebody cancels it first.
PostponedReturns ==
  \A p \in PO : po[p].status = "postponed" ~> po[p].status # "postponed"

\* Refuted.  TERMINAL_STATUSES (purchase_orders.py:43) names cancelled; a
\* terminal PO should only be deleted.  update_lifecycle_status leaves the
\* step and the open rows of a cancelled PO, so it can still be declined, put
\* on hold (and then edited and resubmitted) or postponed.
CancelledIsTerminal ==
  [][\A p \in PO : po[p].status = "cancelled" =>
       po'[p].status \in {"cancelled", "deleted"}]_vars

\* Refuted.  Reminders should not "still fire after this user approved"
\* (comment in approve_step): a queued approval note of a waiting PO is for
\* somebody whose row is open.  When the backup approves one of several rows
\* of a step, only the notes of the backup are withdrawn.
NoReminderForDecidedRow ==
  \A p \in PO : po[p].status \in Waiting =>
    \A n \in ApprovalNotes(queued[p]) :
      \E r \in AtStep(po[p].step, InState(p, "pending")) : Approver[r] = n[1]

-----------------------------------------------------------------------------
(* The inductive invariant.  The safety invariants above are not inductive: *)
(* they say nothing of a postponed PO, of the step a cancelled PO keeps, or *)
(* of what its rows were filed for.                                         *)

\* Under decision: somebody is entitled to act, or will be after the resume.
InDecision(p) == po[p].step > 0 \/ po[p].status = "postponed"
StepHeld(p)   == IF po[p].status = "postponed" THEN po[p].heldStep ELSE po[p].step

\* Only a waiting or a cancelled PO has a current step.
StepGuards(p) ==
  /\ po[p].step > 0 => po[p].status \in Waiting \cup {"cancelled"}
  /\ po[p].status \in Waiting =>
       po[p].step > 0 /\ po[p].status = StatusForStep(po[p].step)
  /\ po[p].status = "postponed" =>
       /\ po[p].heldStep > 0
       /\ po[p].heldStatus \in {StatusForStep(po[p].heldStep), "cancelled"}

RowsInOrder(p) ==
  InDecision(p) =>
    /\ \E r \in Rule : rows[p][r] = "pending" /\ StepOf[r] = StepHeld(p)
    /\ \A r \in Rule : rows[p][r] # "none" =>
         /\ StepOf[r] < StepHeld(p) => rows[p][r] = "approved"
         /\ StepOf[r] > StepHeld(p) => rows[p][r] = "pending"
         /\ rows[p][r] # "rejected"

FiledRows(p) ==
  /\ InDecision(p) \/ po[p].status \in Fulfilled =>
       /\ filed[p].rules # {}
       /\ \A r \in Rule : rows[p][r] # "none" <=> r \in filed[p].rules
       /\ po[p].content = filed[p].content
  /\ po[p].status \in Fulfilled =>
       \A r \in Rule : r \in filed[p].rules => rows[p][r] = "approved"

QueueFollows(p) ==
  \A n \in queued[p] : n[2] \in ApprovalEvent =>
    /\ po[p].status \in Waiting =>
         \E r \in Rule : /\ rows[p][r] # "none"
                         /\ StepOf[r] = po[p].step
                         /\ Approver[r] = n[1]
    /\ po[p].status \in Waiting \cup {"cancelled", "deleted"}

POInv(p) == StepGuards(p) /\ RowsInOrder(p) /\ FiledRows(p) /\ QueueFollows(p)

\* Inductive, and implies the safety invariants of the workflow.
IInv == TypeOK /\ \A p \in PO : POInv(p)
=============================================================================
