----------------------------- MODULE POApprovalTx -----------------------------
(***************************************************************************)
(* The PO handlers as the database runs them.  Every handler is one        *)
(* transaction at READ COMMITTED (db_runtime.get_conn sets no level and    *)
(* turns autocommit off), and handlers of several requests overlap: each   *)
(* statement sees what others have committed by then, an UPDATE of a row   *)
(* waits for whoever changed it and then overwrites it, and nothing that   *)
(* was read is checked again.                                              *)
(*                                                                         *)
(* A handler reads the PO, picks an approval row, updates it (its lock is  *)
(* held until the commit), counts what is left, and writes the PO together *)
(* with the notifications.  Its last writes and its commit are one step:   *)
(* nobody sees them in between.  POApproval.tla is the serial case.        *)
(*                                                                         *)
(* Definitions ending in _X are slips, see POApproval.tla.                 *)
(***************************************************************************)
EXTENDS POApproval

CONSTANTS
  Worker,  \* threads that run handlers
  Op,      \* the handlers they run: a subset of AllOps
  Alone,   \* handlers that no other handler of the same PO overlaps
  NoRow    \* the id of a row that was deleted, or that is not chosen yet

Deciding == {"approve", "reject", "changes", "postpone"}
Owner    == {"submit", "edit"}
AllOps   == Deciding \cup Owner \cup {"resume"} \cup DOMAIN LifecycleFrom

ASSUME TxAssumption ==
  /\ {Op, Alone} \subseteq SUBSET AllOps
  /\ NoRow \notin Rule

VARIABLE tx  \* the open transaction of each worker

txvars == <<vars, tx>>

Idle == [pc |-> "idle"]

TxInit == Init /\ tx = [w \in Worker |-> Idle]

-----------------------------------------------------------------------------
\* SELECT the PO and pass, or fail, the checks on its status and requester.
Admits(op, p, u) ==
  /\ op = "approve" => po[p].status \notin Terminal
  /\ op \in Owner => po[p].status \in Editable /\ po[p].by = u
  /\ op = "resume" => /\ po[p].status = "postponed"
                      /\ po[p].heldStatus # "null" /\ po[p].heldStep > 0
  /\ op \in DOMAIN LifecycleFrom => po[p].status \in LifecycleFrom[op]

Begin(w, op, p, u, c) ==
  /\ tx[w] = Idle
  /\ Exists(p)
  /\ Admits(op, p, u)
  /\ tx' = [tx EXCEPT ![w] =
              [pc |-> IF op \in Deciding THEN "pick"
                      ELSE IF op = "submit" THEN "number" ELSE "commit",
               op |-> op, p |-> p, u |-> IF op \in Deciding THEN u ELSE NoUser,
               content |-> IF op = "edit" THEN c ELSE po[p].content,
               seen |-> po[p], row |-> NoRow, next |-> 0]]
  /\ UNCHANGED vars

\* _pending_approval_row_for_actor, for the step the PO had when it was read.
OpenTo(p, s, u) ==
  LET open == AtStep(s, InState(p, "pending"))
      mine == {r \in open : u \in {Approver[r], Backup[r]}}
  IN  IF mine = {} /\ u \in Root THEN open ELSE mine

Pick(w) ==
  /\ tx[w].pc = "pick"
  /\ LET rs == OpenTo(tx[w].p, tx[w].seen.step, tx[w].u)
     IN  \/ \E r \in rs : tx' = [tx EXCEPT ![w].pc = "mark", ![w].row = r]
         \/ rs = {} /\ tx' = [tx EXCEPT ![w] = Idle]
  /\ UNCHANGED vars

\* The approval rows a transaction has updated and not committed.
Locked(v, p) ==
  IF tx[v].pc \in {"count", "commit"} /\ tx[v].p = p THEN {tx[v].row} \ {NoRow} ELSE {}

\* UPDATE of the row by its id; it waits for the lock, and finds no row if a
\* resubmission has deleted it.
Mark(w) ==
  /\ tx[w].pc = "mark"
  /\ \A v \in Worker : tx[w].row \notin Locked(v, tx[w].p)
  /\ tx' = [tx EXCEPT ![w].pc = IF tx[w].op = "approve" THEN "count" ELSE "commit"]
  /\ UNCHANGED vars

\* The count does not see the update of its own transaction.
Count_X(w) ==
  /\ tx[w].pc = "count"
  /\ LET left == InState(tx[w].p, "pending")
     IN  \E s \in 0..tx[w].seen.step \cup {StepOf[r] : r \in left} :
           /\ \/ AtStep(tx[w].seen.step, left) # {} /\ s = tx[w].seen.step
              \/ AtStep(tx[w].seen.step, left) = {} /\ First(s, left)
              \/ left = {} /\ s = 0
           /\ tx' = [tx EXCEPT ![w].pc = "commit", ![w].next = s]
  /\ UNCHANGED vars

\* The count sees the updates of transactions that have not committed.
CountDirty_X(w) ==
  /\ tx[w].pc = "count"
  /\ LET left == InState(tx[w].p, "pending") \ UNION {Locked(v, tx[w].p) : v \in Worker}
     IN  \E s \in 0..tx[w].seen.step \cup {StepOf[r] : r \in left} :
           /\ \/ AtStep(tx[w].seen.step, left) # {} /\ s = tx[w].seen.step
              \/ AtStep(tx[w].seen.step, left) = {} /\ First(s, left)
              \/ left = {} /\ s = 0
           /\ tx' = [tx EXCEPT ![w].pc = "commit", ![w].next = s]
  /\ UNCHANGED vars

\* _complete_step_if_ready and the MIN after it: own update and committed
\* ones.  next is where the PO goes: the step it is at, a later one, or 0.
Count(w) ==
  /\ tx[w].pc = "count"
  /\ LET left == InState(tx[w].p, "pending") \ {tx[w].row}
     IN  \E s \in 0..tx[w].seen.step \cup {StepOf[r] : r \in left} :
           /\ \/ AtStep(tx[w].seen.step, left) # {} /\ s = tx[w].seen.step
              \/ AtStep(tx[w].seen.step, left) = {} /\ First(s, left)
              \/ left = {} /\ s = 0
           /\ tx' = [tx EXCEPT ![w].pc = "commit", ![w].next = s]
  /\ UNCHANGED vars

\* The SELECT of _next_po_number; its UPDATE comes with the commit, and waits
\* only for the lock of the sequence row.
Number(w) ==
  /\ tx[w].pc = "number"
  /\ tx' = [tx EXCEPT ![w].pc = "commit", ![w].next = lastSeq]
  /\ UNCHANGED vars

-----------------------------------------------------------------------------
\* UPDATE of status and current_approval_step; other columns stay as they are
\* by now.
SetPO(p, status, step) == po' = [po EXCEPT ![p].status = status, ![p].step = step]

SetRow(t, value) ==
  rows' = IF t.row = NoRow THEN rows ELSE [rows EXCEPT ![t.p][t.row] = value]

Requeue(p, notes, approvers) ==
  /\ queued' = [queued EXCEPT ![p] = CancelAll(@) \cup notes]
  /\ asked' = [asked EXCEPT ![p] = approvers]

CommitApprove(t) ==
  /\ t.op = "approve"
  /\ SetRow(t, "approved")
  /\ \/ /\ t.next = t.seen.step
        /\ queued' = [queued EXCEPT ![t.p] = CancelForUser(@, t.u)]
        /\ asked' = [asked EXCEPT ![t.p] = @ \ {t.u}]
        /\ UNCHANGED po
     \/ /\ t.next \notin {0, t.seen.step}
        /\ SetPO(t.p, StatusForStep(t.next), t.next)
        /\ LET next == AtStep(t.next, RowsOf(t.p))
           IN  Requeue(t.p, NotesFor(next), {Approver[r] : r \in next})
     \/ /\ t.next = 0
        /\ SetPO(t.p, "approved", 0)
        /\ Requeue(t.p, ToldRequester(t.p), {})
  /\ UNCHANGED <<rules, lastSeq, filed>>

CommitReject(t) ==
  /\ t.op = "reject"
  /\ SetRow(t, "rejected")
  /\ SetPO(t.p, "rejected", 0)
  /\ Requeue(t.p, ToldRequester(t.p), {})
  /\ UNCHANGED <<rules, lastSeq, filed>>

CommitChanges(t) ==
  /\ t.op = "changes"
  /\ SetPO(t.p, "changes_requested", 0)
  /\ Requeue(t.p, ToldRequester(t.p), {})
  /\ UNCHANGED <<rows, rules, lastSeq, filed>>

CommitPostpone(t) ==
  /\ t.op = "postpone"
  /\ po' = [po EXCEPT ![t.p].status = "postponed", ![t.p].step = 0,
                      ![t.p].heldStatus = t.seen.status, ![t.p].heldStep = t.seen.step]
  /\ Requeue(t.p, ToldRequester(t.p), {})
  /\ UNCHANGED <<rows, rules, lastSeq, filed>>

CommitResume(t) ==
  /\ t.op = "resume"
  /\ po' = [po EXCEPT ![t.p].status = t.seen.heldStatus, ![t.p].step = t.seen.heldStep,
                      ![t.p].heldStatus = "null", ![t.p].heldStep = 0]
  /\ LET open == AtStep(t.seen.heldStep, InState(t.p, "pending"))
     IN  /\ queued' = [queued EXCEPT ![t.p] = @ \cup NotesFor(open) \cup ToldRequester(t.p)]
         /\ asked' = [asked EXCEPT ![t.p] = {Approver[r] : r \in open}]
  /\ UNCHANGED <<rows, rules, lastSeq, filed>>

CommitLifecycle(t) ==
  /\ t.op \in DOMAIN LifecycleFrom
  /\ po' = [po EXCEPT ![t.p].status = t.op]
  /\ Requeue(t.p, {}, {})
  /\ UNCHANGED <<rows, rules, lastSeq, filed>>

CommitEdit(t) ==
  /\ t.op = "edit"
  /\ po' = [po EXCEPT ![t.p].content = t.content]
  /\ UNCHANGED <<rows, queued, rules, lastSeq, filed, asked>>

\* The rules are matched with the PO as it was read.  The DELETE of the old
\* rows waits for everybody who has updated one.
CommitSubmit(t) ==
  LET taken == LoadRules(t.seen.content)
  IN  /\ t.op = "submit"
      /\ t.next < MaxSeq
      /\ \A v \in Worker : Locked(v, t.p) = {}
      /\ lastSeq' = t.next + 1
      /\ rows' = [rows EXCEPT ![t.p] =
                    [r \in Rule |-> IF r \in taken THEN "pending" ELSE "none"]]
      /\ \E s \in {StepOf[r] : r \in taken} :
           LET first == AtStep(s, taken)
           IN  /\ First(s, taken)
               /\ po' = [po EXCEPT ![t.p].number = t.next + 1, ![t.p].step = s,
                                   ![t.p].status = StatusForStep(s)]
               /\ Requeue(t.p, NotesFor(first), {Approver[r] : r \in first})
      /\ filed' = [filed EXCEPT ![t.p] = [content |-> t.seen.content, rules |-> taken]]
      /\ UNCHANGED rules

\* A submission deletes the rows that others have only picked so far.
Closed(w) ==
  [v \in Worker |->
     IF v = w THEN Idle
     ELSE IF tx[w].op = "submit" /\ tx[v].pc = "mark" /\ tx[v].p = tx[w].p
     THEN [tx[v] EXCEPT !.row = NoRow]
     ELSE tx[v]]

Commit(w) ==
  /\ tx[w].pc = "commit"
  /\ \/ CommitApprove(tx[w])
     \/ CommitReject(tx[w])
     \/ CommitChanges(tx[w])
     \/ CommitPostpone(tx[w])
     \/ CommitResume(tx[w])
     \/ CommitLifecycle(tx[w])
     \/ CommitEdit(tx[w])
     \/ CommitSubmit(tx[w])
  /\ tx' = Closed(w)

\* The connection or the process is lost: the database rolls back.
Rollback(w) ==
  /\ tx[w] # Idle
  /\ tx' = [tx EXCEPT ![w] = Idle]
  /\ UNCHANGED vars

Step(w) == Pick(w) \/ Mark(w) \/ Count(w) \/ Number(w) \/ Commit(w) \/ Rollback(w)

TxNext ==
  \/ \E p \in PO, u \in User, c \in Content : CreateDraft(p, u, c) /\ UNCHANGED tx
  \/ \E w \in Worker, op \in Op, p \in PO, u \in User, c \in Content : Begin(w, op, p, u, c)
  \/ \E w \in Worker : Step(w)

\* How much handlers overlap is the instance's choice: in the code, without any
\* limit.  The row of the sequence is one for all POs.
\*
\* ApprovedByEveryRule needs submit, edit and reject in Alone.  Beside others,
\* a decline of one row that commits before an approval of another has counted
\* leaves an approved PO with a declined row; an edit beside a submission or an
\* approval changes lines that are already filed; a submission beside two
\* others replaces rows that an approval goes by.
Apart ==
  \A v, w \in Worker : v # w /\ tx[v] # Idle /\ tx[w] # Idle =>
    /\ tx[v].op \in Alone => tx[v].p # tx[w].p
    /\ tx[v].op = "submit" /\ tx[w].op = "submit" => "submit" \notin Alone

TxSpec == TxInit /\ [][TxNext /\ Apart']_txvars

-----------------------------------------------------------------------------
\* When every handler is in Alone the transactions are the atomic handlers of
\* POApproval: reading first and writing last changes nothing, whatever the
\* handlers of other POs commit in between.
SerialIsAtomic == Spec

\* Refuted for several workers.  "Notify the PO requester by email when every
\* approval step has completed" (CHANGELOG.md, 411aefb): once the handlers are
\* through, a PO whose rows are all approved waits for nobody.  Two approvers
\* of one step each count the other's row as pending.
CompletedIsApproved ==
  (\A w \in Worker : tx[w] = Idle) =>
    \A p \in PO : po[p].status \in Waiting => InState(p, "approved") # RowsOf(p)

\* Refuted for three workers.  "Notify the PO requester by email when every
\* approval step has completed" (CHANGELOG.md, 411aefb): no row is pending when
\* the PO becomes approved.  An approval whose row a submission has replaced
\* locks nothing; one more submission of the same draft commits between its
\* count and its commit.
ApprovedIsComplete ==
  \A p \in PO : po[p].status = "approved" => InState(p, "pending") = {}

\* Refuted for several workers.  approve_step returns early "if
\* str(po["status"]) in TERMINAL_STATUSES", so no approval should undo a
\* decline.  When primary and backup decide one row at once, the second
\* UPDATE waits for the first and then overwrites row and PO.
ApprovalHonoursDecline ==
  [][\A p \in PO : po[p].status = "rejected" => po'[p].status # "approved"]_txvars

\* Refuted for several workers: no two POs carry the same number, which
\* _next_po_number is there for.  Two submissions that overlap read the same
\* last_seq and take the same number, unless a constraint of the schema, which
\* is not in the repository, fails the second.
NumbersUnique ==
  \A p, q \in PO : p # q /\ po[p].number = po[q].number => po[p].number = 0

-----------------------------------------------------------------------------
(* The inductive invariant when the handlers of one PO, and the submissions  *)
(* of all, take turns: what a transaction has read is still so when it       *)
(* commits, however many others run beside it.                               *)

Transaction ==
  [pc : {"pick", "mark", "count", "number", "commit"}, op : AllOps, p : PO,
   u : User \cup {NoUser}, content : Content, seen : Row, row : Rule \cup {NoRow}, next : Nat]

\* The rows that are left when row r is decided, and the step s that follows.
Follows(p, r, s) ==
  LET left == InState(p, "pending") \ {r}
  IN  \/ AtStep(po[p].step, left) # {} /\ s = po[p].step
      \/ AtStep(po[p].step, left) = {} /\ First(s, left)
      \/ left = {} /\ s = 0

\* The handler would do now what it decided to do.
Current(t) ==
  /\ Exists(t.p) /\ t.seen = po[t.p]
  /\ \E u \in User : Admits(t.op, t.p, u) /\ (t.op \in Deciding => t.u = u)
  /\ t.pc \in {"pick", "mark"} => t.op \in Deciding
  /\ t.pc = "count" => t.op = "approve"
  /\ t.pc = "number" => t.op = "submit"
  /\ t.pc \in {"mark", "count", "commit"} /\ t.op \in Deciding => t.row \in Actionable(t.p, t.u)
  /\ t.pc = "commit" /\ t.op = "approve" => Follows(t.p, t.row, t.next)
  /\ t.pc = "commit" /\ t.op = "submit" => t.next = lastSeq

SerialInv ==
  /\ TypeOK
  /\ Apart
  /\ tx \in [Worker -> Transaction \cup {Idle}]
  /\ \A w \in Worker : tx[w] # Idle => Current(tx[w])
-----------------------------------------------------------------------------
(* The inductive invariant when submissions, edits and declines overlap no   *)
(* handler of the same PO, and everything else overlaps freely: what was     *)
(* read may be stale, but rows then only go from pending to approved.        *)

\* The PO has the rows and the content it was submitted with.
AsFiled(p) ==
  /\ filed[p].rules # {}
  /\ RowsOf(p) = filed[p].rules
  /\ InState(p, "rejected") = {}
  /\ po[p].content = filed[p].content

Settled(p) == AsFiled(p) /\ InState(p, "pending") = {}

\* A status that may be noted as the one to return to.
Resumable == (Status \ (Fulfilled \cup Editable)) \cup {"null"}

\* A PO that is not as it was filed is out of everybody's reach.
POSound(p) ==
  /\ po[p].status \in Fulfilled => Settled(p)
  /\ po[p].status \in Editable \cup Gone => po[p].step = 0
  /\ po[p].status = "postponed" \/ po[p].step # 0 => AsFiled(p)
  /\ po[p].heldStatus \in Resumable

\* What a transaction goes by, however old, is harmless by now.
TxSound(t) ==
  /\ Exists(t.p)
  /\ t.seen.status \in Fulfilled => Settled(t.p)
  /\ t.seen.status \in Editable => t.seen.step = 0
  /\ t.seen.step # 0 \/ t.op = "resume" => AsFiled(t.p)
  /\ t.seen.heldStatus \in Resumable /\ t.seen.status \in Status
  /\ t.op \in Owner => t.seen = po[t.p] /\ t.seen.status \in Editable
  /\ t.op = "resume" => t.seen.heldStatus # "null"
  /\ t.op \in DOMAIN LifecycleFrom => t.seen.status \in LifecycleFrom[t.op]
  /\ t.pc \in {"pick", "mark"} => t.op \in Deciding
  /\ t.pc = "count" => t.op = "approve"
  /\ t.pc = "number" => t.op = "submit"
  /\ t.op \in Deciding /\ t.pc # "pick" =>
       t.seen.step # 0 /\ t.seen.status \notin Fulfilled /\ t.row \in RowsOf(t.p)
  /\ t.op = "approve" /\ t.pc = "commit" /\ t.next = 0 =>
       InState(t.p, "pending") \subseteq {t.row}

OverlapInv ==
  /\ TypeOK
  /\ Apart
  /\ tx \in [Worker -> Transaction \cup {Idle}]
  /\ \A p \in PO : POSound(p)
  /\ \A w \in Worker : tx[w] # Idle => TxSound(tx[w])
=============================================================================
