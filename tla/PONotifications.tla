---------------------------- MODULE PONotifications ----------------------------
(***************************************************************************)
(* The dispatch of PO notifications: purchase_orders.fetch_due_... to      *)
(* mark_notification_state and notifications/service.py.  The scheduler    *)
(* and every PO request handler call dispatch_due_notifications, so several*)
(* workers go through the same rows at once; only the database serialises  *)
(* them.  Each statement below that commits is one action, the delivery    *)
(* itself happens between two of them, and a worker can die in between.    *)
(*                                                                         *)
(* POApproval.tla is the other side: here a committed PO handler is seen   *)
(* only by the notes it cancels and inserts (POCommit).                    *)
(*                                                                         *)
(* Definitions ending in _X are slips, see POApproval.tla.                 *)
(***************************************************************************)
EXTENDS Integers, FiniteSets

CONSTANTS
  Note,       \* rows of notifications
  App,        \* those of the channel app; the others are email or whatsapp
  Approval,   \* those with an approval event type
  PO,         \* purchase orders
  POOf,       \* purchase_order_id of a note
  Worker,     \* threads that dispatch
  Scheduler,  \* the worker of _po_notification_scheduler
  Limit,      \* LIMIT of fetch_due_notifications
  NoNote,
  MaxFaults   \* bound: crashes and exceptions

ASSUME ConstantsAssumption ==
  /\ App \subseteq Note
  /\ Approval \subseteq Note
  /\ POOf \in [Note -> PO]
  /\ Scheduler \in Worker
  /\ Limit \in Nat \ {0}
  /\ NoNote \notin Note
  /\ MaxFaults \in Nat

VARIABLES
  state,      \* state of the row, "absent" before the INSERT
  due,        \* schedule_at has come
  old,        \* created_at is more than 15 minutes ago
  waiting,    \* the PO exists and has a status that waits for approval
  pc,         \* what each worker does next
  batch,      \* rows it fetched and has not come to yet
  cur,        \* row it is dispatching
  ok,         \* what the channel answered it
  accepted,   \* times the provider took the message (history)
  logged,     \* rows of notification_logs
  faults      \* crashes and exceptions so far

rowvars == <<state, due, old, waiting>>
vars == <<state, due, old, waiting, pc, batch, cur, ok, accepted, logged, faults>>

Init ==
  /\ state = [n \in Note |-> "absent"]
  /\ due = [n \in Note |-> FALSE]
  /\ old = [n \in Note |-> FALSE]
  /\ waiting = [p \in PO |-> FALSE]
  /\ pc = [w \in Worker |-> "ready"]
  /\ batch = [w \in Worker |-> {}]
  /\ cur = [w \in Worker |-> NoNote]
  /\ ok = [w \in Worker |-> FALSE]
  /\ accepted = [n \in Note |-> 0]
  /\ logged = [n \in Note |-> 0]
  /\ faults = 0

-----------------------------------------------------------------------------
\* A PO handler commits: approval notes of the PO that are pending or
\* dispatching are cancelled (all, or those of one approver), new notes are
\* inserted, at once due or scheduled, and the PO may enter or leave the queue.
POCommit(p, cancelled, inserted, inQueue) ==
  /\ \A n \in cancelled : n \in Approval /\ POOf[n] = p /\ state[n] \in {"pending", "dispatching"}
  /\ \A n \in inserted : POOf[n] = p /\ state[n] = "absent"
  /\ state' = [n \in Note |-> IF n \in cancelled THEN "failed"
                              ELSE IF n \in inserted THEN "pending"
                              ELSE state[n]]
  /\ waiting' = [waiting EXCEPT ![p] = inQueue]
  /\ UNCHANGED <<due, old, pc, batch, cur, ok, accepted, logged, faults>>

\* Time passes: the schedule of a reminder is configurable, so either bound
\* may come first.
BecomeDue(n) ==
  /\ state[n] # "absent" /\ ~due[n]
  /\ due' = [due EXCEPT ![n] = TRUE]
  /\ UNCHANGED <<state, old, waiting, pc, batch, cur, ok, accepted, logged, faults>>

BecomeOld(n) ==
  /\ state[n] # "absent" /\ ~old[n]
  /\ old' = [old EXCEPT ![n] = TRUE]
  /\ UNCHANGED <<state, due, waiting, pc, batch, cur, ok, accepted, logged, faults>>

-----------------------------------------------------------------------------
\* Nobody looks after the rows of a dead worker.
Stale_X == {}

\* The three statements of fetch_due_notifications, one transaction.
Stale    == {n \in Note : state[n] = "dispatching" /\ old[n]}
OffQueue == {n \in Approval : state[n] = "pending" /\ ~waiting[POOf[n]]}
Fetchable == {n \in Note : state[n] = "pending" /\ due[n]} \ OffQueue
Batches  == {b \in SUBSET Fetchable :
               \/ b = Fetchable /\ Cardinality(b) <= Limit
               \/ b # Fetchable /\ Cardinality(b) = Limit}

Fetch(w) ==
  /\ pc[w] = "ready" /\ batch[w] = {}
  /\ state' = [n \in Note |-> IF n \in Stale \cup OffQueue THEN "failed" ELSE state[n]]
  /\ \E b \in Batches : batch' = [batch EXCEPT ![w] = b]
  /\ UNCHANGED <<due, old, waiting, pc, cur, ok, accepted, logged, faults>>

\* The claim of a row that was fetched, whatever became of it (before 2eb4ace).
Claim_X(w, n) ==
  /\ pc[w] = "ready" /\ n \in batch[w]
  /\ batch' = [batch EXCEPT ![w] = @ \ {n}]
  /\ state' = [state EXCEPT ![n] = "dispatching"]
  /\ pc' = [pc EXCEPT ![w] = "check"]
  /\ cur' = [cur EXCEPT ![w] = n]
  /\ UNCHANGED <<due, old, waiting, ok, accepted, logged, faults>>

\* UPDATE ... WHERE state = 'pending': the row lock makes one worker win.
Claim(w, n) ==
  /\ pc[w] = "ready" /\ n \in batch[w]
  /\ batch' = [batch EXCEPT ![w] = @ \ {n}]
  /\ \/ /\ state[n] = "pending"
        /\ state' = [state EXCEPT ![n] = "dispatching"]
        /\ pc' = [pc EXCEPT ![w] = "check"]
        /\ cur' = [cur EXCEPT ![w] = n]
     \/ /\ state[n] # "pending"
        /\ UNCHANGED <<state, pc, cur>>
  /\ UNCHANGED <<due, old, waiting, ok, accepted, logged, faults>>

Finish(w) ==
  /\ pc' = [pc EXCEPT ![w] = "ready"]
  /\ cur' = [cur EXCEPT ![w] = NoNote]

\* notification_row_is_dispatching, a transaction of its own.
Check(w) ==
  /\ pc[w] = "check"
  /\ \/ /\ state[cur[w]] = "dispatching"
        /\ pc' = [pc EXCEPT ![w] = "send"]
        /\ UNCHANGED cur
     \/ /\ state[cur[w]] # "dispatching"
        /\ Finish(w)
  /\ UNCHANGED <<rowvars, batch, ok, accepted, logged, faults>>

\* The channel takes the message or not, and answers.  A mail server that
\* took the message may still answer with an error; a push is never one.
Send(w) ==
  /\ pc[w] = "send"
  /\ \E took, answer \in BOOLEAN :
       /\ cur[w] \in App => answer
       /\ cur[w] \notin App /\ answer => took
       /\ accepted' = [accepted EXCEPT ![cur[w]] = @ + (IF took THEN 1 ELSE 0)]
       /\ ok' = [ok EXCEPT ![w] = answer]
  /\ pc' = [pc EXCEPT ![w] = "mark"]
  /\ UNCHANGED <<rowvars, batch, cur, logged, faults>>

\* mark_notification_state: only a row still in flight is marked and logged.
MarkRow(n, outcome) ==
  \/ /\ state[n] = "dispatching"
     /\ state' = [state EXCEPT ![n] = outcome]
     /\ logged' = [logged EXCEPT ![n] = @ + 1]
  \/ /\ state[n] # "dispatching"
     /\ UNCHANGED <<state, logged>>

\* The answer of the channel is not looked at.
Mark_X(w) ==
  /\ pc[w] = "mark"
  /\ MarkRow(cur[w], "sent")
  /\ Finish(w)
  /\ ok' = [ok EXCEPT ![w] = FALSE]
  /\ UNCHANGED <<due, old, waiting, batch, accepted, faults>>

Mark(w) ==
  /\ pc[w] = "mark"
  /\ MarkRow(cur[w], IF ok[w] THEN "sent" ELSE "failed")
  /\ Finish(w)
  /\ ok' = [ok EXCEPT ![w] = FALSE]
  /\ UNCHANGED <<due, old, waiting, batch, accepted, faults>>

\* An exception inside dispatch_notification, also in the claim itself
\* (before it committed); the handler then tries to mark the row failed.
Raise(w) ==
  /\ faults < MaxFaults
  /\ faults' = faults + 1
  /\ \/ /\ pc[w] = "ready"
        /\ \E n \in batch[w] : /\ cur' = [cur EXCEPT ![w] = n]
                               /\ batch' = [batch EXCEPT ![w] = @ \ {n}]
     \/ /\ pc[w] \in {"check", "send", "mark"}
        /\ UNCHANGED <<cur, batch>>
  /\ pc' = [pc EXCEPT ![w] = "abort"]
  /\ ok' = [ok EXCEPT ![w] = FALSE]
  /\ UNCHANGED <<rowvars, accepted, logged>>

\* That may raise as well, and is then ignored.
Abort(w) ==
  /\ pc[w] = "abort"
  /\ \/ MarkRow(cur[w], "failed") /\ UNCHANGED faults
     \/ faults < MaxFaults /\ faults' = faults + 1 /\ UNCHANGED <<state, logged>>
  /\ Finish(w)
  /\ UNCHANGED <<due, old, waiting, batch, ok, accepted>>

\* The process of the worker dies and is started again.
Crash(w) ==
  /\ faults < MaxFaults
  /\ pc[w] # "ready" \/ batch[w] # {}
  /\ faults' = faults + 1
  /\ batch' = [batch EXCEPT ![w] = {}]
  /\ ok' = [ok EXCEPT ![w] = FALSE]
  /\ Finish(w)
  /\ UNCHANGED <<rowvars, accepted, logged>>

WorkerStep(w) ==
  \/ Fetch(w)
  \/ \E n \in Note : Claim(w, n)
  \/ Check(w)
  \/ Send(w)
  \/ Mark(w)
  \/ Abort(w)

Next ==
  \/ \E p \in PO, cancelled, inserted \in SUBSET Note, inQueue \in BOOLEAN :
       POCommit(p, cancelled, inserted, inQueue)
  \/ \E n \in Note : BecomeDue(n) \/ BecomeOld(n)
  \/ \E w \in Worker : WorkerStep(w) \/ Raise(w) \/ Crash(w)

Spec == Init /\ [][Next]_vars

\* Time passes, and the scheduler thread keeps taking steps.  Nothing is
\* assumed of the request handlers: they run only when somebody calls.
FairSpec ==
  /\ Spec
  /\ \A n \in Note : WF_vars(BecomeDue(n)) /\ WF_vars(BecomeOld(n))
  /\ WF_vars(WorkerStep(Scheduler))

-----------------------------------------------------------------------------
\* Type invariant.
TypeOK ==
  /\ state \in [Note -> {"absent", "pending", "dispatching", "sent", "failed"}]
  /\ due \in [Note -> BOOLEAN]
  /\ old \in [Note -> BOOLEAN]
  /\ waiting \in [PO -> BOOLEAN]
  /\ pc \in [Worker -> {"ready", "check", "send", "mark", "abort"}]
  /\ batch \in [Worker -> SUBSET Note]
  /\ cur \in [Worker -> Note \cup {NoNote}]
  /\ ok \in [Worker -> BOOLEAN]
  /\ accepted \in [Note -> Nat]
  /\ logged \in [Note -> Nat]
  /\ faults \in 0..MaxFaults

\* However many workers race, crash and raise, no recipient gets one message
\* twice.
AtMostOnce == \A n \in Note : accepted[n] <= 1

\* The book-keeping can be believed: a mail or WhatsApp row marked sent was
\* taken by the provider, and it has exactly one log row.
SentWasAccepted ==
  \A n \in Note : state[n] = "sent" => /\ logged[n] = 1
                                       /\ n \notin App => accepted[n] = 1

\* Cancelled is final: neither a late mark of the worker nor a second sweep
\* changes a row that is sent or failed (CHANGELOG.md, 2eb4ace: only marking
\* "sent"/"failed" from that in-flight state).
FinalStays ==
  [][\A n \in Note : state[n] \in {"sent", "failed"} => state'[n] = state[n]]_vars

\* Every note is settled: sent, failed or cancelled, also when the worker that
\* claimed it died.
EveryNoteSettles ==
  \A n \in Note : state[n] = "pending" ~> state[n] \in {"sent", "failed"}

\* Refuted.  "Fix a race where the notification worker could still send
\* email/push after a row was cancelled" (CHANGELOG.md, 2eb4ace): what is
\* handed to a channel is a row in flight.  Check and Send are two steps.
NoSendAfterCancel ==
  [][\A n \in Note : accepted'[n] # accepted[n] => state[n] = "dispatching"]_vars

\* Refuted.  The sweep of rows left in dispatching is for "worker crash /
\* kill" (comment in fetch_due_notifications): it fails no row that a live
\* worker is dispatching.  It goes by created_at, and a reminder is created
\* hours before it is due.
SweepSparesLiveWorkers ==
  [][\A w \in Worker, n \in Note :
       Fetch(w) /\ state[n] = "dispatching" /\ state'[n] = "failed" =>
         \A v \in Worker : cur[v] # n]_vars

-----------------------------------------------------------------------------
Holds(w, n) == pc[w] \in {"check", "send"} /\ cur[w] = n
Has(w, n)   == pc[w] \in {"check", "send", "mark"} /\ cur[w] = n

\* One worker at a time has a row; a row that nobody has claimed yet, or that
\* somebody may still hand over, has not been delivered.
OwnerInv(n) ==
  /\ \A w \in Worker : Has(w, n) => state[n] \in {"dispatching", "failed"}
  /\ \A w, v \in Worker : Has(w, n) /\ Has(v, n) => w = v
  /\ accepted[n] <= 1
  /\ state[n] \in {"absent", "pending"} => accepted[n] = 0
  /\ \A w \in Worker : Holds(w, n) => accepted[n] = 0

\* What a marked row says: the answer of the channel was about it.
BookInv(n) ==
  /\ logged[n] <= 1
  /\ state[n] \in {"absent", "pending", "dispatching"} => logged[n] = 0
  /\ state[n] = "sent" => logged[n] = 1 /\ (n \in App \/ accepted[n] = 1)
  /\ \A w \in Worker : pc[w] = "mark" /\ cur[w] = n /\ ok[w] => n \in App \/ accepted[n] = 1

CurInv == \A w \in Worker : pc[w] # "ready" => cur[w] \in Note

\* Inductive, and implies AtMostOnce and SentWasAccepted.
IInv == TypeOK /\ CurInv /\ \A n \in Note : OwnerInv(n) /\ BookInv(n)

\* The row and the workers implement PODelivery: the ticket is held between
\* a successful claim and the answer of the channel.
TicketOf(n) ==
  IF state[n] = "absent" THEN "unissued"
  ELSE IF state[n] = "pending" THEN "queued"
  ELSE IF \E w \in Worker : Holds(w, n) THEN "held"
  ELSE "void"

Delivery == INSTANCE PODelivery
              WITH ticket <- [n \in Note |-> TicketOf(n)], delivered <- accepted

\* Every behaviour of rows and workers is one of PODelivery: at most one
\* delivery, and none of a note cancelled before a worker claimed it.
ImplementsDelivery == Delivery!DSpec
=============================================================================
