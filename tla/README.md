# TLA+ models of mtr-web-live

mtr-web-live is the back office of an internet provider: one FastAPI code base
(`main.py` and the modules beside it) that runs as one container per role, over
one PostgreSQL database and one Redis.  This directory holds specifications of
its parts, the TLC configurations that check them on small instances, and
proofs that TLAPS checks for every instance.  All paths below are relative to
`src/`.

What makes the system hard is the same everywhere.  Synchronous handlers run in
a thread pool, several containers share the tables, and `db_runtime.get_conn`
opens a connection per call with `autocommit=False` and no isolation level, so
every function is one READ COMMITTED transaction: what it reads may be
overwritten before it writes, and nothing is checked again.  Background loops
(notification scheduler, monitoring sampler, nightly jobs) run beside the
handlers and keep part of their state in memory only.

## 1. Inventory

| Component | State | Operations | Interacts with | What is hard | What makes it correct |
|---|---|---|---|---|---|
| PO approval workflow (`purchase_orders.py`) | `purchase_orders`, `purchase_order_approvals`, `approval_rules`, `po_number_sequences` | draft, edit, submit, approve, decline, put on hold, postpone, resume, send/receive/close/cancel, delete, edit rules | queues notifications in the same transaction; called by routes and by e-mail links | overlapping decisions, rules edited meanwhile, states left behind by a cancellation | fulfilled orders were approved by every rule; a waiting order can be decided; locked while decided; declined stays declined |
| PO notifications (`purchase_orders.py`, `notifications/`) | `notifications`, `notification_logs`, the batch of each worker | enqueue, cancel, fetch with sweeps, claim, re-check, deliver, mark | scheduler and every PO handler dispatch; SMTP, WhatsApp, web push outside | several workers, dying workers, cancellation against delivery | at most one delivery; honest books; every note settles; final is final |
| PO e-mail actions (`po_email_actions.py`) | `po_email_action_tokens` | issue, look up, execute, mark used | runs the workflow's handlers | three transactions per click; links outlive their step | one action per link, for the step it was issued for |
| PO documents, order placement (`purchase_orders.py`, `main.py` routes) | `po_documents`, files | next version, render, write file, store row, mark sent | workflow | version read twice, file and row apart | one current document, versions unique, a row's file is its own |
| PO live events (`main.py`) | client queues | publish, Redis fan-out, stream | every PO handler | lossy by design | (none) |
| Serialised stock (`stock_management.py`) | `stock_product_items`, lifecycle and scrap logs | add, assign, pre-allocate, release, expire, return, scrap, RMA, delete product/vendor | customers and locations of other modules | check-then-update without conditions; expiry runs inside readers | one holder at a time; holds end; the log is a chain |
| Miscellaneous stock | lots, assignments, lot usage | add lot, sign out over lots | same | quantities read, computed, written back | what came in = what is left + what was used, but for the tolerance |
| Monitoring (`monitoring.py`) | tables of tabs, groups, devices, samples, outages, acknowledgements; levels, streaks, outage starts and group alarms in memory | snapshot (sampler, page, acknowledge), acknowledge, add/delete | web push | concurrent snapshots, out-of-order pings, restarts | alarms alternate; an outage has one start and one end |
| Web push (`push_notifications.py`) | subscriptions, thread queue | subscribe, send, drop dead endpoints | PO notifications, monitoring | resubscription against removal | one row per endpoint |
| WhatsApp signups (`whatsapp_signups.py`) | sessions, events, records, campaigns | webhook, conversation, push to Splynx | Splynx, Meta | repeated and reordered webhooks | an answer goes to the question asked |
| Location sync, cross reference | cache tables, lock with a stale limit | full sync, cross reference, midnight job | Splynx, routers | stale lock against a slow sync; sessions listed twice | one writer of the cache; rows fit the sessions read |
| Clone and DR runners (`scripts/`) | one active run, run files | start, run, read, promote | host scripts | slot taken and never freed; restart | one run at a time; every run ends |
| Users, login, 2FA (`auth_users.py`, `main.py`) | `app_users`, signed cookies | log in, second factor, set-up, backup codes, edit users | every page | last administrator, code used twice | an administrator remains; a code works once |
| IPAM, edge routers, backhauls, location and sales pages | tables and sample rings | create/read/update/delete, imports, SNMP polls | routers, radios | mostly one statement each | uniqueness by constraint |
| Live MTR and ping (`main.py`) | per-stream hop counters, active runs, run log | stream, parse, count, log | subprocesses, sudo | cancellation of a stream, signals that are refused, errors that are swallowed | counters agree; a log line is true; no run stays active |
| Audit log, compose control, server resources, firewall, traffic, templates | append-only rows or none | wrappers of host and engine | host | I/O | (none) |

`PROJECT.json` lists every component with its status and every hazard of the
code at its line.

## 2. Modules

| Module | Models | Role |
|---|---|---|
| `POApproval` | the workflow, one action per handler | specification, safety and liveness properties, the inductive invariant |
| `POApprovalTx` | the same handlers as overlapping READ COMMITTED transactions; extends `POApproval` | what concurrency adds and breaks |
| `PODelivery` | what a notification queue promises | abstract specification |
| `PONotifications` | rows of `notifications` and the workers that dispatch them | detailed specification that implements `PODelivery` |
| `Stock` | items, lots, products and vendors, and the transactions on them | specification and properties |
| `Monitoring` | tabs, groups, devices, the threads that ping them, the dictionaries in memory and the push events | specification, safety and liveness |
| `Signups` | campaigns, sessions, the webhooks of a phone, records and pushes to Splynx | specification, safety and liveness |
| `NetSync` | location sync with its lock and cache, edge routers and the cross reference | specification, safety and liveness |
| `Jobs` | clone and promotion runs, their scripts, the schedule and the nightly job of one host | specification, safety and liveness |
| `LiveMtr` | one live MTR connection, its counters and its line of the run log | specification, safety and liveness |
| `POApproval_proofs` (with `POApprovalTx`), `PONotifications_proofs`, `Stock_proofs`, `Monitoring_proofs`, `Signups_proofs`, `NetSync_proofs`, `Jobs_proofs`, `LiveMtr_proofs` | | TLAPS proofs |
| `MC...` | | values of the constants for TLC |

`POApproval` sees a dispatch as one step (`Deliver`) that takes a note out of
the queue; `PONotifications` sees a PO handler as one step (`POCommit`) that
cancels and inserts notes.  Each is an over-approximation of the other's side:
`POCommit` may cancel and insert any notes of a PO, and `Deliver` may happen at
any time the guard of `fetch_due_notifications` allows.

A definition whose name ends in `_X` is a slip that the code could have had (a
dropped guard, a missing reset, a race that was fixed once).  No specification
uses it.  Replacing the definition after it by the slip makes the property
named in `PROJECT.json` fail: that is how each property was tested.

### State and actions against the code

`POApproval`
- `po[p]` is the row of `purchase_orders`: status, `current_approval_step`
  (`step`), PO number, requester, and `resume_from_status` / `resume_from_step`
  (`heldStatus`, `heldStep`).  Lines, total, department and category are one
  value `content`: the workflow tells them apart only through the rules they match.
- `rows[p][r]` is the approval row of rule `r`.  A rule carries step, approver
  and backup as constants, so an edited rule (`update_approval_rule`), or one
  whose approver comes from the department, is another member of `Rule`.
- `queued[p]` holds the notes that are pending or dispatching.  The channels of
  one note and the three timed reminders are told apart by nothing here.
- `CreateDraft` … `DeletePO` are the functions of the same names.  Early
  returns and `ValueError`s are guards.  `LeaveQueue` is what `reject_po`,
  `request_changes` and `postpone_po` share.  `delete_po` is always called with
  `force=False`.
- `Root` are the users for whom `_break_glass_po_force` holds.  The e-mail
  links call the same functions without it.
- `filed` and `asked` are history variables, read only by properties.
- `ApproversAsked` has a condition, `OneRolePerStep`: a user with two parts in one
  step loses the notes of both with one partial approval, which is what the code does.
- Not modelled: texts, totals, the status log, dates (a resume date may come
  at any time), departments without a name.

`POApprovalTx`
- `tx[w]` is the open transaction of thread `w`: `seen` is the row of the PO it
  read, `row` the approval row it picked, `next` what it counted.  `Begin`,
  `Pick`, `Mark`, `Count`, `Number` are its reads and the update of the approval
  row, whose lock it then holds; `Commit` does its last writes and the commit.
- The sequence row of PO numbers is read (`Number`) and written (`CommitSubmit`)
  in two statements, as in the code.
- `Alone` names the handlers that overlap no other handler of their PO (`Apart`).
  The code sets no such limit.  A run that has `Alone = {}` shows what the code
  does; the others say under which limit a property holds, and the comment at
  `Apart` names the overlaps that break it.
- A resubmission deletes approval rows: a transaction that had picked one
  updates nothing (`NoRow`), as `UPDATE ... WHERE id = ?` does.
- Rules stay as they are during these runs, and dispatch and deletion are left
  out; `POApproval` has them.

`PONotifications`
- One action per statement that commits: `Fetch` (two sweeps and the SELECT),
  `Claim`, `Check`, `Send` (outside the database), `Mark`, and for an exception
  `Raise` and `Abort`.  `Crash` ends the process at any point.
- `due` and `old` are the two clock conditions of the code: `schedule_at` has
  come, `created_at` is more than 15 minutes ago.  Reminder times are
  configurable, so either may come first.
- A mail server may take a message and the client still see an error; an
  in-app note always answers with success (exceptions of web push are caught).

`PODelivery`
- Tickets `unissued`, `queued`, `held`, `void`.  The mapping `TicketOf` counts a
  note as held from a successful claim to the answer of the channel, and as
  void once it is sent or failed, or cancelled with no worker holding it.

`Stock`
- `item[i]` is a row of `stock_product_items`: product, `lifecycle_status`, holder
  (customer or high site), whether `assigned_at` is set (`out`), and whether
  `pre_allocated_expires_at` is ahead or past (`hold`).  `last` is the newest
  row of its lifecycle log, `scrapped` the scrap log.
- `tx[w]` is the open transaction of a thread.  `list_suppliers`, a
  pre-allocation and a release first read the holds that are over
  (`BeginScan`), free them, and only then look at their own row (`Look`);
  the other handlers read one row (`BeginItem`).  `Write` is the commit.
- A sign-out names a product, not a row: `Left` pools the lots of all products of
  that name (`NameOf` is `LOWER(name)`) of all misc vendors.  They are taken first
  in, first out (`Takes`); `InsertAssignment` and `CommitSignOut` keep apart the
  insert of the assignment and the read of its id as the highest one.
- Quantities are doubles in the code, and `available + 1e-9 < qty` lets a sign-out
  pass that asks for a little more than there is.  The model counts grains of
  2^-30, of which doubles below 2^22 hold and subtract any number exactly; `Slack`
  is the tolerance in grains (one), and what it let pass is in the books as
  signed out and in no lot (`Allowance`).  Left out: bits of a decimal fraction
  beyond a grain, and the rounding of their sums.
- `TakeTurns` lets no two open transactions be about one item, or sign out
  (`Apart`); about different items and lots they overlap.  The code sets no such
  limit: without it the properties fail, as section 3 says.
- `CommitDelete` is the DELETE and its cascade, which the schema in `init_db`
  states (a used lot restricts it).
- `Catalog`, `ByVendor`, `StockPage`, `AssignedPage`, `ItemsOut`, `BookedIn`,
  `BookedOut` and `Available` are what the pages and the sales log compute.

`Monitoring`
- `prev`, `stable`, `streak`, `since` and `alarm` are `_PREV_LEVELS`,
  `_STABLE_OK_WARN`, `_DOWN_STREAK`, the keys of `_DOWN_SINCE` and
  `_HS_GROUP_ALARM`.  `Ping` lists the devices and pings them outside the lock,
  `Fold` is `_status_snapshot_inner` under it; `FoldFails` is the insert of an
  outage that raises inside its loop.
- The sampler, a status page and an acknowledgement differ in what becomes of
  the push events: an acknowledgement drops them (`Event`).  `told` is a history
  of the newest event of each device and group.
- Samples, records of outages and acknowledgements are rows that only pages read
  back; the snapshot without ICMP reads samples and folds nothing.  A samples
  insert that fails loses the events of its round and is not modelled.

`Signups`
- `rows[p]` are the (at most two) rows of `whatsapp_signup_sessions` of a phone;
  `Fits` is the unique index on phone and status.  `Receive` reads the session,
  `Reply` writes it, sends and commits, and waits for the row's lock; `Refuse`
  is the index, `ReplyIsLost` a process that dies when the reply is out.
- A session may have been left without stored steps (`flow = None`): the default
  questions are asked and not stored, so a default word or a trigger starts it
  again and drops its answers (`Starts`).  An answer leaves the status of the row
  as it is by then (`Stored`): only a start sets it to active.
- `live` is the setting for pushes; `PostLead` posts to Splynx, `LogPush` stores
  the attempt afterwards.  Dry runs and failed pushes are rows nobody reads back.
- `crossed` marks phones of which two messages were handled at once: these may
  have two records, or a record and an open session.  `rough` marks phones that sent
  pictures or whose campaign was edited under them: their records may lack an
  answer.  Which question a text was meant for is not in the model.

`NetSync`
- `busy` and `stale` are `_sync_in_progress` and whether its start is longer ago
  than the limit.  A sync is `FetchCustomers`, `FetchOnline` once for each address,
  `FetchPast`, `WriteCache`, `Prune`, `Release`; an error leads to the `finally`
  (`Fail`).  An address that fails is skipped, so either, both or none may be read.
- A session has the id of a service or none, the login of a service, of none, or no
  login, and a MAC.  The two default addresses differ by a slash and list the same
  sessions, so each comes twice: in the map the last one stays, in the pool
  (`PoolMacs`) there are two copies.
- `Merged` computes the rows of a customer's services in order.  `Exact` is the
  session of the service's id, then the one without a login, then the one of the
  service's login; then comes any MAC left in the pool, then past sessions.
  Customers do not meet in any map, so there is one.
- A cross reference is three transactions: the router's sessions, the owners of
  their MACs, the replacement of the router's rows.

`Jobs`
- `slot`, `mem` and `file` are `_active_run_id`/`_active`, the runs in memory and
  their JSON files; `step` is where the thread of a run is, `script` what it
  started.  `Restart` loses memory and threads and keeps files.
- `night` is where `_nightly_clone_scheduler` is: it reads the schedule, sleeps, and
  starts what it read; `editor` is the target route, which reads the schedule,
  and writes it back with another target.  `CLONE_NIGHTLY_ENABLED` and
  `CLONE_TARGET_...` are left out: the host modelled has none of them set.  With
  them the job cannot be switched off by the schedule, and an empty target is
  replaced by one that is not.

`LiveMtr`
- `hops[i]` is a `HopStats`; `open` and `late` are histories of probes without an
  answer and of those that were open when the warm-up ended.  Each line of mtr
  is one action, and a snapshot may follow it, which is also what notices that
  the browser has left.
- `at` walks through `stream_mtr_raw` and the `finally` of `ws_mtr`.
- `proc` is the child that the handler started.  Without sudo it is mtr; with sudo
  it is sudo, and `mtr` its child: SIGTERM is handed on or refused, SIGKILL reaches
  sudo alone, if anything.
- A log line that cannot be built or written is reported on the console and the
  run goes on (`WriteLog`), so a connection may end without one.

## 3. Runs

| Run | Configuration | Result | What it shows |
|---|---|---|---|
| `workflow` | 1 PO, 3 users, 3 rules, 3 submissions | holds | type invariant, `WaitingIsActionable`, `StepsInOrder`, `ApprovedByEveryRule`, `RemindersFollowStep`, `ApproversAsked`, `DeclinedStaysDeclined`, `LockedWhileWaiting` |
| `orders` | 2 POs, 1 rule, 3 submissions, fair scheduler | holds | `PostponedReturns` |
| `dispatch` | 2 notes (e-mail for an approval, in-app update), 2 workers, batches of 1, 2 faults, fair scheduler | holds | `AtMostOnce`, `SentWasAccepted`, `ImplementsDelivery`, `EveryNoteSettles` |
| `serial` | 2 POs, 2 workers, 2 submissions, deciding handlers, submissions and resumptions, roll-backs; handlers of one PO and submissions take turns | holds | `SerialIsAtomic`: the transactions refine the atomic handlers, whatever others do beside them on other POs |
| `parallel` | 1 PO, 3 rules, 2 submissions, 2 workers; approvals, holds, postponements, resumptions, cancellations and dispatches to the supplier overlap, submissions, edits and declines overlap nothing | holds | `ApprovedByEveryRule` for these overlaps; with the others it fails, see below |
| `stuck` | 2 workers that approve and submit, any overlap | violated | `CompletedIsApproved` |
| `stock` | 2 items, 2 lots of one product name at two misc vendors, a vendor of items, 2 sign-outs of 2 or 3 grains, a tolerance of 1, 2 workers that take turns | holds | `LogTellsState`, `BooksBalance`, `HeldItemsStay` |
| `monitoring` | 2 devices of a site, or one alone; down after 2 failures; sampler and one page; 1 database error, 1 edit | holds | `DictionariesAgree`, `AlarmsWereRaised`, `NoticedInTheEnd`, `GroupAlarmSettles` |
| `signups` | 1 phone, with or without a session that has no stored steps, a default flow of two questions, a campaign with one or two, 2 threads, 1 fault, 1 edit or picture, 1 lead | holds | `RecordsAddUp`, `SignupEnds` |
| `netsync` | 2 services of a customer, 2 MACs, 3 worlds, 2 addresses, 2 syncs, 1 cross reference, 1 fault, 1 change | holds | `TablesFit`, `CacheAdvances`, `SyncWorksAgain` |
| `jobs` | 2 clones, 1 promotion, 1 failure or restart, 1 edit of the schedule | holds | `SlotTellsRunner`, `PromotedNeverPushes`, `SlotComesFree` |
| `live` | 2 hops, warm-up of 2, 4 probes, 2 latencies, 2 samples kept, with and without sudo, a log line that fails | holds | `CountsHonest`, `LogTellsRun`, `LeftRunsEnd` |

Every module has a type invariant.  Those of the newer modules say more than
types: there is always a tab and a device is on one that exists; a phone has
one session of each status; a lot is never overdrawn; a run is never started
without a target; no hop received more than it sent.

Bounds.  `MaxSeq` bounds the submissions: a PO can be put on hold and
resubmitted twice, with other lines and other rules, which covers rows and
reminders left over from the submission before.  Three rules give two
approvers side by side, a backup, and a later step for some orders only;
step 4 has no status of its own (`_status_for_step_number`).  Two workers show
each race that is between two parties; what holds in `parallel`, `serial` and
`stock` with two is proved for any number.  `MaxFaults` lets the
scheduler fail once while another worker has failed too.  Workers, POs and items are
interchangeable, so `parallel`, `serial` and `stock` use symmetry (their properties
are invariants and steps, no liveness).  In `stock` a sign-out of 3 grains needs the
lots of both vendors where these have 2, or passes by the tolerance where one lot of
2 is all there is; one of 2 leaves a lot of 3 part used; and two items let one be
expired by the handler of the other.  `TwoRows` is a constraint: two
items, two lots, or one of each, as handlers of items read no lots and lots no items,
and they are never under one vendor.  Two
failures in a row are the least for which hysteresis does anything (the code's
default is 5, and only whether the number was reached is ever asked); two
devices are the least for which a group and the order of a half-done fold
matter, and one edit is what falls between the list and the fold of a
snapshot.  One phone is enough for `signups` as sessions of phones share nothing,
and two messages at once for what crosses.  The worlds of `netsync` have a session
with an id and no login beside one with a login, one service online and one not,
and no service; with two addresses of which one may fail, MACs come singly and in
pairs; two syncs suffice for the lock, which knows one flag.  In
`jobs` the second clone is the one that must find the slot free, and a fault may fall
at any step.  In `live` four probes go past the warm-up on one
hop with two to spare, or share themselves between both.

Deadlock is checked but in `jobs`, where a host may be idle for good once the
bounds are used up, and in `live`, where a closed connection stops.  Elsewhere
drafts, rules, roll-backs, flapping targets or new messages keep each model
moving, so it says little, and the properties above say what must go on.

Fairness.  `_po_notification_scheduler` is a loop that swallows exceptions and
sleeps between rounds; each round calls `dispatch_due_notifications` and then
`resume_due_postponed_pos`.  So `PONotifications` assumes weak fairness of the
scheduler's own steps and of time, and `POApproval` weak fairness of
`ResumePostponed`.  `Monitoring`: the sampling loop is of the same kind, and a
thread that has pinged will fold (pings have time-outs).  `Signups`: threads of a
web server run to their end (sends have time-outs), and - an assumption on the
environment - a customer goes on sending texts that answer a question; only
such messages move a session, so this is strong fairness, as a question may be
answered by others meanwhile.  `NetSync`: time passes, and a page that is open
polls the status; nothing is assumed of the syncs, whose pages may never end.
`Jobs`: threads run on, and a script ends.  `LiveMtr`: the handler runs on, and
mtr, which is asked for 999999 rounds, keeps printing or ends.  Nothing is
assumed of users, of request handlers of the workflow, of the mail server, or
of failures, which are bounded.

### What the violated run says of the code

- `stuck` - two approvers of one step approve at once; each transaction counts
  the other's row as pending (`_complete_step_if_ready`), both take the partial
  branch, and the PO stays pending with no row left to decide.

### Stated and refuted, in no run

These are in the modules under the word "Refuted", with the instance that shows
each when it is made the only property of a configuration.

- `ApprovalHonoursDecline` (`POApprovalTx`, two workers that approve and decline) -
  an approval and a decline of one row overlap: the second UPDATE waits for the
  first and overwrites row and PO; the requester is told both.
- `ApprovedIsComplete` (`POApprovalTx`, three workers that approve and submit a PO of one
  rule, three submissions) - a draft is submitted three times at once.  An approver
  has picked the row of the first submission when the second replaces it: the UPDATE
  of the approval finds nothing and locks nothing.  The new row is approved, so the
  first approval counts nothing left; before it commits, the third submission puts
  new rows in place.  The PO ends approved over a pending row, and the requester is
  told that all steps are complete.  It takes three handlers: with two, `parallel`
  holds, also (tried with one rule) for five submissions.
- `LockedWhileWaiting` (`POApprovalTx`, two workers that edit and submit) - an edit
  that read a draft commits after its submission.  It holds in `workflow`.
- `CancelledIsTerminal`, `NoReminderForDecidedRow` (as `workflow`) - a cancelled PO
  keeps its open rows and can be put on hold, edited and submitted again; the
  primary approver of a row that the backup approved keeps being reminded while
  another row is open.
- `NoSendAfterCancel`, `SweepSparesLiveWorkers` (as `dispatch`) - the re-check in
  `dispatch_notification` narrows the window between cancellation and delivery, and
  does not close it; the sweep for dead workers goes by `created_at`, and a
  reminder is created hours before it is due.
- `NumbersUnique` (`POApprovalTx`, two POs, two workers that submit) - both read the
  same last number and take the next one.  Whether the schema refuses the second
  cannot be seen in the repository.
- `ApprovedByEveryRule` (as `parallel`, without `reject`, `edit` or `submit` in
  `Alone`) - a decline of one row commits before an approval of another has
  counted, and the PO is approved with a declined row; an edit beside a submission
  or an approval changes lines that are already filed; submissions that overlap replace
  rows that an approval goes by (with three workers).
- `OneHolder`, and with it `LogTellsState`, `BooksBalance` and `HeldItemsStay` (as
  `stock`, `TakeTurns = FALSE`) - two users assign one free item, and the
  second customer replaces the first; an item assigned while its hold expires is
  freed; sign-outs that read the same lots use a unit twice; an item assigned after
  the check of a deletion goes with its product.
- `MatchedOnce` (as `netsync`) - "Stop fallback pool from handing out a MAC we already
  matched exactly" (`_pool_remove_mac_norm`): one copy of the session leaves the
  pool, and the other address has put a second one there.

### What modelling showed besides

- A second signup of a phone fails with its last answer: the unique index allows one
  completed session, and the handler answers 500.  A webhook that read an older
  state can put a session back or store a second record.
- With sudo, mtr may outlive the run: SIGKILL reaches sudo alone.  A run may leave no
  line in the log, as each error on the way there is swallowed.
- A clone whose override file cannot be written, or whose record cannot be saved
  when it is taken, holds the slot for ever (`stranded`); a save that fails while
  output is read frees the slot under a script that runs on.
- The nightly job starts what it read hours before, also if the schedule was
  switched off or pointed elsewhere since; a save of the target switches a
  schedule on again that was switched off meanwhile.
- With both default addresses up, each online session is in the pool twice: two
  services without a session of their own may be given one MAC, also one that was
  matched exactly.  A session without a login is preferred to the one that has
  the login of the service.
- A conversation that was left without stored steps starts anew with a "hello" in
  place of an answer, and forgets the answers given.
- Only the newest start of a sync is known: with the limit past, two syncs run, and
  the first that ends clears the flag of the other (`taken`; `CacheAdvances` says
  nothing of what is written after such a takeover).
- `add_router` commits and then fails, as the cursor has no `lastrowid`.
- Devices of a site that take turns to be out may never raise its alarm, and a
  site that loses its last device keeps it.
- A reply to a probe of the warm-up that comes after it counts as received but
  not as sent, and can hide one loss; a run stopped within the warm-up is written to
  the log as complete and then left out of the history (`InHistory`).

## 4. Proofs

Every invariant and every action property that a passing run checks is also a theorem, for every value of the constants: any number of
purchase orders, users, rules, submissions, notes, workers, items, lots, devices,
phones, services, runs, hops, probes and faults.  The theorems assume what
`ConstantsAssumption` of each module says (and `RowsAssumption`, `SessionAssumption`:
that the values that stand for "no row" are no rows); TLC evaluates these on every
run.  They are about the shape of the instance (step numbers are positive, approvers are
users, a flow has a question, ids of devices and groups differ), not about its size.

Two groups of theorems have a hypothesis on what overlaps, and none on how many
workers there are.  In `POApprovalTx`, `SerialImplements` assumes that handlers of one
PO, and submissions, take turns (`Alone = AllOps`), and `OverlapApproved` only that
submissions, edits and declines overlap nothing of their PO: approvals, holds,
postponements, resumptions and lifecycle changes overlap freely.  In `Stock`,
`LogTells`, `HeldStay` and `BooksBalanced` assume that handlers of one item, and
sign-outs, take turns (`TakeTurns`).  The code does not promise this: requests run in a
thread pool in several containers.  Without the hypothesis these properties fail, as
section 3 says; the theorems show that the overlaps named there are the only reason.
`AlarmsWereRaised` says that of devices only if `DownAfter > 1`: with
`MONITORING_DOWN_AFTER_FAILS=1` a device that is down when it is first seen is so without a
push event, which the proof brought out (the runs have 2, the code's default is 5).

`IInv` of each module includes its type invariant.  That it is inductive is what the proof
shows, so no run repeats it; TLC was asked first on the instances of section 3.

| Module | Theorems | What the inductive invariant adds, and why |
|---|---|---|
| `POApproval_proofs` | `TypeCorrect`, `Inductive`, `NeverStuck`, `Sequential`, `FullyApproved`, `RemindersFollow`, `Asked`, `DeclinedStays`, `NoChangeMeanwhile` | what a postponed PO has saved (`StepGuards`), the order of steps also of a cancelled PO that keeps its step and, by the saved step, of a postponed one (`RowsInOrder`), that the rows are those filed as long as a decision is open (`FiledRows`), where queued notes come from (`QueueFollows`). One lemma shows that an action preserves these of the PO it is about and leaves all others alone |
| same, on `POApprovalTx` | `SerialImplements` (`SerialIsAtomic`), where handlers of one PO take turns | `SerialInv`, with `Current`: what an open transaction has read is still so, whatever commits on other POs, so its commit is the atomic handler and each other step a stutter |
| same | `OverlapApproved` (`ApprovedByEveryRule`), where only submissions, edits and declines keep apart | `OverlapInv`. A transaction that is open on a PO sees no submission of it begin or commit, and otherwise rows only go from pending to approved. So what a transaction has seen may be stale and is still harmless (`TxSound`): if it counted no row but its own, none will be pending again; a PO that was postponed has rows and lines as filed (`POSound`) |
| `PONotifications_proofs` | `Inductive`, `DeliveredOnce`, `BooksRight`, `FinalKept`, and `Implements`: the refinement of `PODelivery`, action by action | that one worker at a time has a row and that a row nobody has handed over yet has not been accepted (`OwnerInv`); what a mark says about the answer it is made for (`BookInv`) |
| `Stock_proofs` | `TypeCorrect`, `Inductive`, for any overlap; `LogTells`, `HeldStay`, `BooksBalanced`, where handlers of an item and sign-outs take turns | that a transaction knows whom it hands to and scraps from, and that foreign keys hold through each cascade; with turns (`TurnInv`) that what each transaction read is so (`Current`), that ids not handed out are unused, and that sign-outs and lots account for each other but for the tolerance (`LotsUsed`, `SignOutsCovered`) |
| `Monitoring_proofs` | `TypeCorrect`, `Inductive`, `AlwaysAgree`, `AlarmsRaised` | that what a thread listed before it pinged is still true of the devices that are left, which have their tab and group for life (`StillTrue`), and that a level that is remembered has a device (`Known`) |
| `Signups_proofs` | `TypeCorrect`, `Inductive`, `RecordsRight` | that a session, and what messages in hand have read of it, is on its way question by question with just these answers (`OnTrack`), also if messages cross; and that, while they do not, one message is in hand and has read the session as it is (`InTurn`) |
| `NetSync_proofs` | `TypeCorrect`, `Inductive`, `TablesAlwaysFit`, `CacheMovesOn` | that rows fit what was fetched before they are written, counted over the copies of each session in the pool, and what a cross reference matched is cached unless a sync came between (`Written`); that one sync runs at a time with data no older than the cache's, as long as no flag was taken over (`OneSync`) |
| `Jobs_proofs` | `TypeCorrect`, `Inductive`, `SlotsTell`, `PrimaryStaysQuiet` | that a script runs just when its thread reads from it (`ScriptFollowsStep`). It is shown for each run by itself, as an action is about one |
| `LiveMtr_proofs` | `TypeCorrect`, `Inductive`, `FiguresHonest`, `LogTells` | where each probe is counted and that all samples lie between best and worst (`HopsInv`); at which places the child is gone or has SIGKILL, and that what is shown at the end is the last hop (`EndInv`) |

Induction over data.  Some of what the proofs need is computed over a sequence or a
set: the MACs given to services one after another (`Merged`), what a sign-out takes
from lots first in first out (`Takes`) and the totals of the books, least and greatest
samples.  The library's induction theorems take an operator as a parameter and
cannot be used here.  `AllNat` says the same with a set in its place - a set that has 0,
and with each number the next, has all - and follows from the least element of a set
of naturals; `BySize`, `Bounded` and `Iterates` are built on it.  So no
theorem rests on an assumption about these operators.

Model-checked only: liveness (`PostponedReturns`, `EveryNoteSettles`,
`NoticedInTheEnd`, `GroupAlarmSettles`, `SignupEnds`, `SyncWorksAgain`, `SlotComesFree`,
`LeftRunsEnd`), which needs fairness and `ENABLED`, out of the prover's reach.

## 5. Plan

1. `ApprovedByEveryRule` with declines that overlap: which check would make it hold, as a
   variant of `Mark` that tests the status again.
2. `BooksBalance` of `Stock` for sign-outs that overlap on different names.
3. Which question an answer was meant for, in `Signups`.
4. The hazards that have no property yet: e-mail links and document versions.

## 6. Not modelled

- PO e-mail links, documents and live events; users, login and two-factor; web push;
  backhaul radios; IPAM; the audit log; compose control; firewall and traffic
  pages; server resources; templates.  `PROJECT.json` says of each why: no state a
  property could relate, a step another module has already, or I/O.  The races
  of e-mail links, document versions, administrators and backup codes are
  listed there as hazards without a property.
- Texts, layout and formatting, except where a property is about them.
- Schema constraints of tables whose migrations are outside the repository (such as
  a unique PO number): the models assume none but those that the code states.
- Several processes of one role: locks and dictionaries in memory are those of one
  process, as the compose files start it.
