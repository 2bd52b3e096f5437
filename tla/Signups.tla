-------------------------------- MODULE Signups --------------------------------
(***************************************************************************)
(* WhatsApp signups (whatsapp_signups.py).  The provider posts each message*)
(* of a customer to the webhook.  One transaction logs it, moves the       *)
(* customer's session along the questions of a campaign, sends the next    *)
(* question and, after the last, records the signup.  Nothing orders the   *)
(* webhooks of a phone, and the answers are sent before the commit.        *)
(*                                                                         *)
(* Definitions ending in _X are slips, see POApproval.tla.                 *)
(***************************************************************************)
EXTENDS Integers, FiniteSets, Sequences, SequencesExt

CONSTANTS
  Phone, Campaign,
  DefaultFlow,         \* _SIGNUP_STEPS: its keys, in order
  Flows, Choice,       \* flows an administrator saves; the keys asked with options
  None,
  Worker,              \* threads that serve webhooks and pushes
  MaxFaults, MaxEdits, \* bounds: crashes and lost calls, settings and campaigns
  MaxPushes            \* saved and pictures sent, customers made by pushes

ASSUME ConstantsAssumption ==
  /\ \A f \in Flows \cup {DefaultFlow} : f \in Seq(STRING) /\ f # <<>>
  /\ Choice \cap ToSet(DefaultFlow) = {}
  /\ {MaxFaults, MaxEdits, MaxPushes} \subseteq Nat
  /\ None \notin Campaign \cup Flows \cup {DefaultFlow} /\ None \notin {1, 2}
  /\ IsFiniteSet(Worker)

VARIABLES
  defs,                \* rows of whatsapp_signup_campaign_defs
  live,                \* setting: pushes are not dry runs
  rows,                \* whatsapp_signup_sessions: two ids of each phone, see TypeOK
  records,             \* rows from a conversation: whether it answers all of the flow
  forms,               \* phones that have rows from a form
  thanked,             \* history: phones that were told that they are signed up
  crossed,             \* history: phones of which two messages were handled at once
  rough,               \* history: phones that sent pictures or whose flow was edited
  leads, pushes,       \* customers made in Splynx; rows that say so
  thread,
  faults, edits

vars == <<defs, live, rows, records, forms, thanked, crossed, rough,
          leads, pushes, thread, faults, edits>>
config == <<defs, live, edits>>
talk == <<rows, records, forms, thanked, crossed, rough>>

Idle == [step |-> "idle"]
Keys == ToSet(DefaultFlow) \cup UNION {ToSet(f) : f \in Flows}

\* What customers send: one of the default words, text that fits an option,
\* something that is no text, a form with its text, or the trigger of a campaign.
Messages == {"hello", "option", "image", "form"} \cup Campaign

\* A session: flow is None if it was left without stored steps.
Session == [status : {"active", "completed"}, campaign : Campaign \cup {None},
            flow : Flows \cup {DefaultFlow, None}, idx : Nat, key : Keys,
            answers : SUBSET Keys]
ASSUME SessionAssumption == None \notin Session

\* Nothing reads more of a completed session than its status.
Closed == [status |-> "completed", campaign |-> None, flow |-> None, idx |-> 1,
           key |-> DefaultFlow[1], answers |-> {}]

Init ==
  /\ defs \in [Campaign -> [flow : Flows, active : {TRUE}]]
  /\ live = FALSE
  /\ \E left \in SUBSET Phone :
       rows = [p \in Phone |-> [i \in {1, 2} |->
                 IF i = 1 /\ p \in left
                 THEN [status |-> "active", campaign |-> None, flow |-> None, idx |-> 1,
                       key |-> DefaultFlow[1], answers |-> {}]
                 ELSE None]]
  /\ records = [p \in Phone |-> <<>>] /\ forms = {}
  /\ thanked = {} /\ crossed = {} /\ rough = {}
  /\ leads = [p \in Phone |-> 0] /\ pushes = [p \in Phone |-> 0]
  /\ thread = [w \in Worker |-> Idle]
  /\ faults = 0 /\ edits = 0

Rows(p, status) == {i \in {1, 2} : rows[p][i] # None /\ rows[p][i].status = status}

\* A message of p that is being handled
Holds(v, p) == thread[v].step = "read" /\ thread[v].phone = p

-----------------------------------------------------------------------------
(* Administrators. *)

SaveSettings ==
  /\ live' = ~live
  /\ UNCHANGED <<defs, rough>>

\* Phones that are at a question of c, by their session or by what a thread read.
Following(c) == {p \in Phone : \/ \E i \in Rows(p, "active") : rows[p][i].campaign = c
                              \/ \E v \in Worker : /\ Holds(v, p) /\ thread[v].id # None
                                                  /\ thread[v].seen.campaign = c}

SaveCampaignDef ==
  /\ \E c \in Campaign, f \in Flows, on \in BOOLEAN :
       /\ defs' = [defs EXCEPT ![c] = [flow |-> f, active |-> on]]
       /\ rough' = rough \cup Following(c)
  /\ UNCHANGED live

Administer ==
  /\ edits < MaxEdits /\ edits' = edits + 1
  /\ SaveSettings \/ SaveCampaignDef
  /\ UNCHANGED <<rows, records, forms, thanked, crossed, leads, pushes, thread, faults>>

-----------------------------------------------------------------------------
(* A message: read the session, then write, reply and commit. *)

\* The webhook has logged the message and reads the active session.
Receive(w, p, m) ==
  LET id == IF Rows(p, "active") = {} THEN None ELSE CHOOSE i \in Rows(p, "active") : TRUE
  IN /\ thread[w] = Idle
     /\ edits' = edits + (IF m = "image" THEN 1 ELSE 0) /\ edits' <= MaxEdits
     /\ thread' = [thread EXCEPT ![w] =
          [step |-> "read", phone |-> p, msg |-> m, id |-> id,
           seen |-> IF id = None THEN None ELSE rows[p][id]]]
     /\ crossed' = IF \E v \in Worker : Holds(v, p) THEN crossed \cup {p} ELSE crossed
     /\ rough' = IF m = "image" THEN rough \cup {p} ELSE rough
     /\ UNCHANGED <<defs, live, rows, records, forms, thanked, leads, pushes, faults>>

\* find_campaign_by_trigger, and the default words
Triggered(m) == IF m \in Campaign /\ defs[m].active THEN m ELSE None
Kickoff(m)   == Triggered(m) # None \/ m = "hello"

\* _flow_steps_for_session: the campaign as it is now, else the stored steps.
FlowOf(s) == IF s.campaign # None THEN defs[s.campaign].flow
             ELSE IF s.flow # None THEN s.flow ELSE DefaultFlow

\* The question the session is at; if the flow lost its index, the step that
\* has its key, or the first.
StepOf(s) ==
  LET flow == FlowOf(s)
      same == {i \in DOMAIN flow : flow[i] = s.key}
  IN IF s.idx \in DOMAIN flow THEN s.idx
     ELSE IF same = {} THEN 1 ELSE CHOOSE i \in same : \A j \in same : i <= j

\* _start_session
Started(m) ==
  LET c == Triggered(m)
      flow == IF c = None THEN DefaultFlow ELSE defs[c].flow
  IN [status |-> "active", campaign |-> c, flow |-> flow, idx |-> 1, key |-> flow[1],
      answers |-> {}]

\* The message is stored under the key of the question, unless it is empty.
Answered(s, m) ==
  IF m = "image" THEN s.answers ELSE s.answers \cup {FlowOf(s)[StepOf(s)]}

\* The next question is named but not counted.
Advanced_X(s, m) ==
  LET i == StepOf(s)
  IN IF FlowOf(s)[i] \in Choice /\ m # "option" THEN None
     ELSE IF i < Len(FlowOf(s)) THEN [s EXCEPT !.key = FlowOf(s)[i + 1], !.answers = Answered(s, m)]
     ELSE [s EXCEPT !.status = "completed", !.answers = Answered(s, m)]

\* None: the answer is no option, and the question is only sent again.  The steps of
\* a campaign are stored anew; a session without stored steps goes on without.
Advanced(s, m) ==
  LET i == StepOf(s)
      flow == FlowOf(s)
      read == [s EXCEPT !.answers = Answered(s, m), !.flow = IF s.campaign # None THEN flow ELSE @]
  IN IF flow[i] \in Choice /\ m # "option" THEN None
     ELSE IF i < Len(flow) THEN [read EXCEPT !.idx = i + 1, !.key = flow[i + 1]]
     ELSE [read EXCEPT !.status = "completed"]

\* A default word or a trigger starts a session, or one without stored steps again.
Starts(t) == Kickoff(t.msg) /\ (t.id = None \/ t.seen.flow = None)

\* What becomes of the session: None if nothing is written.
Moved(t) ==
  IF Starts(t) THEN Started(t.msg)
  ELSE IF t.id = None THEN None ELSE Advanced(t.seen, t.msg)

\* Only a start sets the status to active; an answer leaves what the row has by now.
Stored(t, s) ==
  IF s.status = "completed" \/ (~Starts(t) /\ rows[t.phone][t.id].status = "completed")
  THEN Closed ELSE s

\* uq_whatsapp_signup_sessions_phone_active: one row of each status.
Fits_X(t, s) == TRUE
Fits(t, s) == Rows(t.phone, Stored(t, s).status) \subseteq {t.id}

\* A form is recorded apart, with the fields the mapping finds in it.
FormOf(t) == IF t.msg = "form" THEN {t.phone} ELSE {}

\* Nothing to write, or a retry of the question: the message ends here.
Ignore(w) ==
  LET t == thread[w]
  IN /\ t.step = "read" /\ Moved(t) = None
     /\ forms' = forms \cup FormOf(t)
     /\ thread' = [thread EXCEPT ![w] = Idle]
     /\ UNCHANGED <<config, rows, records, thanked, crossed, rough, leads, pushes, faults>>

\* A record is written for each answer.
Recorded_X(t, s) == [records EXCEPT ![t.phone] = Append(@, ToSet(FlowOf(s)) = s.answers)]

\* The last answer records the signup, whatever became of the session meanwhile.
Recorded(t, s) ==
  IF s.status = "completed"
  THEN [records EXCEPT ![t.phone] = Append(@, ToSet(FlowOf(s)) = s.answers)] ELSE records

\* A question or, after the last answer, the thanks go out before the commit; a
\* send that fails is only logged.
Told(t, s) == {thanked} \cup IF s.status = "completed" THEN {thanked \cup {t.phone}} ELSE {}

\* The write, what is sent, and the commit are one step, as the row is locked from
\* the write on; they wait for the transaction that has it.
Reply(w) ==
  LET t == thread[w]
      s == Moved(t)
      id == IF t.id # None THEN t.id ELSE IF rows[t.phone][1] = None THEN 1 ELSE 2
  IN /\ t.step = "read" /\ s # None /\ Fits(t, s)
     /\ thanked' \in Told(t, s)
     /\ rows' = [rows EXCEPT ![t.phone][id] = Stored(t, s)]
     /\ records' = Recorded(t, s)
     /\ forms' = forms \cup FormOf(t)
     /\ thread' = [thread EXCEPT ![w] = Idle]
     /\ UNCHANGED <<config, crossed, rough, leads, pushes, faults>>

\* The process dies, or the commit fails, when the reply is out.
ReplyIsLost(w) ==
  LET t == thread[w]
      s == Moved(t)
  IN /\ t.step = "read" /\ s # None /\ Fits(t, s)
     /\ faults < MaxFaults /\ faults' = faults + 1
     /\ thanked' \in Told(t, s)
     /\ thread' = [thread EXCEPT ![w] = Idle]
     /\ UNCHANGED <<config, rows, records, forms, crossed, rough, leads, pushes>>

\* The index refuses the write: error 500, and nothing of the message is kept.
\* A second completed session of a phone never is.
Refuse(w) ==
  LET t == thread[w]
      s == Moved(t)
  IN /\ t.step = "read" /\ s # None /\ ~Fits(t, s)
     /\ thread' = [thread EXCEPT ![w] = Idle]
     /\ UNCHANGED <<config, talk, leads, pushes, faults>>

-----------------------------------------------------------------------------
(* An administrator pushes a record of phone p to Splynx. *)

\* A dry run posts nothing.
Post(p) == IF live THEN [leads EXCEPT ![p] = @ + 1] ELSE leads

\* push_record_to_splynx: the POST, and what it answers.  It may fail on the way
\* there or on the way back.  Nothing tells whether the record was pushed before.
PostLead(w, p) ==
  LET Answer(status) == thread' = [thread EXCEPT ![w] =
        [step |-> "log", phone |-> p, status |-> status]]
  IN /\ thread[w] = Idle /\ (records[p] # <<>> \/ p \in forms) /\ leads[p] < MaxPushes
     /\ \/ Answer(IF live THEN "ok" ELSE "dry_run") /\ leads' = Post(p) /\ UNCHANGED faults
        \/ live /\ Answer("failed") /\ UNCHANGED <<leads, faults>>
        \/ live /\ Answer("failed") /\ leads' = Post(p)
           /\ faults < MaxFaults /\ faults' = faults + 1
     /\ UNCHANGED <<config, talk, pushes>>

\* Only rows of live pushes that worked are state.
LogPush(w) ==
  LET t == thread[w]
  IN /\ t.step = "log"
     /\ pushes' = IF t.status = "ok" THEN [pushes EXCEPT ![t.phone] = @ + 1] ELSE pushes
     /\ thread' = [thread EXCEPT ![w] = Idle]
     /\ UNCHANGED <<config, talk, leads, faults>>

-----------------------------------------------------------------------------
\* The process dies under a thread, or its transaction fails.
Crash(w) ==
  /\ thread[w] # Idle /\ faults < MaxFaults /\ faults' = faults + 1
  /\ thread' = [thread EXCEPT ![w] = Idle]
  /\ UNCHANGED <<config, talk, leads, pushes>>

Webhook(w) == Ignore(w) \/ Reply(w) \/ Refuse(w)

Next ==
  \/ Administer
  \/ \E w \in Worker :
       \/ \E p \in Phone, m \in Messages : Receive(w, p, m)
       \/ Webhook(w) \/ ReplyIsLost(w)
       \/ \E p \in Phone : PostLead(w, p)
       \/ LogPush(w)
       \/ Crash(w)

Spec == Init /\ [][Next]_vars

\* Threads run to their end, and customers do not give up: each goes on sending
\* messages that answer any question.
FairSpec ==
  /\ Spec
  /\ \A w \in Worker : WF_vars(Webhook(w)) /\ WF_vars(LogPush(w))
  /\ \A p \in Phone : SF_vars(\E w \in Worker : Receive(w, p, "option"))

-----------------------------------------------------------------------------
\* Type invariant.
Reading == {t \in [step : {"read"}, phone : Phone, msg : Messages, id : {1, 2, None},
                   seen : Session \cup {None}] :
              IF t.id = None THEN t.seen = None ELSE t.seen \in Session /\ t.seen.status = "active"}
Logging == [step : {"log"}, phone : Phone, status : {"ok", "dry_run", "failed"}]
TypeOK ==
  /\ defs \in [Campaign -> [flow : Flows, active : BOOLEAN]]
  /\ rows \in [Phone -> [{1, 2} -> Session \cup {None}]]
  /\ \A p \in Phone : /\ \A status \in {"active", "completed"} : \A i, j \in Rows(p, status) : i = j
                      /\ rows[p][1] = None => rows[p][2] = None
  /\ records \in [Phone -> Seq(BOOLEAN)]
  /\ {forms, thanked, crossed, rough} \subseteq SUBSET Phone
  /\ leads \in [Phone -> 0..MaxPushes] /\ pushes \in [Phone -> Nat]
  /\ thread \in [Worker -> {Idle} \cup Reading \cup Logging]
  /\ \A w \in Worker : thread[w].step = "read" /\ thread[w].id # None
                       => rows[thread[w].phone][thread[w].id] # None
  /\ faults \in 0..MaxFaults

\* Pushes that are logged as done, or about to be.
Logged(p) == pushes[p] + Cardinality({w \in Worker : /\ thread[w].step = "log" /\ thread[w].phone = p
                                                     /\ thread[w].status = "ok"})

\* What the office sees is what happened.  A phone that completed a session, or
\* was thanked and no process died, has a record.  A record has an answer for every
\* question of its flow, also if messages crossed, came late or twice, unless the customer
\* sent pictures or the campaign was edited; and a completed session has one record,
\* and nothing else has, unless messages crossed.  Splynx has a customer for every push
\* that is logged as live and done, and for no other unless an answer of Splynx or its
\* log row got lost.
RecordsAddUp ==
  \A p \in Phone :
    /\ Rows(p, "completed") # {} => records[p] # <<>>
    /\ p \in thanked /\ faults = 0 => records[p] # <<>>
    /\ p \notin rough => \A i \in DOMAIN records[p] : records[p][i]
    /\ p \notin crossed => Len(records[p]) = IF Rows(p, "completed") = {} THEN 0 ELSE 1
    /\ Logged(p) <= leads[p]
    /\ faults = 0 => Logged(p) = leads[p]

\* The first signup of a phone ends: however messages of it cross, questions are
\* removed under it and threads die, a customer who goes on answering has a record.
SignupEnds ==
  \A p \in Phone : Rows(p, "active") # {} ~> Rows(p, "completed") # {}

-----------------------------------------------------------------------------
(* The inductive invariant. *)

\* A session that is on its way through its flow, question by question.
OnTrack(s) ==
  s.idx \in DOMAIN FlowOf(s) /\ s.answers = {FlowOf(s)[j] : j \in 1..(s.idx - 1)}

\* So are the session of a phone and what its messages in hand have read of it, none of
\* them a picture.
Tracked(p) ==
  /\ \A i \in Rows(p, "active") : OnTrack(rows[p][i])
  /\ \A w \in Worker : Holds(w, p) => /\ thread[w].msg # "image"
                                     /\ (thread[w].id # None => OnTrack(thread[w].seen))

\* Unless messages crossed, there is one in hand, and it has read the session as it is.
InTurn(p) ==
  \A w \in Worker : Holds(w, p) =>
    /\ \A v \in Worker : Holds(v, p) => v = w
    /\ IF thread[w].id = None THEN Rows(p, "active") = {}
       ELSE rows[p][thread[w].id] = thread[w].seen

IInv ==
  /\ TypeOK /\ RecordsAddUp
  /\ \A p \in Phone \ rough : Tracked(p)
  /\ \A p \in Phone \ crossed : InTurn(p)
=============================================================================
