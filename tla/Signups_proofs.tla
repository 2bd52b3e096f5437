---------------------------- MODULE Signups_proofs -----------------------------
(* Proofs about WhatsApp signups: type correctness, and that records, thanks  *)
(* and pushes add up for every number of phones, campaigns and workers.       *)
EXTENDS Signups, FiniteSetTheorems, TLAPS

-----------------------------------------------------------------------------
(* Flows and the place of a session in its flow.                              *)

\* A set of naturals that is not empty has a least element.
LEMMA LeastOf ==
  ASSUME NEW S \in SUBSET Nat, S # {}
  PROVE  \E m \in S : \A n \in S : m <= n
<1>1. PICK m \in S : \A n \in S : <<n, m>> \notin OpToRel(<, Nat)
  BY NatLessThanWellFounded, WFMin, Zenon
<1>2. \A n \in S : ~ (n < m)
  BY <1>1 DEF OpToRel
<1> QED
  BY <1>2

Defs == defs \in [Campaign -> [flow : Flows, active : BOOLEAN]]

LEMMA FlowKeys ==
  ASSUME NEW f \in Flows \cup {DefaultFlow}
  PROVE  /\ f \in Seq(STRING) /\ Len(f) \in Nat /\ Len(f) >= 1 /\ DOMAIN f = 1..Len(f) /\ f # None
         /\ \A i \in DOMAIN f : f[i] \in Keys
<1>1. f \in Seq(STRING) /\ f # <<>> /\ f # None
  BY ConstantsAssumption
<1>2. Len(f) \in Nat /\ Len(f) >= 1 /\ DOMAIN f = 1..Len(f)
  BY <1>1
<1>3. ToSet(f) \subseteq Keys
  BY DEF Keys
<1> QED
  BY <1>1, <1>2, <1>3 DEF ToSet

LEMMA FlowIs ==
  ASSUME Defs, NEW s \in Session
  PROVE  FlowOf(s) \in Flows \cup {DefaultFlow}
BY DEF Defs, Session, FlowOf

LEMMA StepIs ==
  ASSUME Defs, NEW s \in Session
  PROVE  StepOf(s) \in DOMAIN FlowOf(s) /\ FlowOf(s)[StepOf(s)] \in Keys
<1> DEFINE flow == FlowOf(s)
           same == {i \in DOMAIN flow : flow[i] = s.key}
<1>1. DOMAIN flow = 1..Len(flow) /\ Len(flow) \in Nat /\ Len(flow) >= 1 /\ \A i \in DOMAIN flow : flow[i] \in Keys
  BY FlowIs, FlowKeys
<1>2. same \in SUBSET Nat
  BY <1>1
<1>3. same # {} => \E i \in same : \A j \in same : i <= j
  BY <1>2, LeastOf
<1>4. StepOf(s) \in DOMAIN flow
  <2>1. StepOf(s) = IF s.idx \in DOMAIN flow THEN s.idx
                    ELSE IF same = {} THEN 1 ELSE CHOOSE i \in same : \A j \in same : i <= j
    BY DEF StepOf
  <2>2. same # {} => (CHOOSE i \in same : \A j \in same : i <= j) \in same
    BY <1>3
  <2>3. 1 \in DOMAIN flow
    BY <1>1
  <2> HIDE DEF flow
  <2> QED
    BY <2>1, <2>2, <2>3
<1> QED
  BY <1>1, <1>4

LEMMA StartedIs ==
  ASSUME Defs, NEW m \in Messages
  PROVE  /\ Started(m) \in Session /\ Started(m).status = "active" /\ Started(m).flow # None
         /\ OnTrack(Started(m))
<1> DEFINE c == Triggered(m)
           flow == IF c = None THEN DefaultFlow ELSE defs[c].flow
<1>1. c \in Campaign \cup {None} /\ (c # None => c \in Campaign)
  BY DEF Triggered
<1>2. flow \in Flows \cup {DefaultFlow}
  BY <1>1 DEF Defs
<1>3. flow # None /\ flow[1] \in Keys /\ 1 \in DOMAIN flow
  BY <1>2, FlowKeys
<1>4. Started(m) = [status |-> "active", campaign |-> c, flow |-> flow, idx |-> 1, key |-> flow[1],
                    answers |-> {}]
  BY DEF Started
<1>5. FlowOf(Started(m)) = flow
  BY <1>1, <1>3, <1>4 DEF FlowOf
<1> HIDE DEF flow, c
<1>6. Started(m) \in Session
  BY <1>1, <1>2, <1>3, <1>4 DEF Session
<1>7. {FlowOf(Started(m))[j] : j \in 1..(1 - 1)} = {}
  OBVIOUS
<1> QED
  BY <1>3, <1>4, <1>5, <1>6, <1>7 DEF OnTrack

\* What an answer makes of a session that it moves.
Answering(s, m) == [s EXCEPT !.answers = Answered(s, m),
                             !.flow = IF s.campaign # None THEN FlowOf(s) ELSE @]
Onwards(s, m) == [Answering(s, m) EXCEPT !.idx = StepOf(s) + 1, !.key = FlowOf(s)[StepOf(s) + 1]]
Finished(s, m) == [Answering(s, m) EXCEPT !.status = "completed"]

LEMMA AnsweringIs ==
  ASSUME Defs, NEW s \in Session, NEW m \in Messages
  PROVE  /\ Answering(s, m) \in Session /\ Answering(s, m).answers = Answered(s, m)
         /\ Answering(s, m).idx = s.idx /\ Answering(s, m).status = s.status
         /\ Answering(s, m).campaign = s.campaign
         /\ s.campaign = None => Answering(s, m).flow = s.flow
<1>1. /\ StepOf(s) \in DOMAIN FlowOf(s) /\ \A j \in DOMAIN FlowOf(s) : FlowOf(s)[j] \in Keys
      /\ FlowOf(s) \in Flows \cup {DefaultFlow}
  BY FlowIs, FlowKeys, StepIs
<1>2. Answered(s, m) \in SUBSET Keys
  BY <1>1 DEF Answered, Session
<1> QED
  BY <1>1, <1>2 DEF Answering, Session

\* An answer moves a session on, or ends it.
LEMMA AdvancedIs ==
  ASSUME Defs, NEW s \in Session, NEW m \in Messages, Advanced(s, m) # None
  PROVE  Advanced(s, m) \in Session
<1> DEFINE i == StepOf(s)
           flow == FlowOf(s)
           a == Answering(s, m)
<1>1. DOMAIN flow = 1..Len(flow) /\ Len(flow) \in Nat /\ i \in DOMAIN flow
      /\ \A j \in DOMAIN flow : flow[j] \in Keys
  BY FlowIs, FlowKeys, StepIs
<1>2. Advanced(s, m) = IF i < Len(flow) THEN [a EXCEPT !.idx = i + 1, !.key = flow[i + 1]]
                       ELSE [a EXCEPT !.status = "completed"]
  BY DEF Advanced, Answering
<1>3. a \in Session
  BY AnsweringIs
<1> HIDE DEF i, flow, a
<1>4. CASE i < Len(flow)
  <2>1. i + 1 \in DOMAIN flow /\ flow[i + 1] \in Keys /\ i + 1 \in Nat
    BY <1>1, <1>4
  <2> QED
    BY <1>2, <1>3, <1>4, <2>1 DEF Session
<1>5. CASE ~(i < Len(flow))
  BY <1>2, <1>3, <1>5 DEF Session
<1> QED
  BY <1>4, <1>5

\* A session on its way stays so, and in the end it has all answers.
LEMMA AdvancedOnTrack ==
  ASSUME Defs, NEW s \in Session, s.status = "active", NEW m \in Messages, m # "image",
         OnTrack(s), Advanced(s, m) # None
  PROVE  IF Advanced(s, m).status = "completed"
         THEN ToSet(FlowOf(Advanced(s, m))) = Advanced(s, m).answers
         ELSE OnTrack(Advanced(s, m))
<1> DEFINE i == s.idx
           flow == FlowOf(s)
           a == Answering(s, m)
           more == [a EXCEPT !.idx = i + 1, !.key = flow[i + 1]]
           done == [a EXCEPT !.status = "completed"]
<1>1. /\ DOMAIN flow = 1..Len(flow) /\ Len(flow) \in Nat /\ i \in DOMAIN flow /\ flow # None
      /\ StepOf(s) = i
  BY FlowIs, FlowKeys DEF OnTrack, StepOf
<1>2. Answered(s, m) = {flow[j] : j \in 1..i}
  <2>1. Answered(s, m) = {flow[j] : j \in 1..(i - 1)} \cup {flow[i]}
    BY <1>1 DEF Answered, OnTrack
  <2>2. 1..i = 1..(i - 1) \cup {i}
    BY <1>1
  <2> HIDE DEF i, flow
  <2> QED
    BY <2>1, <2>2
<1>3. Advanced(s, m) = IF i < Len(flow) THEN more ELSE done
  BY <1>1 DEF Advanced, Answering
<1>4. /\ a \in Session /\ a.answers = Answered(s, m) /\ a.idx = i /\ a.status = "active"
      /\ a.campaign = s.campaign /\ (s.campaign = None => a.flow = s.flow)
  BY AnsweringIs
<1>5. CASE i < Len(flow)
  <2>1. Advanced(s, m) = more
    BY <1>3, <1>5
  <2> HIDE DEF a
  <2>2. /\ more.status = "active" /\ more.idx = i + 1 /\ more.answers = {flow[j] : j \in 1..i}
        /\ more.campaign = s.campaign /\ (s.campaign = None => more.flow = s.flow)
    BY <1>2, <1>4 DEF Session
  <2> HIDE DEF more
  <2>3. FlowOf(more) = flow
    BY <2>2 DEF FlowOf
  <2>4. i + 1 \in DOMAIN flow /\ (i + 1) - 1 = i
    BY <1>1, <1>5
  <2> HIDE DEF flow, i
  <2> QED
    BY <2>1, <2>2, <2>3, <2>4 DEF OnTrack
<1>6. CASE ~(i < Len(flow))
  <2>1. Advanced(s, m) = done
    BY <1>3, <1>6
  <2>2. i = Len(flow)
    BY <1>1, <1>6
  <2> HIDE DEF a
  <2>3. /\ done.status = "completed" /\ done.answers = {flow[j] : j \in 1..i}
        /\ done.campaign = s.campaign /\ (s.campaign = None => done.flow = s.flow)
    BY <1>2, <1>4 DEF Session
  <2>4. ToSet(flow) = {flow[j] : j \in 1..i}
    BY <1>1, <2>2 DEF ToSet
  <2> HIDE DEF done
  <2>5. FlowOf(done) = flow
    BY <2>3 DEF FlowOf
  <2> HIDE DEF flow, i
  <2> QED
    BY <2>1, <2>3, <2>4, <2>5
<1> QED
  BY <1>5, <1>6

-----------------------------------------------------------------------------
(* What a message does to the session that was read.                          *)

LEMMA MovedIs ==
  ASSUME Defs, NEW t \in Reading, Moved(t) # None
  PROVE  /\ Moved(t) \in Session
         /\ t.id = None => Starts(t) /\ Moved(t).status = "active"
         /\ t.msg # "image" /\ (t.id # None => OnTrack(t.seen))
            => IF Moved(t).status = "completed"
               THEN ToSet(FlowOf(Moved(t))) = Moved(t).answers ELSE OnTrack(Moved(t))
<1>1. t.msg \in Messages /\ (t.id # None => t.seen \in Session /\ t.seen.status = "active")
  BY DEF Reading
<1>2. CASE Starts(t)
  <2>1. Moved(t) = Started(t.msg)
    BY <1>2 DEF Moved
  <2> QED
    BY <1>1, <1>2, <2>1, StartedIs
<1>3. CASE ~Starts(t)
  <2>1. t.id # None /\ Moved(t) = Advanced(t.seen, t.msg)
    BY <1>3 DEF Moved
  <2>2. Moved(t) \in Session
    BY <1>1, <2>1, AdvancedIs
  <2>3. OnTrack(t.seen) /\ t.msg # "image"
        => IF Moved(t).status = "completed"
           THEN ToSet(FlowOf(Moved(t))) = Moved(t).answers ELSE OnTrack(Moved(t))
    BY <1>1, <2>1, AdvancedOnTrack
  <2> QED
    BY <2>1, <2>2, <2>3
<1> QED
  BY <1>2, <1>3

LEMMA ClosedIs == Closed \in Session /\ Closed.status = "completed"
<1>1. DefaultFlow[1] \in Keys /\ None \in Campaign \cup {None}
  BY FlowKeys
<1> QED
  BY <1>1 DEF Closed, Session

\* What is stored has the status that was written, or the one that was there.
LEMMA StoredIs ==
  ASSUME NEW t \in Reading, NEW s \in Session, t.id = None => Starts(t)
  PROVE  /\ Stored(t, s) \in Session
         /\ s.status = "completed" => Stored(t, s).status = "completed"
         /\ Stored(t, s).status = "active" => Stored(t, s) = s
         /\ s.status # "completed" /\ Stored(t, s).status = "completed"
            => t.id # None /\ rows[t.phone][t.id].status = "completed"
         /\ Stored(t, s).status \in {"active", "completed"}
<1>1. Stored(t, s) = Closed \/ Stored(t, s) = s
  BY DEF Stored
<1>2. s.status \in {"active", "completed"}
  BY DEF Session
<1> QED
  BY <1>1, <1>2, ClosedIs DEF Stored

-----------------------------------------------------------------------------
(* The reply: the row it writes, and the record.                              *)

\* The row that a reply writes.
Target(t) == IF t.id # None THEN t.id ELSE IF rows[t.phone][1] = None THEN 1 ELSE 2

LEMMA ThreadIs ==
  ASSUME TypeOK, NEW w \in Worker
  PROVE  /\ thread[w].step = "read" => thread[w] \in Reading
         /\ thread[w].step = "log" => thread[w] \in Logging
         /\ thread[w] = Idle => thread[w].step = "idle"
BY DEF TypeOK, Idle, Reading, Logging

LEMMA ReplyRows ==
  ASSUME TypeOK, NEW w \in Worker, Reply(w)
  PROVE  LET t == thread[w]
             s == Moved(t)
         IN /\ t \in Reading /\ s \in Session /\ Target(t) \in {1, 2}
            /\ rows' = [rows EXCEPT ![t.phone][Target(t)] = Stored(t, s)]
            /\ rows' \in [Phone -> [{1, 2} -> Session \cup {None}]]
            /\ \A p \in Phone \ {t.phone} : rows'[p] = rows[p]
            /\ \A i \in {1, 2} : rows'[t.phone][i] = IF i = Target(t) THEN Stored(t, s)
                                                     ELSE rows[t.phone][i]
            /\ \A i \in Rows(t.phone, Stored(t, s).status) : i = Target(t)
            /\ t.id = None => Starts(t)
<1> DEFINE t == thread[w]
           s == Moved(t)
           r == Stored(t, s)
           i == Target(t)
<1>1. t \in Reading /\ s # None /\ Fits(t, s) /\ rows' = [rows EXCEPT ![t.phone][i] = r]
  BY ThreadIs DEF Reply, Target
<1>2. s \in Session /\ r \in Session /\ (t.id = None => Starts(t))
  <2>1. s \in Session /\ (t.id = None => Starts(t))
    BY <1>1, MovedIs DEF Defs, TypeOK
  <2> QED
    BY <1>1, <2>1, StoredIs
<1>3. t.phone \in Phone /\ t.id \in {1, 2, None} /\ i \in {1, 2}
  BY <1>1 DEF Reading, Target
<1>4. \A j \in Rows(t.phone, r.status) : j = i
  <2>1. \A j \in Rows(t.phone, r.status) : j = t.id /\ j \in {1, 2}
    BY <1>1 DEF Fits, Rows
  <2> QED
    BY <2>1, ConstantsAssumption DEF Target
<1> HIDE DEF r, s, i, t
<1>5. rows \in [Phone -> [{1, 2} -> Session \cup {None}]]
  BY DEF TypeOK
<1> QED
  BY <1>1, <1>2, <1>3, <1>4, <1>5 DEF r, s, i, t

LEMMA ReplyType ==
  ASSUME TypeOK, NEW w \in Worker, Reply(w)
  PROVE  TypeOK'
<1> DEFINE t == thread[w]
           s == Moved(t)
           r == Stored(t, s)
           i == Target(t)
           p == t.phone
<1>1. /\ t \in Reading /\ s \in Session /\ i \in {1, 2} /\ p \in Phone
      /\ rows' \in [Phone -> [{1, 2} -> Session \cup {None}]]
      /\ \A q \in Phone \ {p} : rows'[q] = rows[q]
      /\ \A j \in {1, 2} : rows'[p][j] = IF j = i THEN r ELSE rows[p][j]
      /\ \A j \in Rows(p, r.status) : j = i
      /\ t.id = None => Starts(t)
  BY ReplyRows DEF Reading
<1>2. r \in Session /\ r # None
  BY <1>1, StoredIs, SessionAssumption
<1>3. \A q \in Phone : \A status \in {"active", "completed"} : \A j, k \in Rows(q, status)' : j = k
  <2> SUFFICES ASSUME NEW q \in Phone, NEW status \in {"active", "completed"},
                      NEW j \in Rows(q, status)', NEW k \in Rows(q, status)'
               PROVE  j = k
    OBVIOUS
  <2>1. j \in {1, 2} /\ k \in {1, 2} /\ rows'[q][j].status = status /\ rows'[q][k].status = status
        /\ rows'[q][j] # None /\ rows'[q][k] # None
    BY DEF Rows
  <2>2. \A a, b \in Rows(q, status) : a = b
    BY DEF TypeOK
  <2> HIDE DEF t, s, r, i, p
  <2> QED
    BY <1>1, <2>1, <2>2 DEF Rows
<1>4. \A q \in Phone : rows'[q][1] = None => rows'[q][2] = None
  <2>1. rows[p][1] = None => rows[p][2] = None
    BY <1>1 DEF TypeOK
  <2>2. i = 2 => rows[p][1] # None
    <3>1. CASE t.id = None
      BY <3>1 DEF Target
    <3>2. CASE t.id # None
      <4>1. rows[p][t.id] # None
        BY <1>1, <3>2 DEF TypeOK, Reading
      <4> QED
        BY <2>1, <3>2, <4>1 DEF Target
    <3> QED
      BY <3>1, <3>2
  <2>3. \A q \in Phone : rows[q][1] = None => rows[q][2] = None
    BY DEF TypeOK
  <2> HIDE DEF t, s, r, i, p
  <2> QED
    BY <1>1, <1>2, <2>1, <2>2, <2>3
<1>5. records' \in [Phone -> Seq(BOOLEAN)]
  <2>1. records \in [Phone -> Seq(BOOLEAN)] /\ records' = Recorded(t, s)
    BY DEF TypeOK, Reply
  <2>2. (ToSet(FlowOf(s)) = s.answers) \in BOOLEAN
    OBVIOUS
  <2>3. \A b \in BOOLEAN : Append(records[p], b) \in Seq(BOOLEAN)
    BY <1>1, <2>1
  <2>4. Append(records[p], (ToSet(FlowOf(s)) = s.answers)) \in Seq(BOOLEAN)
    BY <2>2, <2>3
  <2> HIDE DEF t, s, r, i
  <2> QED
    BY <1>1, <2>1, <2>4 DEF Recorded
<1>6. {forms', thanked', crossed', rough'} \subseteq SUBSET Phone
  BY <1>1 DEF TypeOK, Reply, FormOf, Told
<1>7. thread' \in [Worker -> {Idle} \cup Reading \cup Logging] /\ thread' = [thread EXCEPT ![w] = Idle]
  BY DEF TypeOK, Reply
<1>8. \A v \in Worker : thread'[v].step = "read" /\ thread'[v].id # None
                        => rows'[thread'[v].phone][thread'[v].id] # None
  <2> SUFFICES ASSUME NEW v \in Worker, thread'[v].step = "read", thread'[v].id # None
               PROVE  rows'[thread'[v].phone][thread'[v].id] # None
    OBVIOUS
  <2>1. v # w /\ thread'[v] = thread[v] /\ thread[v] \in Reading
    BY <1>7, ThreadIs DEF Idle, TypeOK
  <2>2. rows[thread[v].phone][thread[v].id] # None /\ thread[v].phone \in Phone /\ thread[v].id \in {1, 2}
    BY <2>1 DEF TypeOK, Reading
  <2> HIDE DEF t, s, r, i, p
  <2> QED
    BY <1>1, <1>2, <2>1, <2>2
<1>9. /\ UNCHANGED <<defs, leads, pushes, faults>>
  BY DEF Reply, config
<1> HIDE DEF t, s, r, i, p
<1> QED
  BY <1>1, <1>3, <1>4, <1>5, <1>6, <1>7, <1>8, <1>9 DEF TypeOK

-----------------------------------------------------------------------------
(* Records and thanks of a phone.                                             *)

Talked(p) ==
  /\ Rows(p, "completed") # {} => records[p] # <<>>
  /\ p \in thanked /\ faults = 0 => records[p] # <<>>
  /\ p \notin rough => Tracked(p) /\ \A i \in DOMAIN records[p] : records[p][i]
  /\ p \notin crossed => /\ Len(records[p]) = IF Rows(p, "completed") = {} THEN 0 ELSE 1
                         /\ InTurn(p)

\* The campaign of a session keeps its flow, and with it the session its questions.
Same(s) == s.campaign # None => defs'[s.campaign].flow = defs[s.campaign].flow

LEMMA SameTrack ==
  ASSUME NEW s, Same(s)
  PROVE  OnTrack(s)' <=> OnTrack(s)
BY DEF Same, OnTrack, FlowOf

\* Steps that change neither sessions nor records keep a phone right, if they
\* start no message and thank nobody.
LEMMA TalkStays ==
  ASSUME TypeOK, NEW p \in Phone, Talked(p), UNCHANGED <<rows, records>>,
         p \notin rough' => p \notin rough, p \notin crossed' => p \notin crossed,
         p \in thanked' => p \in thanked \/ faults' # 0, faults' = 0 => faults = 0,
         p \notin rough' => \A i \in Rows(p, "active") : Same(rows[p][i]),
         p \notin rough' => \A v \in Worker : Holds(v, p) /\ thread[v].id # None => Same(thread[v].seen),
         \A v \in Worker : thread'[v].step = "read" => thread'[v] = thread[v]
  PROVE  Talked(p)'
<1>1. \A status : Rows(p, status)' = Rows(p, status)
  BY DEF Rows
<1>2. \A v \in Worker : Holds(v, p)' => Holds(v, p) /\ thread'[v] = thread[v]
  BY DEF Holds
<1>3. ASSUME p \notin rough'
      PROVE  Tracked(p)'
  <2>1. p \notin rough /\ Tracked(p)
    BY <1>3 DEF Talked
  <2>2. \A i \in Rows(p, "active")' : OnTrack(rows[p][i])'
    <3> SUFFICES ASSUME NEW i \in Rows(p, "active")
                 PROVE  OnTrack(rows[p][i])'
      BY <1>1
    <3>1. OnTrack(rows[p][i]) /\ Same(rows[p][i])
      BY <1>3, <2>1 DEF Tracked
    <3>2. rows'[p][i] = rows[p][i]
      OBVIOUS
    <3> QED
      BY <3>1, <3>2 DEF OnTrack, Same, FlowOf
  <2>3. ASSUME NEW v \in Worker, Holds(v, p)', thread'[v].id # None
        PROVE  OnTrack(thread[v].seen)'
    <3>1. Holds(v, p) /\ thread'[v] = thread[v] /\ OnTrack(thread[v].seen)
      BY <1>2, <2>1, <2>3 DEF Tracked
    <3>2. Same(thread[v].seen)
      BY <1>3, <2>3, <3>1
    <3> QED
      BY <3>1, <3>2 DEF OnTrack, Same, FlowOf
  <2>4. \A v \in Worker : Holds(v, p)' => thread'[v].msg # "image"
    BY <1>2, <2>1 DEF Tracked
  <2> QED
    BY <2>2, <2>3, <2>4 DEF Tracked
<1>4. ASSUME p \notin crossed'
      PROVE  InTurn(p)'
  BY <1>1, <1>2, <1>4 DEF InTurn, Talked
<1> QED
  BY <1>1, <1>3, <1>4 DEF Talked

LEMMA ReplyTalked ==
  ASSUME TypeOK, NEW w \in Worker, Reply(w), NEW p \in Phone, Talked(p)
  PROVE  Talked(p)'
<1> DEFINE t == thread[w]
           s == Moved(t)
           r == Stored(t, s)
           i == Target(t)
<1>1. /\ t \in Reading /\ s \in Session /\ i \in {1, 2} /\ t.phone \in Phone
      /\ \A q \in Phone \ {t.phone} : rows'[q] = rows[q]
      /\ \A j \in {1, 2} : rows'[t.phone][j] = IF j = i THEN r ELSE rows[t.phone][j]
      /\ \A j \in Rows(t.phone, r.status) : j = i
      /\ t.id = None => Starts(t)
  BY ReplyRows DEF Reading
<1>2. /\ t.step = "read" /\ thread' = [thread EXCEPT ![w] = Idle] /\ thanked' \in Told(t, s)
      /\ records' = Recorded(t, s) /\ UNCHANGED <<defs, crossed, rough, faults>>
  BY DEF Reply, config
<1>3. \A v \in Worker : thread'[v].step = "read" => v # w /\ thread'[v] = thread[v]
  BY <1>2 DEF TypeOK, Idle
<1>4. \A q : FlowOf(q)' = FlowOf(q) /\ OnTrack(q)' = OnTrack(q)
  BY <1>2 DEF FlowOf, OnTrack
<1>5. /\ r \in Session /\ r # None /\ s.status \in {"active", "completed"}
      /\ s.status = "completed" => r.status = "completed"
      /\ r.status = "active" => r = s
      /\ s.status # "completed" /\ r.status = "completed"
         => t.id # None /\ rows[t.phone][t.id].status = "completed"
      /\ r.status \in {"active", "completed"}
  BY <1>1, StoredIs, SessionAssumption DEF Session
<1>6. records \in [Phone -> Seq(BOOLEAN)]
  BY DEF TypeOK
<1>7. CASE p # t.phone
  <2>1. rows'[p] = rows[p] /\ records'[p] = records[p] /\ (p \in thanked' => p \in thanked)
    BY <1>1, <1>2, <1>6, <1>7 DEF Recorded, Told
  <2>2. \A status : Rows(p, status)' = Rows(p, status)
    BY <2>1 DEF Rows
  <2>3. \A v \in Worker : Holds(v, p)' => Holds(v, p) /\ thread'[v] = thread[v]
    BY <1>3 DEF Holds
  <2>4. InTurn(p) => InTurn(p)'
    BY <2>1, <2>2, <2>3 DEF InTurn
  <2>5. Tracked(p) => Tracked(p)'
    BY <1>4, <2>1, <2>2, <2>3 DEF Tracked
  <2> QED
    BY <1>2, <2>1, <2>2, <2>4, <2>5 DEF Talked
<1>8. CASE p = t.phone
  <2>1. \A q : i \in Rows(p, q)' <=> q = r.status
    <3>1. rows'[p][i] = r /\ r # None /\ i \in {1, 2}
      BY <1>1, <1>5, <1>8
    <3> HIDE DEF i, r, s, t
    <3> QED
      BY <3>1 DEF Rows
  <2>2. \A j \in {1, 2} \ {i} : rows'[p][j] = rows[p][j] /\ \A q : j \in Rows(p, q)' <=> j \in Rows(p, q)
    BY <1>1, <1>8 DEF Rows
  <2>3. s.status = "completed" => records'[p] = Append(records[p], ToSet(FlowOf(s)) = s.answers)
    BY <1>1, <1>2, <1>6, <1>8 DEF Recorded
  <2>4. s.status # "completed" => records'[p] = records[p] /\ thanked' = thanked
    BY <1>2 DEF Recorded, Told
  <2>5. s.status = "completed" => records'[p] # <<>>
    BY <1>6, <2>3
  <2>6. t.id # None => rows[p][t.id] # None /\ t.id \in {1, 2} /\ i = t.id
    BY <1>1, <1>2, <1>8 DEF TypeOK, Reading, Target
  <2>7. s.status # "completed" /\ r.status = "completed" => i \in Rows(p, "completed")
    BY <1>5, <1>8, <2>6 DEF Rows
  <2>8. \A q : Rows(p, q) \subseteq {1, 2} /\ Rows(p, q)' \subseteq {1, 2}
    BY DEF Rows
  <2>9. Rows(p, "completed")' # {} => records'[p] # <<>>
    <3>1. CASE s.status = "completed"
      BY <2>5, <3>1
    <3>2. CASE s.status # "completed"
      <4> SUFFICES ASSUME Rows(p, "completed")' # {}
                   PROVE  Rows(p, "completed") # {}
        BY <2>4, <3>2 DEF Talked
      <4>1. PICK j \in Rows(p, "completed")' : j \in {1, 2}
        BY <2>8
      <4> HIDE DEF i, r, s, t
      <4> QED
        BY <1>5, <2>1, <2>2, <2>7, <3>2, <4>1
    <3> QED
      BY <3>1, <3>2
  <2>10. p \in thanked' /\ faults' = 0 => records'[p] # <<>>
    BY <1>2, <2>4, <2>5 DEF Talked
  <2>11. Holds(w, p)
    BY <1>2, <1>8 DEF Holds
  <2>12. ASSUME p \notin rough'
         PROVE  Tracked(p)' /\ \A k \in DOMAIN records'[p] : records'[p][k]
    <3>1. Tracked(p) /\ \A k \in DOMAIN records[p] : records[p][k]
      BY <1>2, <2>12 DEF Talked
    <3>2. t.msg # "image" /\ (t.id # None => OnTrack(t.seen))
      BY <2>11, <3>1 DEF Tracked
    <3>3. IF s.status = "completed" THEN ToSet(FlowOf(s)) = s.answers ELSE OnTrack(s)
      <4>1. s # None /\ Defs
        BY <1>1, SessionAssumption DEF TypeOK, Defs
      <4> QED
        BY <1>1, <3>2, <4>1, MovedIs
    <3>4. \A j \in Rows(p, "active")' : OnTrack(rows[p][j])'
      <4> SUFFICES ASSUME NEW j \in Rows(p, "active")'
                   PROVE  OnTrack(rows'[p][j])
        BY <1>4
      <4>1. CASE j = i
        <5>1. r.status = "active" /\ rows'[p][j] = r
          BY <1>1, <1>8, <2>1, <4>1
        <5>2. r = s /\ s.status # "completed"
          BY <1>5, <5>1
        <5> QED
          BY <3>3, <5>1, <5>2
      <4>2. CASE j # i
        <5>1. j \in Rows(p, "active") /\ rows'[p][j] = rows[p][j]
          BY <2>2, <2>8, <4>2
        <5> QED
          BY <3>1, <5>1 DEF Tracked
      <4> QED
        BY <4>1, <4>2
    <3>5. \A v \in Worker : Holds(v, p)' => Holds(v, p) /\ thread'[v] = thread[v]
      BY <1>3 DEF Holds
    <3>6. Tracked(p)'
      BY <1>4, <3>1, <3>4, <3>5 DEF Tracked
    <3>7. CASE s.status = "completed"
      <4>1. (ToSet(FlowOf(s)) = s.answers) = TRUE
        BY <3>3, <3>7
      <4>2. records'[p] = Append(records[p], TRUE)
        BY <2>3, <3>7, <4>1, Zenon
      <4>3. \A k \in DOMAIN records'[p] : records'[p][k]
        BY <1>6, <3>1, <4>2
      <4> QED
        BY <3>6, <4>3
    <3>8. CASE s.status # "completed"
      BY <2>4, <3>1, <3>6, <3>8
    <3> QED
      BY <3>7, <3>8
  <2>13. ASSUME p \notin crossed'
         PROVE  /\ Len(records'[p]) = IF Rows(p, "completed")' = {} THEN 0 ELSE 1
                /\ InTurn(p)'
    <3>1. /\ Len(records[p]) = IF Rows(p, "completed") = {} THEN 0 ELSE 1
          /\ InTurn(p)
      BY <1>2, <2>13 DEF Talked
    <3>3. /\ \A v \in Worker : Holds(v, p) => v = w
          /\ IF t.id = None THEN Rows(p, "active") = {} ELSE rows[p][t.id] = t.seen
      BY <2>11, <3>1 DEF InTurn
    <3>4. t.id # None => t.id \in Rows(p, "active") /\ t.id \notin Rows(p, "completed")
      BY <1>1, <2>6, <3>3 DEF Rows, Reading
    <3>5. t.id = None => s.status = "active"
      <4>1. s # None /\ Defs
        BY <1>1, SessionAssumption DEF TypeOK, Defs
      <4> QED
        BY <1>1, <4>1, MovedIs
    <3>6. \A v \in Worker : ~ Holds(v, p)'
      BY <1>3, <3>3 DEF Holds
    <3>8. InTurn(p)'
      BY <3>6 DEF InTurn
    <3>9. CASE s.status = "completed"
      <4>1. t.id # None /\ i = t.id /\ r.status = "completed"
        BY <1>5, <2>6, <3>5, <3>9
      <4>2. Rows(p, "completed") = {}
        BY <1>1, <1>8, <3>4, <4>1
      <4>3. Len(records[p]) = 0
        BY <3>1, <4>2
      <4>4. Len(records'[p]) = 1
        <5>1. \A b \in BOOLEAN : Len(Append(records[p], b)) = Len(records[p]) + 1
          BY <1>6
        <5>2. \E b \in BOOLEAN : records'[p] = Append(records[p], b)
          BY <2>3, <3>9, Zenon
        <5> QED
          BY <4>3, <5>1, <5>2
      <4>5. Rows(p, "completed")' # {}
        BY <2>1, <4>1
      <4> QED
        BY <3>8, <4>4, <4>5
    <3>10. CASE s.status # "completed"
      <4>1. i \notin Rows(p, "completed")
        <5>1. CASE t.id # None
          BY <2>6, <3>4, <5>1
        <5>2. CASE t.id = None
          <6>1. Rows(p, "active") = {}
            BY <3>3, <5>2
          <6>2. i = 1 => rows[p][1] = None
            BY <1>8, <5>2 DEF Target
          <6>3. i = 2 => rows[p][1] # None
            BY <1>8, <5>2 DEF Target
          <6>4. rows[p][1] # None => 1 \in Rows(p, "completed")
            <7>1. rows[p][1] # None => rows[p][1] \in Session
              BY DEF TypeOK
            <7> QED
              BY <6>1, <7>1 DEF Rows, Session
          <6>5. \A a, b \in Rows(p, "completed") : a = b
            BY DEF TypeOK
          <6>6. 1 \in Rows(p, "completed") => rows[p][1] # None
            BY DEF Rows
          <6> HIDE DEF i
          <6> QED
            BY <1>1, <6>2, <6>3, <6>4, <6>5, <6>6
        <5> QED
          BY <5>1, <5>2
      <4>2. r.status # "completed"
        BY <2>7, <3>10, <4>1
      <4>3. Rows(p, "completed")' = Rows(p, "completed")
        <5>1. i \notin Rows(p, "completed")'
          BY <2>1, <4>2
        <5> HIDE DEF i, r, s, t
        <5> QED
          BY <2>2, <2>8, <4>1, <5>1
      <4> QED
        BY <2>4, <3>1, <3>8, <3>10, <4>3
    <3> QED
      BY <3>9, <3>10
  <2> QED
    BY <2>9, <2>10, <2>12, <2>13 DEF Talked
<1> QED
  BY <1>7, <1>8

-----------------------------------------------------------------------------
(* The other steps.                                                           *)

\* Steps that change neither sessions nor records keep the types, if what they
\* change is of its type.
LEMMA TypeStays ==
  ASSUME TypeOK, UNCHANGED <<rows, records>>, Defs', {forms', thanked', crossed', rough'} \subseteq SUBSET Phone,
         leads' \in [Phone -> 0..MaxPushes], pushes' \in [Phone -> Nat], faults' \in 0..MaxFaults,
         thread' \in [Worker -> {Idle} \cup Reading \cup Logging],
         \A v \in Worker : thread'[v].step = "read" /\ thread'[v].id # None
                           => rows[thread'[v].phone][thread'[v].id] # None
  PROVE  TypeOK'
<1>1. \A p, status : Rows(p, status)' = Rows(p, status)
  BY DEF Rows
<1> QED
  BY <1>1 DEF TypeOK, Defs

\* A thread that ends its work has nothing to be of a type.
LEMMA Done ==
  ASSUME TypeOK, NEW w \in Worker, thread' = [thread EXCEPT ![w] = Idle]
  PROVE  /\ thread' \in [Worker -> {Idle} \cup Reading \cup Logging]
         /\ \A v \in Worker : thread'[v].step = "read" => v # w /\ thread'[v] = thread[v]
         /\ \A v \in Worker : thread'[v].step = "log" => v # w /\ thread'[v] = thread[v]
         /\ \A v \in Worker : thread'[v].step = "read" /\ thread'[v].id # None
                              => rows[thread'[v].phone][thread'[v].id] # None
<1>1. \A v \in Worker : thread'[v] = IF v = w THEN Idle ELSE thread[v]
  BY DEF TypeOK
<1> QED
  BY <1>1 DEF TypeOK, Idle

LEMMA AdministerStep ==
  ASSUME TypeOK, Administer
  PROVE  TypeOK' /\ \A p \in Phone : Talked(p) => Talked(p)'
<1>1. UNCHANGED <<rows, records, forms, thanked, crossed, leads, pushes, thread, faults>>
  BY DEF Administer
<1>2. Defs' /\ rough' \subseteq Phone /\ rough \subseteq rough'
  <2>1. CASE SaveSettings
    BY <2>1 DEF SaveSettings, TypeOK, Defs
  <2>2. CASE SaveCampaignDef
    BY <2>2 DEF SaveCampaignDef, Following, TypeOK, Defs
  <2> QED
    BY <2>1, <2>2 DEF Administer
<1>3. TypeOK'
  BY <1>1, <1>2, TypeStays DEF TypeOK
<1>4. ASSUME NEW p \in Phone, p \notin rough'
      PROVE  /\ \A i \in Rows(p, "active") : Same(rows[p][i])
             /\ \A v \in Worker : Holds(v, p) /\ thread[v].id # None => Same(thread[v].seen)
  <2>1. CASE SaveSettings
    BY <2>1 DEF SaveSettings, Same
  <2>2. CASE SaveCampaignDef
    <3>1. PICK c \in Campaign : (\A d \in Campaign \ {c} : defs'[d] = defs[d]) /\ p \notin Following(c)
      <4>1. PICK c \in Campaign, f \in Flows, on \in BOOLEAN :
              /\ defs' = [defs EXCEPT ![c] = [flow |-> f, active |-> on]]
              /\ rough' = rough \cup Following(c)
        BY <2>2 DEF SaveCampaignDef
      <4> QED
        BY <1>4, <4>1 DEF TypeOK
    <3>2. \A i \in Rows(p, "active") : rows[p][i].campaign \in Campaign \cup {None} /\ rows[p][i].campaign # c
      BY <3>1 DEF Rows, TypeOK, Session, Following
    <3>3. \A v \in Worker : Holds(v, p) /\ thread[v].id # None
            => thread[v].seen.campaign \in Campaign \cup {None} /\ thread[v].seen.campaign # c
      <4> SUFFICES ASSUME NEW v \in Worker, Holds(v, p), thread[v].id # None
                   PROVE  thread[v].seen.campaign \in Campaign \cup {None} /\ thread[v].seen.campaign # c
        OBVIOUS
      <4>1. thread[v] \in Reading
        BY ThreadIs DEF Holds
      <4>2. thread[v].seen \in Session
        BY <4>1 DEF Reading
      <4> QED
        BY <3>1, <4>2 DEF Session, Following
    <3> QED
      BY <3>1, <3>2, <3>3 DEF Same
  <2> QED
    BY <2>1, <2>2 DEF Administer
<1>5. ASSUME NEW p \in Phone, Talked(p)
      PROVE  Talked(p)'
  BY <1>1, <1>2, <1>4, <1>5, TalkStays
<1> QED
  BY <1>3, <1>5

LEMMA ReceiveStep ==
  ASSUME TypeOK, NEW w \in Worker, NEW q \in Phone, NEW m \in Messages, Receive(w, q, m)
  PROVE  TypeOK' /\ \A p \in Phone : Talked(p) => Talked(p)'
<1> DEFINE id == IF Rows(q, "active") = {} THEN None ELSE CHOOSE i \in Rows(q, "active") : TRUE
           t == [step |-> "read", phone |-> q, msg |-> m, id |-> id,
                 seen |-> IF id = None THEN None ELSE rows[q][id]]
<1>1. /\ thread[w] = Idle /\ thread' = [thread EXCEPT ![w] = t]
      /\ crossed' = IF \E v \in Worker : Holds(v, q) THEN crossed \cup {q} ELSE crossed
      /\ rough' = IF m = "image" THEN rough \cup {q} ELSE rough
      /\ UNCHANGED <<defs, live, rows, records, forms, thanked, leads, pushes, faults>>
  BY DEF Receive
<1>2. IF Rows(q, "active") = {} THEN id = None ELSE id \in Rows(q, "active") /\ id # None
  BY ConstantsAssumption DEF Rows
<1>3. id # None => id \in {1, 2} /\ rows[q][id] \in Session /\ rows[q][id].status = "active" /\ rows[q][id] # None
  BY <1>2 DEF Rows, TypeOK
<1> HIDE DEF id
<1>4. t \in Reading
  BY <1>3 DEF Reading
<1>5. \A v \in Worker : thread'[v] = IF v = w THEN t ELSE thread[v]
  BY <1>1 DEF TypeOK
<1>6. thread' \in [Worker -> {Idle} \cup Reading \cup Logging]
  BY <1>1, <1>4 DEF TypeOK
<1>7. \A v \in Worker : thread'[v].step = "read" /\ thread'[v].id # None
                        => rows[thread'[v].phone][thread'[v].id] # None
  <2>1. t.phone = q /\ t.id = id
    OBVIOUS
  <2> HIDE DEF t
  <2> QED
    BY <1>3, <1>5, <2>1 DEF TypeOK
<1>8. TypeOK'
  BY <1>1, <1>6, <1>7, TypeStays DEF TypeOK, Defs
<1>9. ASSUME NEW p \in Phone, Talked(p)
      PROVE  Talked(p)'
  <2>1. \A status : Rows(p, status)' = Rows(p, status)
    BY <1>1 DEF Rows
  <2>2. \A s : OnTrack(s)' = OnTrack(s)
    BY <1>1 DEF OnTrack, FlowOf
  <2>3. \A v \in Worker : Holds(v, p)' <=> IF v = w THEN p = q ELSE Holds(v, p)
    <3>1. t.step = "read" /\ t.phone = q
      OBVIOUS
    <3> QED
      BY <1>5, <3>1 DEF Holds
  <2>4. thread'[w] = t /\ t.msg = m /\ t.id = id /\ t.seen = IF id = None THEN None ELSE rows[q][id]
    BY <1>5
  <2> HIDE DEF t
  <2>5. ASSUME p \notin rough'
        PROVE  p \notin rough /\ Tracked(p)'
    <3>1. p \notin rough /\ Tracked(p) /\ (p = q => m # "image")
      BY <1>1, <1>9, <2>5 DEF Talked
    <3>2. \A i \in Rows(p, "active")' : OnTrack(rows[p][i])'
      BY <1>1, <2>1, <2>2, <3>1 DEF Tracked
    <3>3. ASSUME NEW v \in Worker, Holds(v, p)'
          PROVE  thread'[v].msg # "image" /\ (thread'[v].id # None => OnTrack(thread'[v].seen))
      <4>1. CASE v = w
        BY <1>2, <2>3, <2>4, <3>1, <3>3, <4>1 DEF Tracked
      <4>2. CASE v # w
        BY <1>5, <2>3, <3>1, <3>3, <4>2 DEF Tracked
      <4> QED
        BY <4>1, <4>2
    <3> QED
      BY <2>2, <3>1, <3>2, <3>3 DEF Tracked
  <2>6. ASSUME p \notin crossed'
        PROVE  p \notin crossed /\ InTurn(p)'
    <3>1. p \notin crossed /\ InTurn(p) /\ (p = q => \A v \in Worker : ~Holds(v, q))
      BY <1>1, <1>9, <2>6 DEF Talked
    <3>2. CASE p = q
      <4>1. \A v \in Worker : Holds(v, p)' <=> v = w
        BY <2>3, <3>1, <3>2
      <4> QED
        <5>1. IF thread'[w].id = None THEN Rows(p, "active")' = {}
              ELSE rows'[p][thread'[w].id] = thread'[w].seen
          BY <1>1, <1>2, <2>1, <2>4, <3>2
        <5> SUFFICES ASSUME NEW v \in Worker, Holds(v, p)'
                     PROVE  /\ \A u \in Worker : Holds(u, p)' => u = v
                            /\ IF thread'[v].id = None THEN Rows(p, "active")' = {}
                               ELSE rows'[p][thread'[v].id] = thread'[v].seen
          BY <3>1 DEF InTurn
        <5>2. v = w
          BY <4>1
        <5> QED
          BY <4>1, <5>1, <5>2
    <3>3. CASE p # q
      <4>1. \A v \in Worker : Holds(v, p)' => Holds(v, p) /\ thread'[v] = thread[v]
        BY <1>5, <2>3, <3>3
      <4> QED
        BY <1>1, <2>1, <3>1, <4>1 DEF InTurn
    <3> QED
      BY <3>2, <3>3
  <2> QED
    BY <1>1, <1>9, <2>1, <2>5, <2>6 DEF Talked
<1> QED
  BY <1>8, <1>9

LEMMA IgnoreStep ==
  ASSUME TypeOK, NEW w \in Worker, Ignore(w)
  PROVE  TypeOK' /\ \A p \in Phone : Talked(p) => Talked(p)'
<1>1. /\ thread' = [thread EXCEPT ![w] = Idle] /\ forms' = forms \cup FormOf(thread[w])
      /\ UNCHANGED <<defs, rows, records, thanked, crossed, rough, leads, pushes, faults>>
  BY DEF Ignore, config
<1>2. thread[w] \in Reading
  BY ThreadIs DEF Ignore
<1>3. TypeOK'
  <2>1. {forms', thanked', crossed', rough'} \subseteq SUBSET Phone
    BY <1>1, <1>2 DEF TypeOK, FormOf, Reading
  <2> QED
    BY <1>1, <2>1, Done, TypeStays DEF TypeOK, Defs
<1>4. \A q : Same(q)
  BY <1>1 DEF Same
<1>5. \A p \in Phone : Talked(p) => Talked(p)'
  BY <1>1, <1>4, Done, TalkStays
<1> QED
  BY <1>3, <1>5

LEMMA LostStep ==
  ASSUME TypeOK, NEW w \in Worker, ReplyIsLost(w)
  PROVE  TypeOK' /\ \A p \in Phone : Talked(p) => Talked(p)'
<1>1. /\ thread' = [thread EXCEPT ![w] = Idle] /\ thanked' \in Told(thread[w], Moved(thread[w]))
      /\ faults' = faults + 1 /\ faults < MaxFaults
      /\ UNCHANGED <<defs, rows, records, forms, crossed, rough, leads, pushes>>
  BY DEF ReplyIsLost, config
<1>2. thread[w] \in Reading
  BY ThreadIs DEF ReplyIsLost
<1>3. faults' \in 0..MaxFaults /\ faults' # 0
  BY <1>1, ConstantsAssumption DEF TypeOK
<1>4. thanked' \subseteq Phone
  BY <1>1, <1>2 DEF TypeOK, Told, Reading
<1>5. TypeOK'
  <2>1. {forms', thanked', crossed', rough'} \subseteq SUBSET Phone
    BY <1>1, <1>4 DEF TypeOK
  <2> QED
    BY <1>1, <1>3, <2>1, Done, TypeStays DEF TypeOK, Defs
<1>6. \A q : Same(q)
  BY <1>1 DEF Same
<1>7. \A p \in Phone : Talked(p) => Talked(p)'
  BY <1>1, <1>3, <1>6, Done, TalkStays
<1> QED
  BY <1>5, <1>7

LEMMA RefuseStep ==
  ASSUME TypeOK, NEW w \in Worker, Refuse(w)
  PROVE  TypeOK' /\ \A p \in Phone : Talked(p) => Talked(p)'
<1>1. /\ thread' = [thread EXCEPT ![w] = Idle]
      /\ UNCHANGED <<defs, rows, records, forms, thanked, crossed, rough, leads, pushes, faults>>
  BY DEF Refuse, config, talk
<1>2. TypeOK'
  BY <1>1, Done, TypeStays DEF TypeOK, Defs
<1>3. \A q : Same(q)
  BY <1>1 DEF Same
<1>4. \A p \in Phone : Talked(p) => Talked(p)'
  BY <1>1, <1>3, Done, TalkStays
<1> QED
  BY <1>2, <1>4

LEMMA CrashStep ==
  ASSUME TypeOK, NEW w \in Worker, Crash(w)
  PROVE  TypeOK' /\ \A p \in Phone : Talked(p) => Talked(p)'
<1>1. /\ thread' = [thread EXCEPT ![w] = Idle] /\ faults' = faults + 1 /\ faults < MaxFaults
      /\ UNCHANGED <<defs, rows, records, forms, thanked, crossed, rough, leads, pushes>>
  BY DEF Crash, config, talk
<1>2. faults' \in 0..MaxFaults /\ faults' # 0
  BY <1>1, ConstantsAssumption DEF TypeOK
<1>3. TypeOK'
  BY <1>1, <1>2, Done, TypeStays DEF TypeOK, Defs
<1>4. \A q : Same(q)
  BY <1>1 DEF Same
<1>5. \A p \in Phone : Talked(p) => Talked(p)'
  BY <1>1, <1>2, <1>4, Done, TalkStays
<1> QED
  BY <1>3, <1>5

LEMMA LogStep ==
  ASSUME TypeOK, NEW w \in Worker, LogPush(w)
  PROVE  TypeOK' /\ \A p \in Phone : Talked(p) => Talked(p)'
<1>1. /\ thread' = [thread EXCEPT ![w] = Idle]
      /\ pushes' = IF thread[w].status = "ok" THEN [pushes EXCEPT ![thread[w].phone] = @ + 1] ELSE pushes
      /\ UNCHANGED <<defs, rows, records, forms, thanked, crossed, rough, leads, faults>>
  BY DEF LogPush, config, talk
<1>2. thread[w] \in Logging
  BY ThreadIs DEF LogPush
<1>3. pushes' \in [Phone -> Nat]
  BY <1>1, <1>2 DEF TypeOK, Logging
<1>4. TypeOK'
  BY <1>1, <1>3, Done, TypeStays DEF TypeOK, Defs
<1>5. \A q : Same(q)
  BY <1>1 DEF Same
<1>6. \A p \in Phone : Talked(p) => Talked(p)'
  BY <1>1, <1>5, Done, TalkStays
<1> QED
  BY <1>4, <1>6

LEMMA PostStep ==
  ASSUME TypeOK, NEW w \in Worker, NEW q \in Phone, PostLead(w, q)
  PROVE  TypeOK' /\ \A p \in Phone : Talked(p) => Talked(p)'
<1>1. PICK status \in {"ok", "dry_run", "failed"} :
        thread' = [thread EXCEPT ![w] = [step |-> "log", phone |-> q, status |-> status]]
  BY DEF PostLead
<1> DEFINE t == [step |-> "log", phone |-> q, status |-> status]
<1>2. /\ leads[q] < MaxPushes /\ (leads' = Post(q) \/ leads' = leads)
      /\ faults' = faults \/ (faults < MaxFaults /\ faults' = faults + 1)
      /\ UNCHANGED <<defs, rows, records, forms, thanked, crossed, rough, pushes>>
  BY DEF PostLead, config, talk
<1>3. leads' \in [Phone -> 0..MaxPushes] /\ faults' \in 0..MaxFaults
  <2>1. leads \in [Phone -> 0..MaxPushes] /\ faults \in 0..MaxFaults /\ MaxPushes \in Nat /\ MaxFaults \in Nat
    BY ConstantsAssumption DEF TypeOK
  <2>2. leads[q] + 1 \in 0..MaxPushes
    BY <1>2, <2>1
  <2>3. Post(q) \in [Phone -> 0..MaxPushes]
    BY <2>1, <2>2 DEF Post
  <2> QED
    BY <1>2, <2>1, <2>3
<1>4. t \in Logging /\ t.step = "log"
  BY DEF Logging
<1>5. \A v \in Worker : thread'[v] = IF v = w THEN t ELSE thread[v]
  BY <1>1 DEF TypeOK
<1>6. thread' \in [Worker -> {Idle} \cup Reading \cup Logging]
  BY <1>1, <1>4 DEF TypeOK
<1> HIDE DEF t
<1>7. \A v \in Worker : thread'[v].step = "read" => thread'[v] = thread[v]
  BY <1>4, <1>5
<1>8. \A v \in Worker : thread'[v].step = "read" /\ thread'[v].id # None
                        => rows[thread'[v].phone][thread'[v].id] # None
  BY <1>7 DEF TypeOK
<1>9. TypeOK'
  BY <1>2, <1>3, <1>6, <1>8, TypeStays DEF TypeOK, Defs
<1>10. \A p : Same(p)
  BY <1>2 DEF Same
<1>11. faults' = 0 => faults = 0
  BY <1>2, <1>3, ConstantsAssumption DEF TypeOK
<1>12. \A p \in Phone : Talked(p) => Talked(p)'
  BY <1>2, <1>7, <1>10, <1>11, TalkStays
<1> QED
  BY <1>9, <1>12

-----------------------------------------------------------------------------
(* Pushes: what Splynx has and what the log says.                             *)

\* The threads about to log a push of p that worked.
Owing(p) == {w \in Worker : thread[w].step = "log" /\ thread[w].phone = p /\ thread[w].status = "ok"}

Pushed(p) == Logged(p) <= leads[p] /\ (faults = 0 => Logged(p) = leads[p])

LEMMA OwingIs ==
  ASSUME NEW p
  PROVE  IsFiniteSet(Owing(p)) /\ Cardinality(Owing(p)) \in Nat /\ Logged(p) = pushes[p] + Cardinality(Owing(p))
<1>1. IsFiniteSet(Owing(p))
  BY ConstantsAssumption, FS_Subset, Owing(p) \subseteq Worker DEF Owing
<1> QED
  BY <1>1, FS_CardinalityType DEF Logged, Owing

LEMMA PushStays ==
  ASSUME NEW p \in Phone, Pushed(p), UNCHANGED <<leads, pushes>>, faults' = 0 => faults = 0,
         \A v \in Worker : thread[v].step = "log" \/ thread'[v].step = "log" => thread'[v] = thread[v]
  PROVE  Pushed(p)'
<1>1. Owing(p)' = Owing(p)
  BY DEF Owing
<1>2. Logged(p)' = Logged(p)
  BY <1>1, OwingIs DEF Logged, Owing
<1> QED
  BY <1>2 DEF Pushed

\* A thread that read ends, or was idle: nothing is owed by it.
LEMMA PushOfReply ==
  ASSUME TypeOK, NEW w \in Worker, thread[w].step = "read", thread' = [thread EXCEPT ![w] = Idle],
         UNCHANGED <<leads, pushes>>, faults' = 0 => faults = 0, NEW p \in Phone, Pushed(p)
  PROVE  Pushed(p)'
<1>1. \A v \in Worker : thread[v].step = "log" \/ thread'[v].step = "log" => thread'[v] = thread[v]
  BY DEF TypeOK, Idle
<1> QED
  BY <1>1, PushStays

LEMMA PushOfPost ==
  ASSUME TypeOK, NEW w \in Worker, NEW q \in Phone, PostLead(w, q), NEW p \in Phone, Pushed(p)
  PROVE  Pushed(p)'
<1> DEFINE t(status) == [step |-> "log", phone |-> q, status |-> status]
<1>1. /\ leads \in [Phone -> 0..MaxPushes] /\ pushes \in [Phone -> Nat] /\ faults \in Nat
      /\ pushes' = pushes /\ thread[w] = Idle /\ MaxPushes \in Nat
  BY ConstantsAssumption DEF TypeOK, PostLead
<1>2. ASSUME NEW status \in {"ok", "dry_run", "failed"}, thread' = [thread EXCEPT ![w] = t(status)]
      PROVE  Owing(p)' = IF status = "ok" /\ p = q THEN Owing(p) \cup {w} ELSE Owing(p)
  <2>1. \A v \in Worker : thread'[v] = IF v = w THEN t(status) ELSE thread[v]
    BY <1>2 DEF TypeOK
  <2>2. thread[w].step = "idle"
    BY <1>1 DEF Idle
  <2>3. t(status).step = "log" /\ t(status).phone = q /\ t(status).status = status
    OBVIOUS
  <2> HIDE DEF t
  <2> QED
    BY <2>1, <2>2, <2>3 DEF Owing
<1>3. w \notin Owing(p)
  BY <1>1 DEF Owing, Idle
<1>4. Logged(p) = pushes[p] + Cardinality(Owing(p)) /\ Cardinality(Owing(p)) \in Nat
      /\ Cardinality(Owing(p) \cup {w}) = Cardinality(Owing(p)) + 1
  BY <1>3, OwingIs, FS_AddElement
<1>5. Logged(p)' = pushes[p] + Cardinality(Owing(p)')
  BY <1>1 DEF Logged, Owing
<1>6. CASE /\ thread' = [thread EXCEPT ![w] = t(IF live THEN "ok" ELSE "dry_run")]
           /\ leads' = Post(q) /\ UNCHANGED faults
  <2>1. (IF live THEN "ok" ELSE "dry_run") \in {"ok", "dry_run", "failed"}
    OBVIOUS
  <2>2. Owing(p)' = IF live /\ p = q THEN Owing(p) \cup {w} ELSE Owing(p)
    BY <1>2, <1>6, <2>1
  <2>3. leads'[p] = IF live /\ p = q THEN leads[p] + 1 ELSE leads[p]
    BY <1>1, <1>6 DEF Post
  <2> HIDE DEF t
  <2> QED
    BY <1>1, <1>4, <1>5, <1>6, <2>2, <2>3 DEF Pushed
<1>7. CASE /\ thread' = [thread EXCEPT ![w] = t("failed")]
           /\ UNCHANGED <<leads, faults>>
  <2>1. Owing(p)' = Owing(p)
    BY <1>2, <1>7
  <2> HIDE DEF t
  <2> QED
    BY <1>1, <1>4, <1>5, <1>7, <2>1 DEF Pushed
<1>8. CASE /\ thread' = [thread EXCEPT ![w] = t("failed")]
           /\ leads' = Post(q) /\ faults' = faults + 1
  <2>1. Owing(p)' = Owing(p)
    BY <1>2, <1>8
  <2>2. leads'[p] \in Nat /\ leads[p] \in Nat /\ leads[p] <= leads'[p]
    BY <1>1, <1>8 DEF Post
  <2>3. pushes[p] \in Nat /\ faults' # 0
    BY <1>1, <1>8
  <2> HIDE DEF t
  <2> QED
    BY <1>4, <1>5, <2>1, <2>2, <2>3 DEF Pushed
<1> QED
  BY <1>6, <1>7, <1>8 DEF PostLead

LEMMA PushOfLog ==
  ASSUME TypeOK, NEW w \in Worker, LogPush(w), NEW p \in Phone, Pushed(p)
  PROVE  Pushed(p)'
<1>1. /\ thread[w].step = "log" /\ thread' = [thread EXCEPT ![w] = Idle] /\ UNCHANGED <<leads, faults>>
      /\ pushes' = IF thread[w].status = "ok" THEN [pushes EXCEPT ![thread[w].phone] = @ + 1] ELSE pushes
  BY DEF LogPush
<1>2. thread[w] \in Logging
  BY <1>1, ThreadIs
<1>3. Owing(p)' = Owing(p) \ {w}
  BY <1>1 DEF Owing, TypeOK, Idle
<1>4. w \in Owing(p) <=> thread[w].status = "ok" /\ thread[w].phone = p
  BY <1>1 DEF Owing
<1>5. pushes'[p] = IF w \in Owing(p) THEN pushes[p] + 1 ELSE pushes[p]
  BY <1>1, <1>2, <1>4 DEF TypeOK, Logging
<1>6. /\ Logged(p) = pushes[p] + Cardinality(Owing(p)) /\ Cardinality(Owing(p)) \in Nat
      /\ Cardinality(Owing(p) \ {w}) = IF w \in Owing(p) THEN Cardinality(Owing(p)) - 1 ELSE Cardinality(Owing(p))
  BY OwingIs, FS_RemoveElement
<1>7. Logged(p)' = pushes'[p] + Cardinality(Owing(p)')
  BY DEF Logged, Owing
<1>8. pushes[p] \in Nat /\ leads'[p] = leads[p]
  BY <1>1 DEF TypeOK
<1>9. Logged(p)' = Logged(p)
  BY <1>3, <1>5, <1>6, <1>7, <1>8
<1> QED
  BY <1>1, <1>8, <1>9 DEF Pushed

LEMMA PushOfCrash ==
  ASSUME TypeOK, NEW w \in Worker, Crash(w), NEW p \in Phone, Pushed(p)
  PROVE  Pushed(p)'
<1>1. /\ thread' = [thread EXCEPT ![w] = Idle] /\ UNCHANGED <<leads, pushes>> /\ faults' = faults + 1
  BY DEF Crash
<1>2. Owing(p)' \subseteq Owing(p)
  BY <1>1 DEF Owing, TypeOK, Idle
<1>3. /\ Cardinality(Owing(p)') \in Nat /\ Cardinality(Owing(p)') <= Cardinality(Owing(p))
      /\ Cardinality(Owing(p)) \in Nat /\ Logged(p) = pushes[p] + Cardinality(Owing(p))
  <2>1. \A T \in SUBSET Owing(p) : IsFiniteSet(T) /\ Cardinality(T) <= Cardinality(Owing(p)) /\ Cardinality(T) \in Nat
    BY OwingIs, FS_Subset, FS_CardinalityType
  <2> QED
    BY <1>2, <2>1, OwingIs
<1>4. Logged(p)' = pushes[p] + Cardinality(Owing(p)')
  BY <1>1 DEF Logged, Owing
<1>5. pushes[p] \in Nat /\ leads[p] \in Nat /\ faults' # 0 /\ leads'[p] = leads[p]
  BY <1>1, ConstantsAssumption DEF TypeOK
<1> QED
  BY <1>3, <1>4, <1>5 DEF Pushed

-----------------------------------------------------------------------------
(* The theorems.                                                              *)

LEMMA IInvIs == IInv <=> TypeOK /\ \A p \in Phone : Talked(p) /\ Pushed(p)
BY DEF IInv, RecordsAddUp, Talked, Pushed

LEMMA Initially == Init => IInv
<1> SUFFICES ASSUME Init
             PROVE  IInv
  OBVIOUS
<1>1. PICK left \in SUBSET Phone :
        rows = [p \in Phone |-> [i \in {1, 2} |->
                  IF i = 1 /\ p \in left
                  THEN [status |-> "active", campaign |-> None, flow |-> None, idx |-> 1,
                        key |-> DefaultFlow[1], answers |-> {}]
                  ELSE None]]
  BY DEF Init
<1> DEFINE old == [status |-> "active", campaign |-> None, flow |-> None, idx |-> 1,
                   key |-> DefaultFlow[1], answers |-> {}]
<1>2. old \in Session /\ old.status = "active" /\ old # None
  <2>1. DefaultFlow[1] \in Keys
    BY FlowKeys
  <2>2. old \in Session
    BY <2>1 DEF Session
  <2> QED
    BY <2>2, SessionAssumption
<1>3. OnTrack(old)
  <2>1. FlowOf(old) = DefaultFlow /\ 1 \in DOMAIN DefaultFlow
    BY FlowKeys DEF FlowOf
  <2>2. {DefaultFlow[j] : j \in 1..(1 - 1)} = {}
    OBVIOUS
  <2> QED
    BY <2>1, <2>2 DEF OnTrack
<1>4. \A p \in Phone : rows[p] = [i \in {1, 2} |-> IF i = 1 /\ p \in left THEN old ELSE None]
  BY <1>1
<1>5. rows \in [Phone -> [{1, 2} -> Session \cup {None}]]
  BY <1>1, <1>2
<1> HIDE DEF old
<1>6. \A p \in Phone : /\ Rows(p, "completed") = {} /\ \A i \in Rows(p, "active") : i = 1 /\ rows[p][i] = old
                       /\ rows[p][2] = None
  <2>1. \A p \in Phone : rows[p][2] = None /\ (rows[p][1] = None \/ rows[p][1] = old)
    <3> SUFFICES ASSUME NEW p \in Phone
                 PROVE  rows[p][2] = None /\ (rows[p][1] = None \/ rows[p][1] = old)
      OBVIOUS
    <3>1. \A i \in {1, 2} : rows[p][i] = IF i = 1 /\ p \in left THEN old ELSE None
      BY <1>4, Zenon
    <3> QED
      BY <3>1
  <2> QED
    BY <1>2, <2>1 DEF Rows
<1>7. \A v \in Worker : thread[v] = Idle /\ thread[v].step = "idle"
  BY DEF Init, Idle
<1>8. TypeOK
  <2>1. defs \in [Campaign -> [flow : Flows, active : BOOLEAN]]
    BY DEF Init
  <2>2. /\ records \in [Phone -> Seq(BOOLEAN)] /\ {forms, thanked, crossed, rough} \subseteq SUBSET Phone
        /\ leads \in [Phone -> 0..MaxPushes] /\ pushes \in [Phone -> Nat] /\ faults \in 0..MaxFaults
        /\ thread \in [Worker -> {Idle} \cup Reading \cup Logging]
    BY ConstantsAssumption DEF Init
  <2> QED
    BY <1>5, <1>6, <1>7, <2>1, <2>2 DEF TypeOK
<1>9. \A p \in Phone : Talked(p)
  <2>1. \A p \in Phone : records[p] = <<>> /\ p \notin thanked /\ \A v \in Worker : ~Holds(v, p)
    BY <1>7 DEF Init, Holds
  <2>2. Len(<<>>) = 0 /\ DOMAIN <<>> = {}
    OBVIOUS
  <2> QED
    BY <1>3, <1>6, <2>1, <2>2 DEF Talked, InTurn, Tracked
<1>10. \A p \in Phone : Pushed(p)
  <2> SUFFICES ASSUME NEW p \in Phone
               PROVE  Pushed(p)
    OBVIOUS
  <2>1. Owing(p) = {}
    BY <1>7 DEF Owing
  <2>2. Logged(p) = 0 /\ leads[p] = 0
    BY <2>1, OwingIs, FS_EmptySet DEF Init
  <2> QED
    BY <2>2 DEF Pushed
<1> QED
  BY <1>8, <1>9, <1>10, IInvIs

LEMMA Step ==
  ASSUME IInv, [Next]_vars
  PROVE  IInv'
<1>1. TypeOK /\ \A p \in Phone : Talked(p) /\ Pushed(p)
  BY IInvIs
<1> SUFFICES TypeOK' /\ \A p \in Phone : Talked(p)' /\ Pushed(p)'
  BY DEF IInv, RecordsAddUp, Talked, Pushed
<1>2. CASE Administer
  <2>1. \A p \in Phone : Pushed(p)'
    BY <1>1, <1>2, PushStays DEF Administer
  <2> QED
    BY <1>1, <1>2, <2>1, AdministerStep
<1>3. ASSUME NEW w \in Worker, NEW q \in Phone, NEW m \in Messages, Receive(w, q, m)
      PROVE  TypeOK' /\ \A p \in Phone : Talked(p)' /\ Pushed(p)'
  <2>1. \A v \in Worker : thread[v].step = "log" \/ thread'[v].step = "log" => thread'[v] = thread[v]
    BY <1>1, <1>3 DEF Receive, TypeOK, Idle
  <2>2. \A p \in Phone : Pushed(p)'
    BY <1>1, <1>3, <2>1, PushStays DEF Receive
  <2> QED
    BY <1>1, <1>3, <2>2, ReceiveStep
<1>4. ASSUME NEW w \in Worker, Ignore(w)
      PROVE  TypeOK' /\ \A p \in Phone : Talked(p)' /\ Pushed(p)'
  <2>1. \A p \in Phone : Pushed(p)'
    BY <1>1, <1>4, PushOfReply DEF Ignore
  <2> QED
    BY <1>1, <1>4, <2>1, IgnoreStep
<1>5. ASSUME NEW w \in Worker, Reply(w)
      PROVE  TypeOK' /\ \A p \in Phone : Talked(p)' /\ Pushed(p)'
  <2>1. \A p \in Phone : Pushed(p)'
    BY <1>1, <1>5, PushOfReply DEF Reply
  <2> QED
    BY <1>1, <1>5, <2>1, ReplyType, ReplyTalked
<1>6. ASSUME NEW w \in Worker, Refuse(w)
      PROVE  TypeOK' /\ \A p \in Phone : Talked(p)' /\ Pushed(p)'
  <2>1. \A p \in Phone : Pushed(p)'
    BY <1>1, <1>6, PushOfReply DEF Refuse
  <2> QED
    BY <1>1, <1>6, <2>1, RefuseStep
<1>7. ASSUME NEW w \in Worker, ReplyIsLost(w)
      PROVE  TypeOK' /\ \A p \in Phone : Talked(p)' /\ Pushed(p)'
  <2>1. faults' # 0
    BY <1>1, <1>7, ConstantsAssumption DEF TypeOK, ReplyIsLost
  <2>2. \A p \in Phone : Pushed(p)'
    BY <1>1, <1>7, <2>1, PushOfReply DEF ReplyIsLost
  <2> QED
    BY <1>1, <1>7, <2>2, LostStep
<1>8. ASSUME NEW w \in Worker, NEW q \in Phone, PostLead(w, q)
      PROVE  TypeOK' /\ \A p \in Phone : Talked(p)' /\ Pushed(p)'
  BY <1>1, <1>8, PostStep, PushOfPost
<1>9. ASSUME NEW w \in Worker, LogPush(w)
      PROVE  TypeOK' /\ \A p \in Phone : Talked(p)' /\ Pushed(p)'
  BY <1>1, <1>9, LogStep, PushOfLog
<1>10. ASSUME NEW w \in Worker, Crash(w)
       PROVE  TypeOK' /\ \A p \in Phone : Talked(p)' /\ Pushed(p)'
  BY <1>1, <1>10, CrashStep, PushOfCrash
<1>11. CASE UNCHANGED vars
  <2>1. UNCHANGED vars => (TypeOK' <=> TypeOK)
    BY DEF vars, TypeOK, Rows
  <2>2. \A p \in Phone : Talked(p)'
    BY <1>1, <1>11, TalkStays DEF vars, Same
  <2>3. \A p \in Phone : Pushed(p)'
    BY <1>1, <1>11, PushStays DEF vars
  <2> QED
    BY <1>1, <1>11, <2>1, <2>2, <2>3
<1> QED
  BY <1>2, <1>3, <1>4, <1>5, <1>6, <1>7, <1>8, <1>9, <1>10, <1>11 DEF Next, Webhook

\* The invariant the others follow from.  That records add up is not inductive
\* alone: that a record has every answer needs sessions, and what messages in hand have
\* read of them, on their track; that there is one needs the only message in its turn.
THEOREM Inductive == Spec => []IInv
<1>1. Init => IInv
  BY Initially
<1>2. IInv /\ [Next]_vars => IInv'
  BY Step
<1> QED
  BY <1>1, <1>2, PTL DEF Spec

\* Every variable keeps its type; a phone has one session of each status, at
\* most, whatever messages cross: the unique index does it.
THEOREM TypeCorrect == Spec => []TypeOK
<1>1. IInv => TypeOK
  BY DEF IInv
<1> QED
  BY <1>1, Inductive, PTL

\* What the office sees is what happened: signups, thanks and pushes have their
\* records, with every answer also if messages crossed, for any number of phones,
\* workers and faults (_process_conversational_signup, push_record_to_splynx).
THEOREM RecordsRight == Spec => []RecordsAddUp
<1>1. IInv => RecordsAddUp
  BY DEF IInv
<1> QED
  BY <1>1, Inductive, PTL
=============================================================================
