------------------------ MODULE PONotifications_proofs ------------------------
(* Theorems of PONotifications for every set of notes, POs and workers.     *)
EXTENDS PONotifications, TLAPS

\* The initial states are as the inductive invariant says.
LEMMA InitIInv == Init => IInv
  BY ConstantsAssumption
     DEF Init, IInv, TypeOK, CurInv, OwnerInv, BookInv, Has, Holds

\* A PO handler leaves the invariant alone: it cancels and inserts rows.
LEMMA POCommitIInv ==
  ASSUME IInv, NEW p \in PO, NEW cancelled \in SUBSET Note, NEW inserted \in SUBSET Note,
         NEW inQueue \in BOOLEAN, POCommit(p, cancelled, inserted, inQueue)
  PROVE  IInv'
<1>1. TypeOK'
  BY DEF POCommit, IInv, TypeOK
<1>2. CurInv'
  BY DEF POCommit, IInv, CurInv
<1>3. ASSUME NEW n \in Note PROVE OwnerInv(n)' /\ BookInv(n)'
  <2>1. /\ state'[n] \in {state[n], "failed", "pending"}
        /\ state'[n] = "failed" /\ state[n] # "failed" => state[n] \in {"pending", "dispatching"}
        /\ state'[n] = "pending" /\ state[n] # "pending" => state[n] = "absent"
    BY DEF POCommit, IInv, TypeOK
  <2>2. OwnerInv(n)'
    BY <2>1 DEF POCommit, IInv, OwnerInv, Has, Holds
  <2>3. BookInv(n)'
    BY <2>1 DEF POCommit, IInv, BookInv
  <2> QED
    BY <2>2, <2>3
<1> QED
  BY <1>1, <1>2, <1>3 DEF IInv

\* The sweep only ever fails rows.
LEMMA FetchIInv ==
  ASSUME IInv, NEW w \in Worker, Fetch(w)
  PROVE  IInv'
<1>1. TypeOK'
  <2>1. PICK b \in Batches : batch' = [batch EXCEPT ![w] = b]
    BY DEF Fetch
  <2>2. b \in SUBSET Note
    BY <2>1 DEF Batches, Fetchable
  <2> QED
    BY <2>1, <2>2 DEF Fetch, IInv, TypeOK
<1>2. CurInv'
  BY DEF Fetch, IInv, CurInv
<1>3. ASSUME NEW n \in Note PROVE OwnerInv(n)' /\ BookInv(n)'
  <2>1. /\ state'[n] \in {state[n], "failed"}
        /\ state'[n] = "failed" /\ state[n] # "failed" => state[n] \in {"pending", "dispatching"}
    BY DEF Fetch, Stale, OffQueue, IInv, TypeOK
  <2>2. OwnerInv(n)'
    BY <2>1 DEF Fetch, IInv, OwnerInv, Has, Holds
  <2>3. BookInv(n)'
    BY <2>1 DEF Fetch, IInv, BookInv
  <2> QED
    BY <2>2, <2>3
<1> QED
  BY <1>1, <1>2, <1>3 DEF IInv

\* The claim is where a row gets its one owner: nobody has a pending row.
LEMMA ClaimIInv ==
  ASSUME IInv, NEW w \in Worker, NEW m \in Note, Claim(w, m)
  PROVE  IInv'
<1> USE DEF Claim
<1>1. CASE state[m] # "pending"
  BY <1>1 DEF IInv, TypeOK, CurInv, OwnerInv, BookInv, Has, Holds
<1>2. CASE state[m] = "pending"
  <2>1. TypeOK'
    BY <1>2 DEF IInv, TypeOK
  <2>2. CurInv'
    BY <1>2 DEF IInv, TypeOK, CurInv
  <2>3. ASSUME NEW n \in Note, n # m PROVE OwnerInv(n)' /\ BookInv(n)'
    <3>1. /\ state'[n] = state[n] /\ accepted'[n] = accepted[n]
          /\ logged'[n] = logged[n]
      BY <1>2, <2>3 DEF IInv, TypeOK
    <3>2. /\ pc'[w] = "check" /\ cur'[w] = m /\ ok' = ok
          /\ \A v \in Worker : v # w => pc'[v] = pc[v] /\ cur'[v] = cur[v]
      BY <1>2 DEF IInv, TypeOK
    <3>3. \A v \in Worker : (Has(v, n)' => Has(v, n)) /\ (Holds(v, n)' => Holds(v, n))
      BY <2>3, <3>2 DEF Has, Holds
    <3>4. OwnerInv(n)'
      BY <3>1, <3>3 DEF IInv, OwnerInv
    <3>5. BookInv(n)'
      BY <2>3, <3>1, <3>2 DEF IInv, BookInv
    <3> QED
      BY <3>4, <3>5
  <2>4. \A v \in Worker : ~ Has(v, m)
    BY <1>2 DEF IInv, OwnerInv
  <2>5. /\ state'[m] = "dispatching" /\ accepted'[m] = 0 /\ logged'[m] = 0
        /\ \A v \in Worker : Has(v, m)' => v = w
        /\ pc'[w] = "check"
    BY <1>2, <2>4 DEF IInv, TypeOK, OwnerInv, BookInv, Has
  <2>6. OwnerInv(m)'
    BY <2>5 DEF OwnerInv, Has, Holds
  <2>7. BookInv(m)'
    BY <2>5 DEF BookInv, Has
  <2> QED
    BY <2>1, <2>2, <2>3, <2>6, <2>7 DEF IInv
<1> QED
  BY <1>1, <1>2

LEMMA CheckIInv ==
  ASSUME IInv, NEW w \in Worker, Check(w)
  PROVE  IInv'
<1>1. /\ pc' \in [Worker -> {"ready", "check", "send", "mark", "abort"}]
      /\ cur' \in [Worker -> Note \cup {NoNote}]
      /\ \A v \in Worker \ {w} : pc'[v] = pc[v] /\ cur'[v] = cur[v]
      /\ pc'[w] = "ready" \/ (pc[w] = "check" /\ pc'[w] = "send" /\ cur'[w] = cur[w])
      /\ UNCHANGED <<rowvars, batch, ok, accepted, logged, faults>>
  BY DEF Check, Finish, IInv, TypeOK
<1>2. TypeOK'
  BY <1>1 DEF rowvars, IInv, TypeOK
<1>3. CurInv'
  BY <1>1 DEF IInv, CurInv
<1>4. ASSUME NEW n \in Note PROVE OwnerInv(n)' /\ BookInv(n)'
  <2>1. \A v \in Worker : (Has(v, n)' => Has(v, n)) /\ (Holds(v, n)' => Holds(v, n))
    BY <1>1 DEF Has, Holds
  <2>2. OwnerInv(n)'
    BY <1>1, <2>1 DEF rowvars, IInv, OwnerInv
  <2>3. BookInv(n)'
    BY <1>1 DEF rowvars, IInv, BookInv
  <2> QED
    BY <2>2, <2>3
<1> QED
  BY <1>2, <1>3, <1>4 DEF IInv

\* The owner has not delivered before, and does not hold the row after.
LEMMA SendIInv ==
  ASSUME IInv, NEW w \in Worker, Send(w)
  PROVE  IInv'
<1>0. PICK m \in Note : m = cur[w]
  BY DEF Send, IInv, CurInv
<1>1. m = cur[w] /\ pc[w] = "send" /\ Holds(w, m) /\ Has(w, m)
  BY <1>0 DEF Send, Holds, Has
<1>2. PICK took \in BOOLEAN, answer \in BOOLEAN :
        /\ m \notin App /\ answer => took
        /\ accepted' = [accepted EXCEPT ![m] = @ + (IF took THEN 1 ELSE 0)]
        /\ ok' = [ok EXCEPT ![w] = answer]
  BY <1>1 DEF Send
<1>3. accepted[m] = 0 /\ \A v \in Worker : Has(v, m) => v = w
  BY <1>1 DEF IInv, OwnerInv
<1>4. accepted'[m] = (IF took THEN 1 ELSE 0) /\ accepted'[m] \in {0, 1}
  BY <1>1, <1>2, <1>3 DEF IInv, TypeOK
<1>5. /\ \A n \in Note \ {m} : accepted'[n] = accepted[n]
      /\ \A v \in Worker \ {w} : ok'[v] = ok[v] /\ pc'[v] = pc[v]
      /\ pc'[w] = "mark" /\ ok'[w] = answer
      /\ cur' = cur /\ state' = state /\ logged' = logged
  BY <1>1, <1>2 DEF Send, rowvars, IInv, TypeOK
<1>6. TypeOK'
  BY <1>1, <1>2, <1>3, <1>4, <1>5 DEF Send, rowvars, IInv, TypeOK
<1>7. CurInv'
  BY <1>1, <1>5 DEF IInv, CurInv
<1>8. ASSUME NEW n \in Note, n # m PROVE OwnerInv(n)' /\ BookInv(n)'
  BY <1>1, <1>5, <1>8 DEF IInv, OwnerInv, BookInv, Has, Holds
<1>9. OwnerInv(m)'
  BY <1>1, <1>3, <1>4, <1>5 DEF IInv, OwnerInv, Has, Holds
<1>10. BookInv(m)'
  <2>1. state[m] \in {"dispatching", "failed"}
    BY <1>1 DEF IInv, OwnerInv
  <2>2. \A v \in Worker : pc'[v] = "mark" /\ cur'[v] = m => v = w
    BY <1>3, <1>5 DEF Has
  <2> QED
    BY <1>1, <1>2, <1>4, <1>5, <2>1, <2>2 DEF IInv, BookInv
<1> QED
  BY <1>6, <1>7, <1>8, <1>9, <1>10 DEF IInv

\* Only a row in flight is marked, and its log row is the first.
LEMMA MarkRowBook ==
  ASSUME IInv, NEW n \in Note, NEW outcome \in {"sent", "failed"}, MarkRow(n, outcome),
         outcome = "sent" => n \in App \/ accepted[n] = 1
  PROVE  /\ state' \in [Note -> {"absent", "pending", "dispatching", "sent", "failed"}]
         /\ logged' \in [Note -> Nat]
         /\ \A m \in Note \ {n} : state'[m] = state[m] /\ logged'[m] = logged[m]
         /\ \/ state'[n] = state[n] /\ logged'[n] = logged[n]
            \/ /\ state[n] = "dispatching" /\ state'[n] = outcome
               /\ logged[n] = 0 /\ logged'[n] = 1
BY DEF MarkRow, IInv, TypeOK, BookInv

\* What Mark and Abort do alike.
LEMMA MarkedIInv ==
  ASSUME IInv, NEW w \in Worker, pc[w] \in {"mark", "abort"},
         NEW outcome \in {"sent", "failed"}, MarkRow(cur[w], outcome),
         outcome = "sent" => cur[w] \in App \/ accepted[cur[w]] = 1,
         Finish(w), faults' = faults,
         ok' \in [Worker -> BOOLEAN], \A v \in Worker : ok'[v] => ok[v],
         UNCHANGED <<due, old, waiting, batch, accepted>>,
         pc[w] = "abort" => outcome = "failed"
  PROVE  IInv'
<1>1. PICK m \in Note : m = cur[w]
  BY DEF IInv, CurInv
<1>2. /\ state' \in [Note -> {"absent", "pending", "dispatching", "sent", "failed"}]
      /\ logged' \in [Note -> Nat]
      /\ \A n \in Note \ {m} : state'[n] = state[n] /\ logged'[n] = logged[n]
      /\ \/ state'[m] = state[m] /\ logged'[m] = logged[m]
         \/ /\ state[m] = "dispatching" /\ state'[m] = outcome
            /\ logged[m] = 0 /\ logged'[m] = 1
  BY <1>1, MarkRowBook
<1>3. /\ pc'[w] = "ready" /\ \A v \in Worker \ {w} : pc'[v] = pc[v] /\ cur'[v] = cur[v]
      /\ pc' \in [Worker -> {"ready", "check", "send", "mark", "abort"}]
      /\ cur' \in [Worker -> Note \cup {NoNote}]
  BY DEF Finish, IInv, TypeOK
<1>4. TypeOK'
  BY <1>2, <1>3 DEF IInv, TypeOK
<1>5. CurInv'
  BY <1>3 DEF IInv, CurInv
<1>6. ASSUME NEW n \in Note, NEW v \in Worker, Has(v, n)'
      PROVE  v # w /\ Has(v, n)
  BY <1>3, <1>6 DEF Has
<1>7. ASSUME NEW n \in Note, NEW v \in Worker, Holds(v, n)'
      PROVE  v # w /\ Holds(v, n)
  BY <1>3, <1>7 DEF Holds
<1>8. ASSUME NEW n \in Note, n # m PROVE OwnerInv(n)' /\ BookInv(n)'
  <2>1. OwnerInv(n)'
    BY <1>2, <1>6, <1>7, <1>8 DEF IInv, OwnerInv
  <2>2. BookInv(n)'
    BY <1>2, <1>3, <1>8 DEF IInv, BookInv
  <2> QED
    BY <2>1, <2>2
<1>9. \A v \in Worker : Has(v, m)' => state'[m] \in {"dispatching", "failed"}
  <2>1. CASE pc[w] = "mark"
    <3>1. Has(w, m)
      BY <1>1, <2>1 DEF Has
    <3>2. \A v \in Worker : ~ Has(v, m)'
      BY <1>1, <1>6, <3>1 DEF IInv, OwnerInv
    <3> QED
      BY <3>2
  <2>2. CASE pc[w] = "abort"
    BY <1>1, <1>2, <1>6, <2>2 DEF IInv, OwnerInv
  <2> QED
    BY <2>1, <2>2
<1>10. OwnerInv(m)'
  BY <1>1, <1>2, <1>6, <1>7, <1>9 DEF IInv, OwnerInv
<1>11. BookInv(m)'
  BY <1>1, <1>2, <1>3 DEF IInv, BookInv
<1> QED
  BY <1>4, <1>5, <1>8, <1>10, <1>11 DEF IInv

LEMMA MarkIInv ==
  ASSUME IInv, NEW w \in Worker, Mark(w)
  PROVE  IInv'
<1>1. cur[w] \in Note
  BY DEF Mark, IInv, CurInv
<1>2. ok[w] => cur[w] \in App \/ accepted[cur[w]] = 1
  BY <1>1 DEF Mark, IInv, BookInv
<1>3. ok' \in [Worker -> BOOLEAN] /\ \A v \in Worker : ok'[v] => ok[v]
  BY DEF Mark, IInv, TypeOK
<1> QED
  BY <1>2, <1>3, MarkedIInv DEF Mark

\* Nothing is assumed of the row: another worker may be dispatching it.
LEMMA AbortIInv ==
  ASSUME IInv, NEW w \in Worker, Abort(w)
  PROVE  IInv'
<1>1. CASE MarkRow(cur[w], "failed") /\ UNCHANGED faults
  <2>1. ok' \in [Worker -> BOOLEAN] /\ \A v \in Worker : ok'[v] => ok[v]
    BY DEF Abort, IInv, TypeOK
  <2> QED
    BY <1>1, <2>1, MarkedIInv DEF Abort
<1>2. CASE faults < MaxFaults /\ faults' = faults + 1 /\ UNCHANGED <<state, logged>>
  BY <1>2, ConstantsAssumption
     DEF Abort, Finish, IInv, TypeOK, CurInv, OwnerInv, BookInv, Has, Holds
<1> QED
  BY <1>1, <1>2 DEF Abort

LEMMA RaiseIInv ==
  ASSUME IInv, NEW w \in Worker, Raise(w)
  PROVE  IInv'
<1>1. /\ pc' = [pc EXCEPT ![w] = "abort"]
      /\ \E m \in Note : cur' = [cur EXCEPT ![w] = m]
      /\ ok' = [ok EXCEPT ![w] = FALSE]
      /\ batch' \in [Worker -> SUBSET Note]
      /\ faults' \in 0..MaxFaults
      /\ UNCHANGED <<state, due, old, waiting, accepted, logged>>
  <2>1. \E m \in Note : cur' = [cur EXCEPT ![w] = m]
    <3>1. CASE pc[w] = "ready"
      BY <3>1 DEF Raise, IInv, TypeOK
    <3>2. CASE pc[w] # "ready"
      <4>1. cur' = [cur EXCEPT ![w] = cur[w]] /\ cur[w] \in Note
        BY <3>2 DEF Raise, IInv, TypeOK, CurInv
      <4> QED
        BY <4>1
    <3> QED
      BY <3>1, <3>2
  <2>2. batch' \in [Worker -> SUBSET Note]
    <3>1. CASE pc[w] = "ready"
      BY <3>1 DEF Raise, IInv, TypeOK
    <3>2. CASE pc[w] # "ready"
      BY <3>2 DEF Raise, IInv, TypeOK
    <3> QED
      BY <3>1, <3>2
  <2>3. faults' \in 0..MaxFaults
    BY ConstantsAssumption DEF Raise, IInv, TypeOK
  <2> QED
    BY <2>1, <2>2, <2>3 DEF Raise, rowvars
<1> QED
  BY <1>1 DEF IInv, TypeOK, CurInv, OwnerInv, BookInv, Has, Holds

LEMMA CrashIInv ==
  ASSUME IInv, NEW w \in Worker, Crash(w)
  PROVE  IInv'
BY ConstantsAssumption
   DEF Crash, Finish, rowvars, IInv, TypeOK, CurInv, OwnerInv, BookInv, Has, Holds

LEMMA NextIInv == IInv /\ [Next]_vars => IInv'
<1> SUFFICES ASSUME IInv, [Next]_vars PROVE IInv'
  OBVIOUS
<1>1. ASSUME NEW n \in Note, BecomeDue(n) \/ BecomeOld(n) PROVE IInv'
  <2>1. /\ due' \in [Note -> BOOLEAN] /\ old' \in [Note -> BOOLEAN]
        /\ UNCHANGED <<state, waiting, pc, batch, cur, ok, accepted, logged, faults>>
    BY <1>1 DEF BecomeDue, BecomeOld, IInv, TypeOK
  <2> QED
    BY <2>1 DEF IInv, TypeOK, CurInv, OwnerInv, BookInv, Has, Holds
<1>2. CASE UNCHANGED vars
  BY <1>2 DEF vars, IInv, TypeOK, CurInv, OwnerInv, BookInv, Has, Holds
<1>3. ASSUME NEW w \in Worker, WorkerStep(w) PROVE IInv'
  BY <1>3, FetchIInv, ClaimIInv, CheckIInv, SendIInv, MarkIInv, AbortIInv DEF WorkerStep
<1>4. ASSUME NEW w \in Worker, Raise(w) \/ Crash(w) PROVE IInv'
  BY <1>4, RaiseIInv, CrashIInv
<1> QED
  BY <1>1, <1>2, <1>3, <1>4, POCommitIInv DEF Next

\* The strengthened invariant holds of every reachable state.
THEOREM Inductive == Spec => []IInv
  BY InitIInv, NextIInv, PTL DEF Spec

\* No message is handed out twice, for any number of racing workers.
THEOREM DeliveredOnce == Spec => []AtMostOnce
<1>1. IInv => AtMostOnce
  BY DEF IInv, OwnerInv, AtMostOnce
<1> QED
  BY <1>1, Inductive, PTL

\* A row marked sent was taken by its channel and logged once.
THEOREM BooksRight == Spec => []SentWasAccepted
<1>1. IInv => SentWasAccepted
  BY DEF IInv, BookInv, SentWasAccepted
<1> QED
  BY <1>1, Inductive, PTL

-----------------------------------------------------------------------------
\* A row that was sent, failed or cancelled keeps that state.
THEOREM FinalKept == Spec => FinalStays
<1>1. IInv /\ [Next]_vars =>
        [\A n \in Note : state[n] \in {"sent", "failed"} => state'[n] = state[n]]_vars
  <2> SUFFICES ASSUME IInv, Next, NEW n \in Note, state[n] \in {"sent", "failed"}
               PROVE  state'[n] = state[n]
    OBVIOUS
  <2>1. ASSUME NEW p \in PO, NEW cancelled \in SUBSET Note, NEW inserted \in SUBSET Note,
               NEW inQueue \in BOOLEAN, POCommit(p, cancelled, inserted, inQueue)
        PROVE  state'[n] = state[n]
    BY <2>1 DEF POCommit
  <2>2. ASSUME NEW w \in Worker, Fetch(w)
        PROVE  state'[n] = state[n]
    BY <2>2 DEF Fetch, Stale, OffQueue
  <2>3. ASSUME NEW w \in Worker, NEW m \in Note, Claim(w, m)
        PROVE  state'[n] = state[n]
    BY <2>3 DEF Claim, IInv, TypeOK
  <2>4. ASSUME NEW w \in Worker, Mark(w) \/ Abort(w)
        PROVE  state'[n] = state[n]
    BY <2>4 DEF Mark, Abort, MarkRow, IInv, TypeOK
  <2>5. ASSUME NEW w \in Worker, Check(w) \/ Send(w) \/ Raise(w) \/ Crash(w)
        PROVE  state'[n] = state[n]
    BY <2>5 DEF Check, Send, Raise, Crash, rowvars
  <2>6. ASSUME NEW m \in Note, BecomeDue(m) \/ BecomeOld(m)
        PROVE  state'[n] = state[n]
    BY <2>6 DEF BecomeDue, BecomeOld
  <2> QED
    BY <2>1, <2>2, <2>3, <2>4, <2>5, <2>6 DEF Next, WorkerStep
<1> QED
  BY <1>1, Inductive, PTL DEF Spec, FinalStays

-----------------------------------------------------------------------------
Ticket == [n \in Note |-> TicketOf(n)]

\* Rows that move among dispatching, sent and failed keep their tickets as
\* long as the same workers hold them.
LEMMA SameTickets ==
  ASSUME \A n \in Note :
           /\ state'[n] = state[n] \/ {state[n], state'[n]} \cap {"absent", "pending"} = {}
           /\ (\E w \in Worker : Holds(w, n)') <=> (\E w \in Worker : Holds(w, n))
  PROVE  Ticket' = Ticket
<1>1. ASSUME NEW n \in Note PROVE TicketOf(n)' = TicketOf(n)
  BY DEF TicketOf
<1> QED
  BY <1>1 DEF Ticket

\* The holder of a row lets go of it: the ticket is void, nobody else has it.
LEMMA Release ==
  ASSUME IInv, NEW w \in Worker, NEW m \in Note, Holds(w, m),
         state' = state, pc'[w] \notin {"check", "send"},
         \A v \in Worker \ {w} : pc'[v] = pc[v] /\ cur'[v] = cur[v]
  PROVE  Ticket[m] = "held" /\ Ticket' = [Ticket EXCEPT ![m] = "void"]
<1>1. /\ state[m] \in {"dispatching", "failed"}
      /\ \A v \in Worker : Holds(v, m) => v = w
  BY DEF IInv, OwnerInv, Has, Holds
<1>2. \A n \in Note, v \in Worker : Holds(v, n)' <=> (v # w /\ Holds(v, n))
  BY DEF Holds
<1>3. TicketOf(m) = "held" /\ TicketOf(m)' = "void"
  BY <1>1, <1>2 DEF TicketOf
<1>4. ASSUME NEW n \in Note, n # m PROVE TicketOf(n)' = TicketOf(n)
  <2>1. ~ Holds(w, n)
    BY <1>4 DEF Holds
  <2>2. (\E v \in Worker : Holds(v, n)') <=> (\E v \in Worker : Holds(v, n))
    BY <1>2, <2>1
  <2> QED
    BY <2>2 DEF TicketOf
<1> QED
  BY <1>3, <1>4 DEF Ticket

\* A loss: released, and nothing handed over.
LEMMA Lost ==
  ASSUME NEW m \in Note, Ticket[m] = "held", Ticket' = [Ticket EXCEPT ![m] = "void"],
         accepted' = accepted
  PROVE  Delivery!DNext
BY DEF Delivery!DNext, Delivery!Lose, Ticket

\* Leaving the queue before the claim is a withdrawal; a row in flight that is
\* cancelled or swept keeps its ticket, its worker may be handing it over.
LEMMA Requeued ==
  ASSUME IInv, NEW inserted \in SUBSET Note, NEW gone \in SUBSET Note,
         \A n \in inserted : state[n] = "absent",
         \A n \in gone : state[n] \in {"pending", "dispatching"},
         state' = [n \in Note |-> IF n \in gone THEN "failed"
                                  ELSE IF n \in inserted THEN "pending"
                                  ELSE state[n]],
         UNCHANGED <<pc, cur, accepted>>
  PROVE  Delivery!DNext
<1> DEFINE withdrawn == {n \in gone : state[n] = "pending"}
<1>1. \A n \in Note : (\E w \in Worker : Holds(w, n)') <=> (\E w \in Worker : Holds(w, n))
  BY DEF Holds
<1>2. \A n \in Note : state[n] = "pending" => \A w \in Worker : ~ Holds(w, n)
  BY DEF IInv, OwnerInv, Has, Holds
<1>3. \A n \in Note : Ticket[n] = TicketOf(n)
  BY DEF Ticket
<1>4. \A n \in inserted : Ticket[n] = "unissued"
  BY <1>3 DEF TicketOf
<1>5. \A n \in withdrawn : Ticket[n] = "queued"
  BY <1>3 DEF TicketOf
<1>6. ASSUME NEW n \in Note
      PROVE  TicketOf(n)' = IF n \in inserted THEN "queued"
                            ELSE IF n \in withdrawn THEN "void" ELSE Ticket[n]
  <2>1. CASE n \in inserted
    BY <2>1 DEF TicketOf
  <2>2. CASE n \in withdrawn
    BY <1>1, <1>2, <2>2 DEF TicketOf
  <2>3. CASE n \in gone \ withdrawn
    BY <1>1, <1>3, <2>3 DEF TicketOf
  <2>4. CASE n \notin gone \cup inserted
    BY <1>1, <1>3, <2>4 DEF TicketOf
  <2> QED
    BY <2>1, <2>2, <2>3, <2>4
<1>7. Ticket' = [n \in Note |-> IF n \in inserted THEN "queued"
                                ELSE IF n \in withdrawn THEN "void" ELSE Ticket[n]]
  BY <1>6 DEF Ticket
<1>8. Delivery!Requeue(inserted, withdrawn)
  BY <1>4, <1>5, <1>7 DEF Delivery!Requeue, Ticket
<1>9. withdrawn \in SUBSET Note
  OBVIOUS
<1> QED
  BY <1>8, <1>9 DEF Delivery!DNext

LEMMA ClaimTakes ==
  ASSUME IInv, NEW w \in Worker, NEW m \in Note, Claim(w, m)
  PROVE  Delivery!DNext \/ UNCHANGED <<Ticket, accepted>>
<1>1. CASE state[m] # "pending"
  BY <1>1, SameTickets DEF Claim, Holds
<1>2. CASE state[m] = "pending"
  <2>1. /\ pc[w] = "ready" /\ pc'[w] = "check" /\ cur'[w] = m
        /\ \A v \in Worker \ {w} : pc'[v] = pc[v] /\ cur'[v] = cur[v]
        /\ state' = [state EXCEPT ![m] = "dispatching"]
        /\ accepted' = accepted
    BY <1>2 DEF Claim, IInv, TypeOK
  <2>2. TicketOf(m) = "queued" /\ TicketOf(m)' = "held"
    BY <1>2, <2>1 DEF TicketOf, Holds, IInv, TypeOK
  <2>3. ASSUME NEW n \in Note, n # m PROVE TicketOf(n)' = TicketOf(n)
    <3>1. \A v \in Worker : Holds(v, n)' <=> Holds(v, n)
      BY <2>1, <2>3 DEF Holds
    <3>2. state'[n] = state[n]
      BY <2>1, <2>3 DEF IInv, TypeOK
    <3> QED
      BY <3>1, <3>2 DEF TicketOf
  <2>4. Ticket[m] = "queued" /\ Ticket' = [Ticket EXCEPT ![m] = "held"]
    BY <2>2, <2>3 DEF Ticket
  <2> QED
    BY <2>1, <2>4 DEF Delivery!DNext, Delivery!Take, Ticket
<1> QED
  BY <1>1, <1>2

LEMMA CheckLosesOrKeeps ==
  ASSUME IInv, NEW w \in Worker, Check(w)
  PROVE  Delivery!DNext \/ UNCHANGED <<Ticket, accepted>>
<1>1. PICK m \in Note : m = cur[w] /\ pc[w] = "check"
  BY DEF Check, IInv, CurInv
<1>2. Holds(w, m) /\ state' = state /\ accepted' = accepted
  BY <1>1 DEF Check, Holds, rowvars
<1>3. CASE state[m] = "dispatching"
  <2>1. \A n \in Note, v \in Worker : Holds(v, n)' <=> Holds(v, n)
    BY <1>1, <1>3 DEF Check, Holds, IInv, TypeOK
  <2> QED
    BY <1>2, <2>1, SameTickets
<1>4. CASE state[m] # "dispatching"
  <2>1. /\ pc'[w] = "ready"
        /\ \A v \in Worker \ {w} : pc'[v] = pc[v] /\ cur'[v] = cur[v]
    BY <1>1, <1>4 DEF Check, Finish, IInv, TypeOK
  <2> QED
    BY <1>2, <2>1, Release, Lost
<1> QED
  BY <1>3, <1>4

LEMMA SendHands ==
  ASSUME IInv, NEW w \in Worker, Send(w)
  PROVE  Delivery!DNext
<1>1. PICK m \in Note : m = cur[w] /\ Holds(w, m)
  BY DEF Send, IInv, CurInv, Holds
<1>2. PICK took \in BOOLEAN : accepted' = [accepted EXCEPT ![m] = @ + (IF took THEN 1 ELSE 0)]
  BY <1>1 DEF Send
<1>3. Ticket[m] = "held" /\ Ticket' = [Ticket EXCEPT ![m] = "void"]
  BY <1>1, Release DEF Send, rowvars, IInv, TypeOK
<1>4. CASE took
  BY <1>2, <1>3, <1>4 DEF Delivery!DNext, Delivery!Hand, Ticket, IInv, TypeOK
<1>5. CASE ~ took
  <2>1. accepted' = accepted
    BY <1>2, <1>5 DEF IInv, TypeOK
  <2> QED
    BY <1>3, <2>1, Lost
<1> QED
  BY <1>4, <1>5

\* Marking comes after the ticket is gone.
LEMMA MarkKeeps ==
  ASSUME IInv, NEW w \in Worker, Mark(w) \/ Abort(w)
  PROVE  UNCHANGED <<Ticket, accepted>>
<1>1. /\ pc[w] \in {"mark", "abort"} /\ pc'[w] = "ready"
      /\ \A v \in Worker \ {w} : pc'[v] = pc[v] /\ cur'[v] = cur[v]
      /\ accepted' = accepted
  BY DEF Mark, Abort, Finish, IInv, TypeOK
<1>2. \A n \in Note, v \in Worker : Holds(v, n)' <=> Holds(v, n)
  BY <1>1 DEF Holds
<1>3. \A n \in Note : \/ state'[n] = state[n]
                      \/ {state[n], state'[n]} \cap {"absent", "pending"} = {}
  <2>1. CASE Mark(w)
    BY <2>1 DEF Mark, MarkRow, IInv, TypeOK
  <2>2. CASE Abort(w)
    BY <2>2 DEF Abort, MarkRow, IInv, TypeOK
  <2> QED
    BY <2>1, <2>2
<1> QED
  BY <1>1, <1>2, <1>3, SameTickets

LEMMA FaultLoses ==
  ASSUME IInv, NEW w \in Worker, Raise(w) \/ Crash(w)
  PROVE  Delivery!DNext \/ UNCHANGED <<Ticket, accepted>>
<1>1. /\ pc'[w] \in {"ready", "abort"} /\ state' = state /\ accepted' = accepted
      /\ \A v \in Worker \ {w} : pc'[v] = pc[v] /\ cur'[v] = cur[v]
  BY DEF Raise, Crash, Finish, rowvars, IInv, TypeOK
<1>2. CASE pc[w] \in {"check", "send"}
  <2>1. PICK m \in Note : Holds(w, m)
    BY <1>2 DEF Holds, IInv, CurInv
  <2> QED
    BY <1>1, <2>1, Release, Lost
<1>3. CASE pc[w] \notin {"check", "send"}
  <2>1. \A n \in Note, v \in Worker : Holds(v, n)' <=> Holds(v, n)
    BY <1>1, <1>3 DEF Holds
  <2> QED
    BY <1>1, <2>1, SameTickets
<1> QED
  BY <1>2, <1>3

LEMMA StepRefines == IInv /\ [Next]_vars => [Delivery!DNext]_<<Ticket, accepted>>
<1> SUFFICES ASSUME IInv, [Next]_vars
             PROVE  Delivery!DNext \/ UNCHANGED <<Ticket, accepted>>
  OBVIOUS
<1>1. ASSUME NEW p \in PO, NEW cancelled \in SUBSET Note, NEW inserted \in SUBSET Note,
             NEW inQueue \in BOOLEAN, POCommit(p, cancelled, inserted, inQueue)
      PROVE  Delivery!DNext
  BY <1>1, Requeued DEF POCommit
<1>2. ASSUME NEW w \in Worker, Fetch(w)
      PROVE  Delivery!DNext
  <2>1. /\ Stale \cup OffQueue \in SUBSET Note
        /\ \A n \in Stale \cup OffQueue : state[n] \in {"pending", "dispatching"}
    BY ConstantsAssumption DEF Stale, OffQueue
  <2>2. state' = [n \in Note |-> IF n \in Stale \cup OffQueue THEN "failed"
                                 ELSE IF n \in {} THEN "pending" ELSE state[n]]
    BY <1>2 DEF Fetch
  <2> QED
    BY <1>2, <2>1, <2>2, Requeued DEF Fetch
<1>3. ASSUME NEW n \in Note, BecomeDue(n) \/ BecomeOld(n)
      PROVE  UNCHANGED <<Ticket, accepted>>
  BY <1>3 DEF BecomeDue, BecomeOld, Ticket, TicketOf, Holds
<1>4. CASE UNCHANGED vars
  BY <1>4 DEF vars, Ticket, TicketOf, Holds
<1> QED
  BY <1>1, <1>2, <1>3, <1>4, ClaimTakes, CheckLosesOrKeeps, SendHands, MarkKeeps, FaultLoses
     DEF Next, WorkerStep

\* Rows, workers, crashes and cancellations implement the queue's promise.
THEOREM Implements == Spec => ImplementsDelivery
<1>1. Init => Delivery!DInit
  BY DEF Init, Delivery!DInit, TicketOf
<1>2. IInv /\ [Next]_vars => [Delivery!DNext]_(Delivery!dvars)
  BY StepRefines DEF Delivery!dvars, Ticket
<1> QED
  BY <1>1, <1>2, Inductive, PTL DEF Spec, ImplementsDelivery, Delivery!DSpec
=============================================================================
