-------------------------------- MODULE LiveMtr --------------------------------
(***************************************************************************)
(* A live MTR run (main.py: HopStats, stream_mtr_raw, ws_mtr and the run   *)
(* log).  A browser opens a web socket and names a target; the handler     *)
(* starts mtr, counts what it prints, sends snapshots until the browser    *)
(* leaves or mtr ends, stops mtr and writes a line of the run log.         *)
(* Connections share only ACTIVE_RUNS, each under a key of its own, so one *)
(* is modelled.                                                            *)
(*                                                                         *)
(* Definitions ending in _X are slips, see POApproval.tla.                 *)
(***************************************************************************)
EXTENDS Integers, FiniteSets, Sequences

CONSTANTS
  Warmup,      \* WARMUP_PINGS
  SampleCap,   \* length of eff_samples
  Hop, Ip,
  None,
  Latency,     \* round trips, in whole units
  MaxSends     \* bound: probes that are counted

ASSUME ConstantsAssumption ==
  /\ {Warmup, SampleCap, MaxSends} \subseteq Nat \ {0} /\ Hop \subseteq Nat
  /\ Latency \subseteq Nat /\ None \notin Latency \cup Ip

VARIABLES
  at,       \* where the handler is
  client,   \* the browser: here or gone
  active,   \* ACTIVE_RUNS: no, running, stopped
  proc,     \* the child, sudo or mtr: none, alive, dead; killed once it has SIGKILL
  mtr,      \* under sudo the child of that child: alive, dead; none without sudo
  hops,     \* HopStats of the hops seen
  open, late, \* history: probes without an answer; those of the warm-up at its end
  shown,    \* state["final_hop"]
  log       \* the line of the run log

vars == <<at, client, active, proc, mtr, hops, open, late, shown, log>>
counts == <<hops, open, late>>

NewHop == [ip |-> None, sent |-> 0, rcvd |-> 0, warm |-> FALSE, sentEff |-> 0, rcvdEff |-> 0,
           best |-> None, worst |-> None, sum |-> 0, samples |-> <<>>, prev |-> None,
           jitterSum |-> 0, jitterN |-> 0]

-----------------------------------------------------------------------------
(* HopStats.                                                               *)

OnSent_X(h) ==  \* the probe that ends the warm-up counts
  LET n == h.sent + 1 IN
  IF n < Warmup THEN [h EXCEPT !.sent = n] ELSE [h EXCEPT !.sent = n, !.warm = TRUE, !.sentEff = @ + 1]
OnSent(h) ==
  LET n == h.sent + 1
  IN IF n = Warmup /\ ~h.warm THEN [NewHop EXCEPT !.ip = h.ip, !.sent = n, !.rcvd = h.rcvd, !.warm = TRUE]
     ELSE [h EXCEPT !.sent = n, !.sentEff = IF n > Warmup /\ h.warm THEN @ + 1 ELSE @]

Lower(a, b)  == IF a = None \/ b < a THEN b ELSE a
Higher(a, b) == IF a = None \/ b > a THEN b ELSE a
Abs(n)       == IF n < 0 THEN -n ELSE n
Last(s, n)   == IF Len(s) <= n THEN s ELSE SubSeq(s, Len(s) - n + 1, Len(s))

OnReply_X(h, ms) == [h EXCEPT !.rcvd = IF h.warm THEN @ + 2 ELSE @ + 1]  \* counted in both branches
OnReply(h, ms) ==
  IF ~h.warm THEN [h EXCEPT !.rcvd = @ + 1]
  ELSE [h EXCEPT !.rcvd = @ + 1, !.rcvdEff = @ + 1, !.sum = @ + ms,
                 !.best = Lower(@, ms), !.worst = Higher(@, ms),
                 !.samples = Last(Append(@, ms), SampleCap), !.prev = ms,
                 !.jitterSum = IF h.prev = None THEN @ ELSE @ + Abs(ms - h.prev),
                 !.jitterN = IF h.prev = None THEN @ ELSE @ + 1]

\* loss_eff counts these of sentEff; fewer than none is none.
Lost(h) == IF h.sentEff < h.rcvdEff THEN 0 ELSE h.sentEff - h.rcvdEff

\* The k-th of the samples in order.
Ranked(s, k) ==
  CHOOSE x \in {s[i] : i \in DOMAIN s} :
    /\ Cardinality({i \in DOMAIN s : s[i] < x}) < k
    /\ k <= Cardinality({i \in DOMAIN s : s[i] <= x})

\* A hundred times the percentile, interpolated between the two nearest ranks.
Pctl(h, p) ==
  LET k == p * (Len(h.samples) - 1)
      f == 1 + k \div 100
      a == Ranked(h.samples, f)
  IN IF k % 100 = 0 THEN 100 * a ELSE 100 * a + (Ranked(h.samples, f + 1) - a) * (k % 100)

-----------------------------------------------------------------------------
(* stream_mtr_raw.                                                         *)

\* Hops in order, without one that repeats the address of the one listed before it.
PrevIp(hs, i) == LET S == {j \in DOMAIN hs : j < i /\ hs[j].ip # None}
                 IN IF S = {} THEN None ELSE hs[CHOOSE j \in S : \A k \in S : k <= j].ip
Listed(hs) == {i \in DOMAIN hs : hs[i].ip = None \/ hs[i].ip # PrevIp(hs, i)}
FinalHop(hs) ==
  IF Listed(hs) = {} THEN None
  ELSE LET i == CHOOSE i \in Listed(hs) : \A j \in Listed(hs) : j <= i
       IN [hop |-> i, ip |-> hs[i].ip, snt |-> hs[i].sent, sntEff |-> hs[i].sentEff]

Init ==
  /\ at = "open" /\ client = "here" /\ active = "no" /\ proc = "none" /\ mtr = "none"
  /\ hops = <<>> /\ open = [i \in Hop |-> {}] /\ late = open
  /\ shown = None /\ log = None

\* The first message names a target and a frequency, or is refused.
Hello ==
  /\ at = "open"
  /\ \/ client = "here" /\ at' = "start" /\ active' = "running"
     \/ at' = "stop" /\ UNCHANGED active
  /\ UNCHANGED <<client, proc, mtr, counts, shown, log>>

\* An interval below a second needs sudo; mtr may not be there.
Start ==
  /\ at = "start"
  /\ \/ proc' = "alive" /\ mtr' \in {"none", "alive"} /\ at' = "greet"
     \/ at' = "stop" /\ UNCHANGED <<proc, mtr>>
  /\ UNCHANGED <<client, active, counts, shown, log>>

Onward_X == "loop"  \* a failed send is ignored
Onward == IF client = "here" THEN "loop" ELSE "term"

Greet ==
  /\ at = "greet" /\ at' = Onward /\ shown' = FinalHop(hops)
  /\ UNCHANGED <<client, active, proc, mtr, counts, log>>

\* After a line a snapshot may be due, and be what shows that the browser is gone.
Snapshot ==
  \/ at' = Onward /\ shown' = FinalHop(hops')
  \/ UNCHANGED <<at, shown>>

At(i)  == IF i \in DOMAIN hops THEN hops[i] ELSE NewHop
Put(i, h) == hops' = [j \in DOMAIN hops \cup {i} |-> IF j = i THEN h ELSE hops[j]]
Line   == at = "loop" /\ UNCHANGED <<client, active, proc, mtr, log>> /\ Snapshot
Sends  == LET n[S \in SUBSET Hop] == IF S = {} THEN 0
                                     ELSE LET i == CHOOSE i \in S : TRUE IN At(i).sent + n[S \ {i}]
          IN n[Hop]

HostLine(i, ip) == Put(i, [At(i) EXCEPT !.ip = ip]) /\ UNCHANGED <<open, late>> /\ Line

SentLine(i) ==
  /\ Sends < MaxSends
  /\ LET n == At(i).sent + 1
     IN /\ Put(i, OnSent(At(i))) /\ open' = [open EXCEPT ![i] = @ \cup {n}]
        /\ late' = (IF n = Warmup THEN [late EXCEPT ![i] = open[i] \cup {n}] ELSE late)
  /\ Line

\* Any probe may be the one that is answered.
ReplyLine(i, n, ms) ==
  /\ n \in open[i] /\ open' = [open EXCEPT ![i] = @ \ {n}]
  /\ Put(i, OnReply(At(i), ms)) /\ UNCHANGED late /\ Line

\* Time passes, mtr prints a line that counts nothing new, and a snapshot is due.
Beat ==
  /\ at = "loop" /\ proc = "alive" /\ at' = Onward /\ shown' = FinalHop(hops)
  /\ UNCHANGED <<client, active, proc, mtr, counts, log>>

\* End of output, or a line that raises.
Eof ==
  /\ at = "loop" /\ at' = "term"
  /\ UNCHANGED <<client, active, proc, mtr, counts, shown, log>>

\* mtr ends with the child: sudo waits for it, and hands on SIGTERM.
Ended == proc' = "dead" /\ mtr' = (IF mtr = "none" THEN "none" ELSE "dead")

\* SIGTERM and two seconds to end; under sudo the signal may be refused.
Terminate ==
  /\ at = "term"
  /\ \/ proc = "dead" /\ at' = "settle" /\ UNCHANGED <<proc, mtr>>
     \/ proc = "alive" /\ at' = "settle" /\ Ended
     \/ proc = "alive" /\ at' = "kill" /\ UNCHANGED <<proc, mtr>>
  /\ UNCHANGED <<client, active, counts, shown, log>>

\* SIGKILL, which is for the child alone: sudo cannot hand it on, and may be spared it.
Kill ==
  /\ at = "kill" /\ at' = "settle"
  /\ \/ proc' = (IF proc = "alive" THEN "killed" ELSE proc)
     \/ mtr # "none" /\ UNCHANGED proc
  /\ UNCHANGED <<client, active, mtr, counts, shown, log>>

Settle_X == at = "settle" /\ at' = "stop" /\ UNCHANGED <<client, active, proc, mtr, counts, shown, log>>
Settle ==   \* update_state
  /\ at = "settle" /\ at' = "stop" /\ shown' = FinalHop(hops)
  /\ UNCHANGED <<client, active, proc, mtr, counts, log>>

-----------------------------------------------------------------------------
(* The finally of ws_mtr.                                                  *)

Complete(f) == f # None /\ f.ip # None /\ f.snt > 0
\* read_runs_last_days: snt_eff is written as a number, so it is what is tested.
InHistory(l) == l.final # None /\ l.final.ip # None /\ l.final.sntEff > 0

Stop ==
  /\ at = "stop" /\ at' = "log" /\ active' = (IF active = "no" THEN "no" ELSE "stopped")
  /\ UNCHANGED <<client, proc, mtr, counts, shown, log>>
\* A line that cannot be built or written is reported on the console, and that is all.
WriteLog ==
  /\ at = "log" /\ at' = "pop"
  /\ \/ log' = [final |-> shown, complete |-> Complete(shown)]
     \/ UNCHANGED log
  /\ UNCHANGED <<client, active, proc, mtr, counts, shown>>
Pop ==
  /\ at = "pop" /\ at' = "closed" /\ active' = "no"
  /\ UNCHANGED <<client, proc, mtr, counts, shown, log>>

-----------------------------------------------------------------------------
Leave == client = "here" /\ client' = "gone" /\ UNCHANGED <<at, active, proc, mtr, counts, shown, log>>
\* A child ends; a killed sudo leaves mtr behind, which ends as nobody reads its output.
Exit ==
  /\ \/ proc = "alive" /\ Ended
     \/ proc = "killed" /\ proc' = "dead" /\ UNCHANGED mtr
     \/ proc \in {"killed", "dead"} /\ mtr = "alive" /\ mtr' = "dead" /\ UNCHANGED proc
  /\ UNCHANGED <<at, client, active, counts, shown, log>>

Handle == Start \/ Greet \/ Terminate \/ Kill \/ Settle \/ Stop \/ WriteLog \/ Pop

Next ==
  \/ Hello \/ Handle \/ Beat \/ Eof \/ Leave \/ Exit
  \/ \E i \in Hop : \/ SentLine(i) \/ \E ip \in Ip : HostLine(i, ip)
                    \/ \E n \in open[i], ms \in Latency : ReplyLine(i, n, ms)

Spec == Init /\ [][Next]_vars

\* The handler runs on, and mtr, asked for 999999 rounds, keeps printing or ends.
FairSpec == Spec /\ WF_vars(Handle) /\ WF_vars(Beat) /\ WF_vars(Eof /\ proc # "alive")

-----------------------------------------------------------------------------
Number == Latency \cup {None}
HopRow ==
  [ip : Ip \cup {None}, sent : Nat, rcvd : Nat, warm : BOOLEAN, sentEff : Nat, rcvdEff : Nat,
   best : Number, worst : Number, sum : Nat, samples : Seq(Latency), prev : Number,
   jitterSum : Nat, jitterN : Nat]

\* Type invariant.
TypeOK ==
  /\ at \in {"open", "start", "greet", "loop", "term", "kill", "settle", "stop", "log", "pop", "closed"}
  /\ client \in {"here", "gone"} /\ active \in {"no", "running", "stopped"}
  /\ proc \in {"none", "alive", "dead", "killed"} /\ mtr \in {"none", "alive", "dead"}
  /\ DOMAIN hops \subseteq Hop /\ IsFiniteSet(DOMAIN hops) /\ hops \in [DOMAIN hops -> HopRow]
  /\ open \in [Hop -> SUBSET Nat] /\ late \in [Hop -> SUBSET (1..Warmup)]
  /\ \A i \in Hop : open[i] \subseteq 1..At(i).sent /\ At(i).rcvd + Cardinality(open[i]) = At(i).sent

\* The figures of a hop.  The loss shown is at most what was lost of the probes after
\* the warm-up, and short of it by at most the probes of the warm-up that were answered
\* after it.  Averages, percentiles and jitter lie where best and worst put them, also
\* when old samples were dropped.
CountsHonest ==
  \A i \in DOMAIN hops :
    LET h == hops[i]
        lost == Cardinality({n \in open[i] : n > Warmup})
    IN /\ Lost(h) <= lost /\ lost <= Lost(h) + Cardinality(late[i] \ open[i])
       /\ (h.rcvdEff = 0) = (h.best = None)
       /\ h.rcvdEff > 0 =>
            /\ h.best * h.rcvdEff <= h.sum /\ h.sum <= h.worst * h.rcvdEff
            /\ 100 * h.best <= Pctl(h, 95) /\ Pctl(h, 95) <= Pctl(h, 99)
            /\ Pctl(h, 99) <= 100 * h.worst
            /\ h.jitterN = h.rcvdEff - 1 /\ h.jitterSum <= h.jitterN * (h.worst - h.best)

\* The line of the log, if it could be written, tells of the last hop as it was at the
\* end, however the run ended, and what the history lists was complete; no line is
\* written before.  By then mtr is gone or has SIGKILL, but under sudo, where SIGKILL
\* may be refused or reach sudo alone.
LogTellsRun ==
  /\ log # None => /\ at \in {"pop", "closed"} /\ log.final = FinalHop(hops)
                   /\ InHistory(log) => log.complete
  /\ at \in {"pop", "closed"} /\ proc = "alive" => mtr # "none"

\* The inductive invariant of CountsHonest: where each probe that was sent is by
\* now, and what the figures of the counted replies are.
Counted(h, o, l) ==
  /\ Cardinality({n \in o : n > Warmup}) + h.rcvdEff = h.sentEff + Cardinality(l \ o)
  /\ h.warm  => h.sent >= Warmup /\ h.sentEff = h.sent - Warmup /\ o \cap (1..Warmup) \subseteq l
  /\ ~h.warm => h.sent < Warmup /\ h.sentEff = 0 /\ h.rcvdEff = 0 /\ l = {}

Figures(h) ==
  IF h.rcvdEff = 0
  THEN /\ h.best = None /\ h.worst = None /\ h.prev = None /\ h.samples = <<>>
       /\ h.sum = 0 /\ h.jitterSum = 0 /\ h.jitterN = 0
  ELSE /\ {h.best, h.worst, h.prev} \subseteq Latency /\ h.best <= h.prev /\ h.prev <= h.worst
       /\ h.samples # <<>>
       /\ \A j \in DOMAIN h.samples : h.best <= h.samples[j] /\ h.samples[j] <= h.worst
       /\ h.best * h.rcvdEff <= h.sum /\ h.sum <= h.worst * h.rcvdEff
       /\ h.jitterN = h.rcvdEff - 1 /\ h.jitterSum <= h.jitterN * (h.worst - h.best)

HopsInv == \A i \in Hop : Counted(At(i), open[i], late[i]) /\ Figures(At(i))

\* What the line of the log will tell, from the end of the output on.
EndInv ==
  /\ at \in {"open", "start"} => hops = <<>> /\ shown = None /\ proc = "none"
  /\ at \in {"stop", "log", "pop", "closed"} => shown = FinalHop(hops)
  /\ at \in {"settle", "stop", "log", "pop", "closed"} => (proc = "alive" => mtr # "none")
  /\ log = None \/ (at \in {"pop", "closed"} /\ log = [final |-> shown, complete |-> Complete(shown)])

IInv == TypeOK /\ HopsInv /\ EndInv

\* When the browser has left, the run leaves the list of active runs.
LeftRunsEnd == (client = "gone" /\ active # "no") ~> (active = "no")
=============================================================================
