------------------------------ MODULE Jobs_proofs ------------------------------
(* Proofs about clone and promotion runs, for any number of runs, failures,   *)
(* restarts and changes of the schedule.                                      *)
EXTENDS Jobs, TLAPS

-----------------------------------------------------------------------------
(* Type correctness. *)

LEMMA RunPairs ==
  /\ \A r \in Runs : r[1] \in Kinds /\ r[2] \in Nat \ {0}
  /\ \A r, q \in Runs : r[1] = q[1] /\ r[2] = q[2] => r = q
BY ConstantsAssumption DEF Runs, Kinds, ConstantsAssumption

LEMMA InitType == Init => TypeOK
BY DEF Init, TypeOK, Status, Config, Target, Off, Planning, Idle

LEMMA SaveType ==
  ASSUME TypeOK, NEW r \in Runs, mem' \in [Runs -> Status], Save(r)
  PROVE  file' \in [Runs -> Status \cup {"torn"}]
BY DEF TypeOK, Save, Set

LEMMA NextType == TypeOK /\ [Next]_vars => TypeOK'
<1> SUFFICES ASSUME TypeOK, [Next]_vars
             PROVE  TypeOK'
  OBVIOUS
<1> USE RunPairs DEF TypeOK, Set
<1>1. ASSUME NEW r \in Runs, RunnerStep(r) \/ LineFails(r) \/ GetRun(r)
      PROVE  TypeOK'
  <2>1. /\ mem' \in [Runs -> Status] /\ slot' \in [Kinds -> Nat]
        /\ UNCHANGED host
    BY <1>1 DEF RunnerStep, WriteOverride, Launch, Spawn, LineFails, Finish, Except, Free, GetRun,
                host, Status
  <2>2. file' \in [Runs -> Status \cup {"torn"}]
    BY <1>1, <2>1, SaveType DEF RunnerStep, WriteOverride, Launch, Spawn, LineFails, Finish,
                                Except, Free, GetRun
  <2>3. /\ step' \in [Runs -> {"unused", "override", "launch", "spawn", "reading", "raised",
                               "free", "gone", "stranded"}]
        /\ script' \in [Runs -> {"none", "alive", "writing", "written", "ok", "failed"}]
    BY <1>1 DEF RunnerStep, WriteOverride, Launch, Spawn, LineFails, Finish, Except, Free, GetRun
  <2> QED
    BY <2>1, <2>2, <2>3 DEF host
<1>2. ASSUME NEW r \in Runs, ScriptEnds(r) \/ WriteRole(r)
      PROVE  TypeOK'
  BY <1>2 DEF ScriptEnds, WriteRole, Alive, host
<1>3. ASSUME NEW may \in BOOLEAN, Boot(may)
      PROVE  TypeOK'
  BY <1>3 DEF Boot, Alive, Status, Config, Off, Planning, Idle, Target
<1>4. ASSUME NEW r \in Runs, NEW then \in {"override", "launch"}, Take(r, then)
      PROVE  /\ mem' \in [Runs -> Status] /\ slot' \in [Kinds -> Nat]
             /\ file' \in [Runs -> Status \cup {"torn"}]
             /\ step' \in [Runs -> {"unused", "override", "launch", "spawn", "reading", "raised",
                                    "free", "gone", "stranded"}]
             /\ UNCHANGED script
  <2>1. /\ mem' \in [Runs -> Status] /\ slot' \in [Kinds -> Nat]
    BY <1>4 DEF Take, Status
  <2>2. file' \in [Runs -> Status \cup {"torn"}]
    BY <1>4, <2>1, SaveType DEF Take
  <2>3. /\ step' \in [Runs -> {"unused", "override", "launch", "spawn", "reading", "raised",
                               "free", "gone", "stranded"}]
        /\ UNCHANGED script
    BY <1>4 DEF Take
  <2> QED
    BY <2>1, <2>2, <2>3
<1>5. ASSUME MergeData
      PROVE  TypeOK'
  BY <1>5 DEF MergeData, Status
<1>6. ASSUME EditSchedule \/ ReadSchedule \/ WriteTarget
      PROVE  TypeOK'
  <2>1. sched' \in Config /\ editor' \in [new : Target, was : BOOLEAN, busy : BOOLEAN]
    <3>1. CASE EditSchedule
      BY <3>1 DEF EditSchedule
    <3>2. CASE ReadSchedule
      <4>1. sched.on \in BOOLEAN
        BY DEF Config
      <4>2. PICK t \in Target : editor' = [new |-> t, was |-> sched.on, busy |-> TRUE]
        BY <3>2 DEF ReadSchedule
      <4> QED
        BY <3>2, <4>1, <4>2 DEF ReadSchedule
    <3>3. CASE WriteTarget
      <4>1. editor.was \in BOOLEAN /\ editor.new \in Target
        BY Zenon
      <4> QED
        BY <3>3, <4>1 DEF WriteTarget, Config, Idle, Target
    <3> QED
      BY <1>6, <3>1, <3>2, <3>3
  <2>2. UNCHANGED <<slot, mem, file, step, script, role, allowed, night>>
    BY <1>6 DEF EditSchedule, ReadSchedule, WriteTarget, run
  <2> QED
    BY <2>1, <2>2
<1>7. ASSUME PlanNight \/ SkipNight
      PROVE  TypeOK'
  <2>1. night' \in {Off, Planning} \cup {Asleep(t) : t \in Target \ {"none"}}
    BY <1>7 DEF PlanNight, SkipNight, Config
  <2> QED
    BY <1>7, <2>1 DEF PlanNight, SkipNight, run
<1>8. ASSUME NEW r \in Runs, StartNight(r)
      PROVE  TypeOK'
  <2>1. PICK then \in {"override", "launch"} : Take(r, then)
    BY <1>8 DEF StartNight, StartClone
  <2>2. UNCHANGED <<role, allowed, sched, editor>> /\ night' = Planning
    BY <1>8 DEF StartNight
  <2> QED
    BY <2>1, <2>2, <1>4
<1>9. ASSUME NEW r \in Runs, CloneStart(r) \/ RunNow(r) \/ Promote(r)
      PROVE  TypeOK'
  <2>1. PICK then \in {"override", "launch"} : Take(r, then)
    BY <1>9 DEF CloneStart, RunNow, Promote, StartClone
  <2> QED
    BY <1>4, <1>9, <2>1 DEF CloneStart, RunNow, Promote, host
<1>10. CASE UNCHANGED vars
  BY <1>10 DEF vars
<1> QED
  BY <1>1, <1>2, <1>3, <1>5, <1>6, <1>7, <1>8, <1>9, <1>10 DEF Next, Restart, Recreate
-----------------------------------------------------------------------------
(* The slot and the scripts. *)

\* What IInv says of one run.
RunInv(q) ==
  /\ slot[q[1]] = q[2] <=> step[q] \notin {"unused", "gone"}
  /\ Alive(q) /\ slot[q[1]] # q[2] => mem[q] = "failed"
  /\ "completed" \in {mem[q], file[q]} => script[q] = "ok"
  /\ step[q] \in {"unused", "override", "launch", "spawn", "stranded"} => script[q] = "none"
  /\ step[q] = "free" /\ Alive(q) => mem[q] = "failed"

LEMMA ByRun == IInv <=> TypeOK /\ \A q \in Runs : RunInv(q)
BY DEF IInv, RunInv, SlotTellsRunner, ScriptFollowsStep

LEMMA InitIInv == Init => IInv
<1> SUFFICES ASSUME Init
             PROVE  \A q \in Runs : RunInv(q)
  BY InitType, ByRun
<1> QED
  BY RunPairs DEF Init, RunInv, Alive

\* The slot tells runs of a kind apart: a run that takes or frees it, or that has
\* it, leaves the others as they were.
LEMMA OthersKeep ==
  ASSUME TypeOK, NEW r \in Runs, NEW q \in Runs, q # r, RunInv(q),
         \/ slot' = slot
         \/ slot' = [slot EXCEPT ![r[1]] = r[2]] /\ slot[r[1]] = 0
         \/ slot' = [slot EXCEPT ![r[1]] = 0] /\ slot[r[1]] = r[2],
         mem'[q] = mem[q], file'[q] = file[q], step'[q] = step[q], script'[q] = script[q]
  PROVE  RunInv(q)'
<1>1. slot'[q[1]] = q[2] <=> slot[q[1]] = q[2]
  BY RunPairs DEF TypeOK
<1> QED
  BY <1>1 DEF RunInv, Alive

LEMMA SaveKeeps ==
  ASSUME TypeOK, NEW r \in Runs, Save(r)
  PROVE  /\ \A q \in Runs : q # r => file'[q] = file[q]
         /\ file'[r] \in {mem'[r], "torn"}
BY DEF TypeOK, Save, Set

LEMMA TakeKeeps ==
  ASSUME IInv, NEW r \in Runs, NEW then \in {"override", "launch"}, Take(r, then),
         NEW q \in Runs
  PROVE  RunInv(q)'
<1> TypeOK /\ RunInv(q)
  BY ByRun
<1> USE RunPairs DEF Set
<1>1. CASE q # r
  <2>1. /\ slot' = [slot EXCEPT ![r[1]] = r[2]] /\ slot[r[1]] = 0
        /\ mem'[q] = mem[q] /\ step'[q] = step[q] /\ script'[q] = script[q]
    BY <1>1 DEF TypeOK, Take
  <2>2. file'[q] = file[q]
    BY <1>1, SaveKeeps DEF TypeOK, Take
  <2> QED
    BY <1>1, <2>1, <2>2, OthersKeep DEF RunInv, Alive
<1>2. CASE q = r
  <2>1. /\ step[q] = "unused" /\ script[q] = "none" /\ script' = script
        /\ slot'[q[1]] = q[2] /\ mem'[q] = "running" /\ step'[q] \in {then, "stranded"}
    BY <1>2 DEF TypeOK, Take, RunInv
  <2>2. file'[q] # "completed"
    BY <1>2, <2>1, SaveKeeps DEF TypeOK, Take
  <2> QED
    BY <2>1, <2>2 DEF TypeOK, RunInv, Alive
<1> QED
  BY <1>1, <1>2

LEMMA RunnerKeeps ==
  ASSUME IInv, NEW r \in Runs, RunnerStep(r) \/ LineFails(r) \/ GetRun(r), NEW q \in Runs
  PROVE  RunInv(q)'
<1> TypeOK /\ RunInv(r) /\ RunInv(q)
  BY ByRun
<1> USE RunPairs DEF Set
<1>1. CASE q # r
  <2>1. slot' = slot \/ (slot' = [slot EXCEPT ![r[1]] = 0] /\ slot[r[1]] = r[2])
    <3>1. CASE Free(r)
      BY <3>1 DEF Free, RunInv
    <3> QED
      BY <3>1 DEF RunnerStep, WriteOverride, Launch, Spawn, LineFails, Finish, Except, GetRun
  <2>3. mem'[q] = mem[q] /\ step'[q] = step[q] /\ script'[q] = script[q]
    BY <1>1 DEF TypeOK, RunnerStep, WriteOverride, Launch, Spawn, LineFails, Finish, Except, Free, GetRun
  <2>2. file'[q] = file[q]
    BY <1>1, SaveKeeps DEF TypeOK, RunnerStep, WriteOverride, Launch, Spawn, LineFails, Finish, Except, Free, GetRun
  <2> QED
    BY <1>1, <2>1, <2>2, <2>3, OthersKeep DEF RunInv, Alive
<1>2. CASE q = r
  <2>1. CASE WriteOverride(r) \/ Launch(r) \/ LineFails(r)
    BY <1>2, <2>1 DEF TypeOK, WriteOverride, Launch, LineFails, RunInv, Alive
  <2>2. CASE Spawn(r) \/ Finish(r) \/ Except(r)
    <3>1. file'[r] \in {mem'[r], "torn", file[r]}
      BY <2>2, SaveKeeps DEF TypeOK, Spawn, Finish, Except
    <3> QED
      BY <1>2, <2>2, <3>1 DEF TypeOK, Spawn, Finish, Except, RunInv, Alive
  <2>3. CASE Free(r)
    BY <1>2, <2>3 DEF TypeOK, Free, RunInv, Alive
  <2>4. CASE GetRun(r)
    BY <1>2, <2>4 DEF TypeOK, GetRun, RunInv, Alive
  <2> QED
    BY <2>1, <2>2, <2>3, <2>4 DEF TypeOK, RunnerStep
<1> QED
  BY <1>1, <1>2

LEMMA BootKeeps ==
  ASSUME IInv, NEW may \in BOOLEAN, Boot(may), NEW q \in Runs
  PROVE  RunInv(q)'
BY RunPairs, ByRun DEF TypeOK, Boot, RunInv, Alive, TypeOK

LEMMA NextIInv == IInv /\ [Next]_vars => IInv'
<1> SUFFICES ASSUME IInv, [Next]_vars, NEW q \in Runs
             PROVE  RunInv(q)'
  BY NextType DEF IInv, RunInv, SlotTellsRunner, ScriptFollowsStep
<1> USE RunPairs, ByRun DEF TypeOK, Set
<1>1. ASSUME NEW r \in Runs, RunnerStep(r) \/ LineFails(r) \/ GetRun(r)
      PROVE  RunInv(q)'
  BY <1>1, RunnerKeeps
<1>2. ASSUME NEW r \in Runs, ScriptEnds(r) \/ WriteRole(r)
      PROVE  RunInv(q)'
  BY <1>2 DEF ScriptEnds, WriteRole, Alive, RunInv
<1>3. ASSUME NEW may \in BOOLEAN, Boot(may)
      PROVE  RunInv(q)'
  BY <1>3, BootKeeps
<1>4. ASSUME NEW r \in Runs, CloneStart(r) \/ RunNow(r) \/ Promote(r) \/ StartNight(r)
      PROVE  RunInv(q)'
  <2>1. PICK then \in {"override", "launch"} : Take(r, then)
    BY <1>4 DEF CloneStart, RunNow, Promote, StartNight, StartClone
  <2> QED
    BY <2>1, TakeKeeps
<1>5. CASE MergeData
  BY <1>5 DEF MergeData, RunInv, Alive
<1>6. CASE EditSchedule \/ ReadSchedule \/ WriteTarget \/ PlanNight \/ SkipNight \/ UNCHANGED vars
  BY <1>6 DEF EditSchedule, ReadSchedule, WriteTarget, PlanNight, SkipNight, run, vars, RunInv, Alive
<1> QED
  BY <1>1, <1>2, <1>3, <1>4, <1>5, <1>6 DEF Next, Restart, Recreate

\* The type invariant holds, whatever fails and whenever the host restarts.
THEOREM TypeCorrect == Spec => []TypeOK
BY InitType, NextType, PTL DEF Spec

\* The invariant of each kind of run, by which the slot is held for exactly as long
\* as its thread works, is kept by every step of every actor.
THEOREM Inductive == Spec => []IInv
BY InitIInv, NextIInv, PTL DEF Spec

\* The slot of a kind and the threads of its runs agree, scripts that run beside it
\* are on record as failed, and a run is on record as completed only if its script
\* was (start_clone, _run_clone, get_run; start_promote, _run_promote).
THEOREM SlotsTell == Spec => []SlotTellsRunner
<1>1. IInv => SlotTellsRunner
  BY DEF IInv
<1> QED
  BY <1>1, Inductive, PTL

-----------------------------------------------------------------------------
(* The nightly job. *)

\* A host that is the primary starts no nightly clone: what ends the sleep of the
\* scheduler is the look at the role, or a new process (_nightly_clone_scheduler).
THEOREM PrimaryStaysQuiet == Spec => PromotedNeverPushes
<1>1. TypeOK /\ [Next]_vars =>
        [(role = "primary" /\ night.at = "asleep" /\ night'.at # "asleep") => slot' = slot
           \/ slot'["clone"] = 0]_vars
  <2> SUFFICES ASSUME TypeOK, Next, role = "primary", night.at = "asleep", night'.at # "asleep"
               PROVE  slot' = slot \/ slot'["clone"] = 0
    OBVIOUS
  <2>1. ASSUME NEW may \in BOOLEAN, Boot(may)
        PROVE  slot'["clone"] = 0
    BY <2>1 DEF Boot, Kinds
  <2>2. ASSUME NEW r \in Runs, RunnerStep(r) \/ LineFails(r) \/ GetRun(r) \/ ScriptEnds(r) \/ WriteRole(r)
                               \/ CloneStart(r) \/ RunNow(r) \/ Promote(r)
        PROVE  night' = night
    BY <2>2 DEF RunnerStep, WriteOverride, Launch, Spawn, LineFails, Finish, Except, Free, GetRun,
                ScriptEnds, WriteRole, CloneStart, RunNow, Promote, host
  <2>3. CASE MergeData \/ EditSchedule \/ ReadSchedule \/ WriteTarget \/ SkipNight
    BY <2>3 DEF MergeData, EditSchedule, ReadSchedule, WriteTarget, SkipNight, run
  <2>4. ASSUME NEW r \in Runs, StartNight(r)
        PROVE  FALSE
    BY <2>4 DEF StartNight
  <2>5. CASE PlanNight
    BY <2>5 DEF PlanNight, Planning
  <2> QED
    BY <2>1, <2>2, <2>3, <2>4, <2>5 DEF Next, Restart, Recreate, TypeOK
<1> QED
  BY <1>1, TypeCorrect, PTL DEF Spec, PromotedNeverPushes
=============================================================================
