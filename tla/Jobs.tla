---------------------------------- MODULE Jobs ---------------------------------
(***************************************************************************)
(* Clone and disaster-recovery runs (scripts/clone_runner.py,              *)
(* scripts/dr_runner.py, scripts/clone_schedule.py and their routes and    *)
(* scheduler in main.py) on one host.  One run of each kind at a time      *)
(* holds a slot; a thread starts a script, reads its output and keeps a    *)
(* record in memory and in a file.  A clone copies the host to a standby;  *)
(* a promotion makes a standby the primary and recreates its containers.   *)
(*                                                                         *)
(* Definitions ending in _X are slips, see POApproval.tla.                 *)
(***************************************************************************)
EXTENDS Naturals

CONSTANTS
  MaxClones, MaxPromotions,   \* bounds: runs of each kind
  MaxFaults, MaxEdits         \* bounds: failures and restarts; changes of the schedule

ASSUME ConstantsAssumption == {MaxClones, MaxPromotions, MaxFaults, MaxEdits} \subseteq Nat

Kinds  == {"clone", "dr"}
Runs   == ({"clone"} \X (1..MaxClones)) \cup ({"dr"} \X (1..MaxPromotions))
Status == {"absent", "running", "completed", "failed"}

\* A target without host or directory, one that is complete, and one with an
\* override file to be written for the script.
Target == {"none", "plain", "override"}
Config == [on : BOOLEAN, target : Target]

VARIABLES
  slot,      \* _active_run_id, _active: the run of each kind, 0 if none
  mem, file, \* _runs_mem, _runs and the JSON file of a run
  step,      \* where the thread that starts or serves a run is
  script,    \* the script of a run
  role,      \* dr_mode.json; a file half written reads as standby
  allowed,   \* CLONE_SCHEDULER_ENABLED of this process
  sched,     \* clone-schedule.json
  night,     \* _nightly_clone_scheduler: off, planning, or what it will start
  editor,    \* a request that has read the schedule to save a target
  faults, edits

vars == <<slot, mem, file, step, script, role, allowed, sched, night, editor, faults, edits>>
run  == <<slot, mem, file, step, script>>
host == <<role, allowed, sched, night, editor, edits>>

Off      == [at |-> "off"]
Planning == [at |-> "planning"]
Asleep(t) == [at |-> "asleep", target |-> t]
Idle     == [new |-> "none", was |-> FALSE, busy |-> FALSE]

Init ==
  /\ slot = [k \in Kinds |-> 0]
  /\ mem = [r \in Runs |-> "absent"] /\ file = mem
  /\ step = [r \in Runs |-> "unused"] /\ script = [r \in Runs |-> "none"]
  /\ role = "standby" /\ allowed \in BOOLEAN
  /\ sched \in {c \in Config : c.on => allowed}
  /\ night = (IF allowed THEN Planning ELSE Off) /\ editor = Idle
  /\ faults = 0 /\ edits = 0

Set(f, r, v) == [f EXCEPT ![r] = v]

Fault == faults < MaxFaults /\ faults' = faults + 1

\* _save of the record as mem' has it; the disk may be full.
Save(r) ==
  \/ file' = Set(file, r, mem'[r]) /\ UNCHANGED faults
  \/ file' = Set(file, r, "torn") /\ Fault
Saved(r) == file'[r] # "torn"

-----------------------------------------------------------------------------
(* A run.  The slot is taken and the record saved under the lock; what can *)
(* fail before the thread runs leaves the slot taken.                      *)

Take(r, then) ==
  /\ slot[r[1]] = 0 /\ step[r] = "unused"
  /\ \A n \in 1..(r[2] - 1) : step[<<r[1], n>>] # "unused"
  /\ slot' = [slot EXCEPT ![r[1]] = r[2]]
  /\ mem' = Set(mem, r, "running") /\ Save(r)
  /\ step' = Set(step, r, IF Saved(r) THEN then ELSE "stranded")
  /\ UNCHANGED script

StartClone(r, t) == r[1] = "clone" /\ t # "none" /\ Take(r, IF t = "override" THEN "override" ELSE "launch")

WriteOverride(r) ==
  /\ step[r] = "override"
  /\ \/ step' = Set(step, r, "launch") /\ UNCHANGED faults
     \/ step' = Set(step, r, "stranded") /\ Fault
  /\ UNCHANGED <<slot, mem, file, script, host>>

Launch(r) ==
  /\ step[r] = "launch" /\ step' = Set(step, r, "spawn")
  /\ UNCHANGED <<slot, mem, file, script, host, faults>>

Spawn(r) ==
  /\ step[r] = "spawn"
  /\ \/ script' = Set(script, r, "alive") /\ UNCHANGED mem /\ Save(r)
        /\ step' = Set(step, r, IF Saved(r) THEN "reading" ELSE "raised")
     \/ step' = Set(step, r, "raised") /\ Fault /\ UNCHANGED <<mem, file, script>>
  /\ UNCHANGED <<slot, host>>

\* A line of output is appended and saved; that may be what fails, and the thread
\* leaves the script to itself.
LineFails(r) ==
  /\ step[r] = "reading"
  /\ step' = Set(step, r, "raised") /\ file' = Set(file, r, "torn") /\ Fault
  /\ UNCHANGED <<slot, mem, script, host>>

Finish(r) ==
  /\ step[r] = "reading" /\ script[r] \in {"ok", "failed"}
  /\ mem' = Set(mem, r, IF script[r] = "ok" THEN "completed" ELSE "failed") /\ Save(r)
  /\ step' = Set(step, r, IF Saved(r) THEN "free" ELSE "raised")
  /\ UNCHANGED <<slot, script, host>>

Except_X(r) ==     \* the record keeps the status it had
  /\ step[r] = "raised" /\ UNCHANGED mem /\ Save(r) /\ step' = Set(step, r, "free")
  /\ UNCHANGED <<slot, script, host>>
Except(r) ==
  /\ step[r] = "raised"
  /\ mem' = Set(mem, r, "failed") /\ Save(r)
  /\ step' = Set(step, r, "free")
  /\ UNCHANGED <<slot, script, host>>

Free_X(r) ==       \* only after success
  /\ step[r] = "free" /\ step' = Set(step, r, "gone")
  /\ slot' = [slot EXCEPT ![r[1]] = IF mem[r] = "completed" THEN 0 ELSE @]
  /\ UNCHANGED <<mem, file, script, host, faults>>
Free(r) ==
  /\ step[r] = "free" /\ step' = Set(step, r, "gone")
  /\ slot' = [slot EXCEPT ![r[1]] = 0]
  /\ UNCHANGED <<mem, file, script, host, faults>>

\* clone_runner.get_run reads a file into memory, where it stays.
GetRun(r) ==
  /\ r[1] = "clone" /\ mem[r] = "absent" /\ file[r] \notin {"absent", "torn"}
  /\ mem' = Set(mem, r, file[r])
  /\ UNCHANGED <<slot, file, step, script, host, faults>>

RunnerStep(r) == Launch(r) \/ WriteOverride(r) \/ Spawn(r) \/ Finish(r) \/ Except(r) \/ Free(r)

-----------------------------------------------------------------------------
(* The scripts: clone_rebuild.sh may end either way; dr_promote.sh writes  *)
(* dr_mode.json and then recreates the stack.                              *)

Alive(r) == script[r] \in {"alive", "writing", "written"}

ScriptEnds(r) ==
  /\ Alive(r)
  /\ \/ script' = Set(script, r, "ok") /\ (r[1] = "dr" => script[r] = "written")
     \/ script' = Set(script, r, "failed")
  /\ UNCHANGED <<slot, mem, file, step, host, faults>>

WriteRole(r) ==
  /\ r[1] = "dr"
  /\ \/ script[r] = "alive" /\ script' = Set(script, r, "writing") /\ role' = "torn"
     \/ script[r] = "writing" /\ script' = Set(script, r, "written") /\ role' = "primary"
  /\ UNCHANGED <<slot, mem, file, step, allowed, sched, night, editor, faults, edits>>

\* A new process: what was in memory is gone and scripts are killed.  A host that
\* may not clone turns the schedule off, _standby_sanitize_clone_schedule_json.
Boot(may) ==
  /\ slot' = [k \in Kinds |-> 0] /\ mem' = [r \in Runs |-> "absent"]
  /\ step' = [r \in Runs |-> IF step[r] = "unused" THEN "unused" ELSE "gone"]
  /\ script' = [r \in Runs |-> IF Alive(r) THEN "failed" ELSE script[r]]
  /\ allowed' = may
  /\ sched' = [sched EXCEPT !.on = @ /\ may]
  /\ night' = (IF may THEN Planning ELSE Off) /\ editor' = Idle
  /\ UNCHANGED <<file, role, edits>>

Restart == Boot(allowed) /\ Fault
Recreate(r) == r[1] = "dr" /\ script[r] = "written" /\ Boot(TRUE) /\ UNCHANGED faults

\* A clone from production ends: its data directory, with its schedule and the file
\* of the run itself, is copied over that of the standby, which already runs.
MergeData ==
  /\ ~allowed /\ edits < MaxEdits /\ edits' = edits + 1
  /\ sched' \in Config
  /\ \E r \in Runs : /\ r[1] = "clone" /\ step[r] = "unused"
                     /\ file' = Set(file, r, "running") /\ step' = Set(step, r, "gone")
  /\ UNCHANGED <<slot, mem, script, role, allowed, night, editor, faults>>

-----------------------------------------------------------------------------
(* Requests.                                                               *)

CloneStart(r) == allowed /\ (\E t \in Target : StartClone(r, t)) /\ UNCHANGED host
RunNow(r)     == allowed /\ StartClone(r, sched.target) /\ UNCHANGED host
Promote(r)    == r[1] = "dr" /\ Take(r, "launch") /\ UNCHANGED host

EditSchedule ==
  /\ edits < MaxEdits /\ edits' = edits + 1
  /\ sched' \in {c \in Config : c.on => allowed}
  /\ UNCHANGED <<run, role, allowed, night, editor, faults>>

\* api_clone_target_put and _reset read the schedule, change the target and write.
ReadSchedule ==
  /\ ~editor.busy /\ edits < MaxEdits /\ edits' = edits + 1
  /\ \E t \in Target : editor' = [new |-> t, was |-> sched.on, busy |-> TRUE]
  /\ UNCHANGED <<run, role, allowed, sched, night, faults>>
WriteTarget ==
  /\ editor.busy /\ editor' = Idle
  /\ sched' = [on |-> editor.was, target |-> editor.new]
  /\ UNCHANGED <<run, role, allowed, night, faults, edits>>

\* The scheduler reads the schedule, sleeps until the hour it names, looks whether
\* this host was promoted and starts what it had read.
PlanNight_X ==     \* whatever the target
  /\ night = Planning /\ allowed /\ sched.on /\ night' = Asleep(sched.target)
  /\ UNCHANGED <<run, role, allowed, sched, editor, faults, edits>>
PlanNight ==
  /\ night = Planning /\ allowed /\ sched.on /\ sched.target # "none"
  /\ night' = Asleep(sched.target)
  /\ UNCHANGED <<run, role, allowed, sched, editor, faults, edits>>
StartNight_X(r) == \* without a look at the role
  /\ night.at = "asleep" /\ StartClone(r, night.target) /\ night' = Planning
  /\ UNCHANGED <<role, allowed, sched, editor, edits>>
StartNight(r) ==
  /\ night.at = "asleep" /\ role # "primary" /\ StartClone(r, night.target)
  /\ night' = Planning
  /\ UNCHANGED <<role, allowed, sched, editor, edits>>
SkipNight ==
  /\ night.at = "asleep" /\ (role = "primary" \/ slot["clone"] # 0) /\ night' = Planning
  /\ UNCHANGED <<run, role, allowed, sched, editor, faults, edits>>

Next ==
  \/ \E r \in Runs :
       \/ RunnerStep(r) \/ LineFails(r) \/ GetRun(r)
       \/ ScriptEnds(r) \/ WriteRole(r) \/ Recreate(r)
       \/ CloneStart(r) \/ RunNow(r) \/ Promote(r) \/ StartNight(r)
  \/ Restart \/ MergeData \/ EditSchedule \/ ReadSchedule \/ WriteTarget
  \/ PlanNight \/ SkipNight

Spec == Init /\ [][Next]_vars

\* Threads run on, and a script ends; only what its steps await is an assumption.
FairSpec == Spec /\ \A r \in Runs : WF_vars(RunnerStep(r)) /\ WF_vars(ScriptEnds(r))

-----------------------------------------------------------------------------
\* Type invariant.
TypeOK ==
  /\ slot \in [Kinds -> Nat] /\ mem \in [Runs -> Status]
  /\ file \in [Runs -> Status \cup {"torn"}]
  /\ step \in [Runs -> {"unused", "override", "launch", "spawn", "reading", "raised", "free",
                        "gone", "stranded"}]
  /\ script \in [Runs -> {"none", "alive", "writing", "written", "ok", "failed"}]
  /\ role \in {"standby", "torn", "primary"} /\ allowed \in BOOLEAN /\ sched \in Config
  /\ night \in {Off, Planning} \cup {Asleep(t) : t \in Target \ {"none"}}
  /\ editor \in [new : Target, was : BOOLEAN, busy : BOOLEAN]

\* The slot is held by the run that is being served or that never got a thread.  A
\* script that runs without the slot, beside which the next one may start, is on
\* record as failed.  Completed, in memory or in the file, means the script was.
SlotTellsRunner ==
  /\ \A r \in Runs : /\ slot[r[1]] = r[2] <=> step[r] \notin {"unused", "gone"}
                     /\ Alive(r) /\ slot[r[1]] # r[2] => mem[r] = "failed"
                     /\ "completed" \in {mem[r], file[r]} => script[r] = "ok"

\* A run that has no script yet, or whose script has outlived its thread.
ScriptFollowsStep ==
  \A r \in Runs :
    /\ step[r] \in {"unused", "override", "launch", "spawn", "stranded"} => script[r] = "none"
    /\ step[r] = "free" /\ Alive(r) => mem[r] = "failed"

\* The inductive invariant of SlotTellsRunner.
IInv == TypeOK /\ SlotTellsRunner /\ ScriptFollowsStep

\* Once promoted, a host does not push nightly clones, although it may clone and the
\* schedule it was cloned with may be on; but for the moment of another promotion.
PromotedNeverPushes ==
  [][(role = "primary" /\ night.at = "asleep" /\ night'.at # "asleep") => slot' = slot
       \/ slot'["clone"] = 0]_vars

\* A run that got its thread gives the slot back.
SlotComesFree ==
  \A r \in Runs : slot[r[1]] = r[2] ~> (slot[r[1]] # r[2] \/ step[r] = "stranded")
=============================================================================
