------------------------------ MODULE Monitoring ------------------------------
(***************************************************************************)
(* Monitoring (monitoring.py).  Devices on tabs, some in site groups, are  *)
(* pinged by the sampler, by every status page and by every                *)
(* acknowledgement.  Each of these threads lists the devices, pings them   *)
(* for seconds, and only then takes the lock and folds what it saw into    *)
(* its dictionaries.  Samples, records of outages and acknowledgements are *)
(* rows that only pages read back, and are no state here.                  *)
(*                                                                         *)
(* Definitions ending in _X are slips, see POApproval.tla.                 *)
(***************************************************************************)
EXTENDS Integers, FiniteSets, FiniteSetsExt, Functions

CONSTANTS
  Device,              \* device ids, handed out in order, never again
  Target,              \* addresses
  Tab, HighSites,      \* tabs; those in High Sites mode
  Group, TabOf,        \* site groups and their tabs
  Deployment,          \* the devices there may be at the start
  None,
  Replies,             \* levels of a reply to a ping: ok, or warn if it is slow
  DownAfter,           \* DOWN_AFTER_CONSECUTIVE_FAILS
  Sampler, Page,       \* threads: the sampling loop, and status pages and acks
  MaxFaults, MaxEdits  \* bounds: database errors, and what users change

ASSUME ConstantsAssumption ==
  /\ Device \subseteq Nat /\ HighSites \subseteq Tab /\ Tab # {} /\ Device \cap Group = {}
  /\ TabOf \in [Group -> HighSites]
  /\ Replies \subseteq {"ok", "warn"} /\ DownAfter \in Nat \ {0}
  /\ {MaxFaults, MaxEdits} \subseteq Nat
  /\ None \notin Device \cup Target \cup Tab \cup Group
  /\ None \notin {"ok", "warn", "down"}

VARIABLES
  reach,               \* the targets that answer a ping
  tabs, groups, dev,   \* rows of the monitoring tables
  used,                \* device ids handed out
  prev, streak, stable,  \* _PREV_LEVELS, _DOWN_STREAK, _STABLE_OK_WARN
  since,               \* the devices that have an entry in _DOWN_SINCE
  alarm,               \* _HS_GROUP_ALARM
  told,                \* history: the latest push event of each device and group
  import,              \* an import of several lines under way
  thread,              \* what each thread holds
  faults, edits

cfgvars  == <<tabs, groups, dev, used, import>>
dictvars == <<prev, streak, stable, since, alarm, told>>
netvars  == <<reach, faults>>
envvars  == <<netvars, edits>>
vars == <<cfgvars, dictvars, thread, envvars>>

Threads == Sampler \cup Page
Idle    == [step |-> "idle"]
Live    == {d \in Device : dev[d] # None}

\* Devices of a tab in High Sites mode are in one of its groups.
DeviceRow == {r \in [tab : Tab, group : Group \cup {None}, target : Target] :
                IF r.tab \in HighSites THEN r.group \in Group /\ TabOf[r.group] = r.tab
                ELSE r.group = None}

\* A process that starts: the tables are as they were left.
Init ==
  /\ reach \in SUBSET Target
  /\ tabs = Tab /\ groups = Group
  /\ dev \in Deployment \cap [Device -> DeviceRow \cup {None}]
  /\ \A d, e \in Live : d < e => dev[d].tab # dev[e].tab \/ dev[d].target # dev[e].target
  /\ used = {d \in Device : \E e \in Live : d <= e}
  /\ prev = [d \in Device |-> None] /\ stable = [d \in Device |-> None]
  /\ streak = [d \in Device |-> 0] /\ since = {}
  /\ alarm = [g \in Group |-> FALSE] /\ told = [x \in Device \cup Group |-> "none"]
  /\ import = None
  /\ thread = [w \in Threads |-> Idle]
  /\ faults = 0 /\ edits = 0

-----------------------------------------------------------------------------
(* Tabs, groups and devices. *)

AddTab(t) ==
  /\ t \notin tabs /\ tabs' = tabs \cup {t}
  /\ UNCHANGED <<groups, dev, used, import, dictvars, thread, netvars>>

\* Devices are only detached from their group.
DeleteTab_X(t) ==
  /\ t \in tabs /\ tabs # {t}
  /\ tabs' = tabs \ {t}
  /\ groups' = {g \in groups : TabOf[g] # t}
  /\ UNCHANGED <<dev, used, import, dictvars, thread, netvars>>

\* At least one tab stays.
DeleteTab(t) ==
  /\ t \in tabs /\ tabs # {t}
  /\ tabs' = tabs \ {t}
  /\ groups' = {g \in groups : TabOf[g] # t}
  /\ dev' = [d \in Device |-> IF d \in Live /\ dev[d].tab = t THEN None ELSE dev[d]]
  /\ UNCHANGED <<used, import, dictvars, thread, netvars>>

AddSiteGroup(g) ==
  /\ TabOf[g] \in tabs /\ groups' = groups \cup {g}
  /\ UNCHANGED <<tabs, dev, used, dictvars, thread, netvars>>

DeleteSiteGroup(g) ==
  /\ g \in groups /\ groups' = groups \ {g}
  /\ dev' = [d \in Device |-> IF d \in Live /\ dev[d].group = g THEN None ELSE dev[d]]
  /\ UNCHANGED <<tabs, used, import, dictvars, thread, netvars>>

\* A target that the tab has already keeps its row, and moves to group g.
AddDevice(t, a, g) ==
  LET same == {d \in Live : dev[d].tab = t /\ dev[d].target = a}
  IN /\ t \in tabs
     /\ IF t \in HighSites THEN g \in groups /\ TabOf[g] = t ELSE g = None
     /\ \/ \E d \in same : dev' = [dev EXCEPT ![d].group = g] /\ UNCHANGED used
        \/ \E d \in Device \ used :
             /\ same = {} /\ \A e \in Device \ used : d <= e
             /\ used' = used \cup {d}
             /\ dev' = [dev EXCEPT ![d] = [tab |-> t, group |-> g, target |-> a]]
     /\ UNCHANGED <<tabs, groups, dictvars, thread, netvars>>

DeleteDevice(d) ==
  /\ d \in Live /\ dev' = [dev EXCEPT ![d] = None]
  /\ UNCHANGED <<tabs, groups, used, import, dictvars, thread, netvars>>

\* An import commits line by line; a header names the group of the lines
\* that follow, and a line that is refused is skipped.
BeginImport(t) ==
  /\ import = None /\ t \in tabs /\ edits < MaxEdits
  /\ import' = [tab |-> t, group |-> None]
  /\ UNCHANGED <<tabs, groups, dev, used, dictvars, thread, envvars>>

ImportLine ==
  /\ import # None
  /\ \/ \E g \in Group : /\ TabOf[g] = import.tab /\ AddSiteGroup(g)
                         /\ import' = [import EXCEPT !.group = g]
     \/ \E a \in Target : AddDevice(import.tab, a, import.group) /\ UNCHANGED import

EndImport ==
  /\ import # None /\ import' = None
  /\ UNCHANGED <<tabs, groups, dev, used, dictvars, thread, envvars>>

-----------------------------------------------------------------------------
(* A snapshot: list and ping, then fold under the lock. *)

\* What a ping that ends now says.
Pings(a) == IF a \in reach THEN Replies ELSE {"down"}

\* The empty list clears the dictionaries, and the thread is done.
Forget ==
  /\ prev' = [d \in Device |-> None] /\ stable' = [d \in Device |-> None]
  /\ streak' = [d \in Device |-> 0] /\ since' = {}
  /\ alarm' = [g \in Group |-> FALSE] /\ UNCHANGED told

\* ack: the thread is there to acknowledge an outage.
Ping(w, ack) ==
  /\ thread[w] = Idle
  /\ \/ /\ Live = {} /\ Forget /\ UNCHANGED thread
     \/ /\ Live # {} /\ UNCHANGED dictvars
        /\ \E res \in [Live -> Replies \cup {"down"}] :
             /\ \A d \in Live : res[d] \in Pings(dev[d].target)
             /\ thread' = [thread EXCEPT ![w] =
                  [step |-> "fold", ack |-> ack, res |-> res,
                   group |-> [d \in Live |-> dev[d].group]]]
  /\ UNCHANGED <<cfgvars, netvars>>

\* The streak starts again while there is a good level to hold on to.
Streak_X(d, res) == IF res # "down" THEN 0 ELSE IF stable[d] # None THEN 1
                    ELSE IF streak[d] < DownAfter THEN streak[d] + 1 ELSE DownAfter

\* _DOWN_STREAK; only whether it reached DownAfter is ever asked.
Streak(d, res) == IF res # "down" THEN 0
                  ELSE IF streak[d] < DownAfter THEN streak[d] + 1 ELSE DownAfter

\* One failing ping is enough while there is no good level to hold on to.
Level_X(d, res) ==
  IF res # "down" THEN res
  ELSE IF Streak(d, res) >= DownAfter \/ stable[d] = None THEN "down" ELSE stable[d]

\* _apply_down_hysteresis: a device that fails keeps its last good level
\* until it has failed DownAfter times in a row.
Level(d, res) ==
  IF res # "down" THEN res
  ELSE IF Streak(d, res) >= DownAfter THEN "down"
  ELSE IF stable[d] = None THEN "warn" ELSE stable[d]

\* The start of an outage is not taken away.
Since_X(d, level) == d \in since \/ level = "down"

Since(d, level) == level = "down" /\ (prev[d] # "down" \/ d \in since)

Recovers(t, d) == prev[d] = "down" /\ Level(d, t.res[d]) # "down"

\* Push events of single devices: those that are in no group and were seen before.
Tells(t, d) == /\ d \in DOMAIN t.res /\ t.group[d] = None /\ prev[d] # None
               /\ (prev[d] = "down") # (Level(d, t.res[d]) = "down")

Members(t, g) == {d \in DOMAIN t.res : t.group[d] = g}

\* The alarm is only ever raised.
GroupDown_X(t, g) == alarm[g] \/ \E d \in Members(t, g) : Level(d, t.res[d]) = "down"

\* A group that has no device in the list is not looked at.
GroupDown(t, g) == IF Members(t, g) = {} THEN alarm[g]
                   ELSE \E d \in Members(t, g) : Level(d, t.res[d]) = "down"

\* The events of a fold: down and up, hs_down and hs_up; an acknowledgement drops them.
Event(t, wasDown) == IF t.ack THEN "dropped" ELSE IF wasDown THEN "up" ELSE "down"
Told(t) ==
  [x \in Device \cup Group |->
     IF x \in Device THEN IF Tells(t, x) THEN Event(t, prev[x] = "down") ELSE told[x]
     ELSE IF GroupDown(t, x) = alarm[x] THEN told[x] ELSE Event(t, alarm[x])]

\* The rest of the dictionaries forgets devices that are not in the list.
Fold(w) ==
  LET t == thread[w]
      S == DOMAIN t.res
  IN /\ t.step = "fold"
     /\ prev'   = [d \in Device |-> IF d \in S THEN Level(d, t.res[d]) ELSE None]
     /\ streak' = [d \in Device |-> IF d \in S THEN Streak(d, t.res[d]) ELSE 0]
     /\ stable' = [d \in Device |-> IF d \notin S THEN None
                                    ELSE IF t.res[d] # "down" THEN t.res[d] ELSE stable[d]]
     /\ since'  = {d \in S : Since(d, Level(d, t.res[d]))}
     /\ alarm'  = [g \in Group |-> GroupDown(t, g)]
     /\ told'   = Told(t)
     /\ thread' = [thread EXCEPT ![w] = Idle]
     /\ UNCHANGED <<cfgvars, envvars>>

\* The insert of the outage of device d fails inside the loop: devices before
\* d are folded, d itself has a new streak and its old level, the later ones,
\* the groups and all events are lost.
FoldFails(w, d) ==
  LET t == thread[w]
      S == {e \in DOMAIN t.res : e < d}
  IN /\ t.step = "fold" /\ d \in DOMAIN t.res /\ Recovers(t, d) /\ faults < MaxFaults
     /\ faults' = faults + 1
     /\ prev'   = [e \in Device |-> IF e \in S THEN Level(e, t.res[e]) ELSE prev[e]]
     /\ streak' = [e \in Device |-> IF e \in S \cup {d} THEN Streak(e, t.res[e]) ELSE streak[e]]
     /\ stable' = [e \in Device |-> IF e \in S \cup {d} /\ t.res[e] # "down"
                                    THEN t.res[e] ELSE stable[e]]
     /\ since'  = (since \ S) \cup {e \in S : Since(e, Level(e, t.res[e]))}
     /\ thread' = [thread EXCEPT ![w] = Idle]
     /\ UNCHANGED <<cfgvars, alarm, told, reach, edits>>

-----------------------------------------------------------------------------
\* The network.
Flap(a) == /\ reach' = (reach \ {a}) \cup ({a} \ reach)
           /\ UNCHANGED <<cfgvars, dictvars, thread, faults, edits>>
Configure ==
  \/ \E t \in Tab : AddTab(t) \/ DeleteTab(t)
  \/ \E g \in Group : (AddSiteGroup(g) /\ UNCHANGED import) \/ DeleteSiteGroup(g)
  \/ \E t \in Tab, a \in Target, g \in Group \cup {None} : AddDevice(t, a, g) /\ UNCHANGED import
  \/ \E d \in Device : DeleteDevice(d)
  \/ ImportLine

\* record_sample_cycle; its events go to a push thread after it has written samples.
Sample(w)  == Ping(w, FALSE) /\ UNCHANGED edits
View(w)    == Ping(w, FALSE) /\ UNCHANGED edits
Ack(w)     == Ping(w, TRUE)

Next ==
  \/ (Configure \/ \E w \in Page : Ack(w)) /\ edits < MaxEdits /\ edits' = edits + 1
  \/ EndImport \/ \E t \in Tab : BeginImport(t)
  \/ \E w \in Sampler : Sample(w)
  \/ \E w \in Page : View(w)
  \/ \E w \in Threads : Fold(w) \/ \E d \in Device : FoldFails(w, d)
  \/ \E a \in Target : Flap(a)

Spec == Init /\ [][Next]_vars

\* The sampling loop runs for ever and swallows errors; threads that were
\* started run to their end.  Nothing is assumed of users.
FairSpec == /\ Spec
            /\ \A w \in Sampler : WF_vars(Sample(w))
            /\ \A w \in Threads : WF_vars(Fold(w))

-----------------------------------------------------------------------------
\* Type invariant.
LevelName == {"ok", "warn", "down"}
Listing == UNION {[step : {"fold"}, ack : BOOLEAN, res : [S -> LevelName],
                   group : [S -> Group \cup {None}]] : S \in SUBSET Device}
TypeOK ==
  /\ reach \subseteq Target /\ tabs \subseteq Tab /\ tabs # {} /\ groups \subseteq Group
  /\ used \subseteq Device /\ Live \subseteq used
  /\ dev \in [Device -> DeviceRow \cup {None}] /\ \A d \in Live : dev[d].tab \in tabs
  /\ prev \in [Device -> LevelName \cup {None}] /\ stable \in [Device -> {"ok", "warn", None}]
  /\ streak \in [Device -> 0..DownAfter] /\ since \subseteq Device
  /\ alarm \in [Group -> BOOLEAN]
  /\ told \in [Device \cup Group -> {"none", "down", "up", "dropped"}]
  /\ import \in [tab : Tab, group : Group \cup {None}] \cup {None}
  /\ thread \in [Threads -> Listing \cup {Idle}] /\ faults \in 0..MaxFaults

\* The dictionaries are written one by one and survive threads that listed
\* other devices and folds that failed half-way.  They still agree: an outage
\* has a start as long as it lasts, for its record and its acknowledgement; a device
\* that failed often enough is down, and one that was not seen has no history.
DictionariesAgree ==
  \A d \in Device :
    /\ prev[d] = "down" <=> d \in since
    /\ streak[d] = DownAfter => prev[d] = "down"
    /\ prev[d] = None => streak[d] = 0 /\ stable[d] = None
    /\ prev[d] \in {"ok", "warn"} /\ streak[d] = 0 => stable[d] = prev[d]

\* As long as the database answers, whatever is down was announced: a device
\* on its own, and a site whose alarm is on, by a push event that no recovery
\* has taken back; unless an acknowledgement was the first to see it.  Where one failure
\* is enough (DownAfter = 1) a device may be down when it is first seen, and then nothing is said.
AlarmsWereRaised ==
  faults = 0 =>
    /\ DownAfter > 1 => \A d \in Live : dev[d].group = None /\ prev[d] = "down"
                                         => told[d] \in {"down", "dropped"}
    /\ \A g \in Group : alarm[g] => told[g] \in {"down", "dropped"}

\* Ids are never handed out again, and a device does not change between being on
\* its own and being in a site: what a thread listed is still true, in so far as its
\* devices are still there, and no device has a past from before its id was handed out.
StillTrue(t) ==
  t.step = "fold" =>
    \A d \in DOMAIN t.res : d \in used /\ (d \in Live => (t.group[d] = None <=> dev[d].group = None))
Known == /\ \A d \in Device : prev[d] # None => d \in used
         /\ \A w \in Threads : StillTrue(thread[w])

\* The inductive invariant.
IInv == TypeOK /\ DictionariesAgree /\ AlarmsWereRaised /\ Known

\* A device that stays and answers no more is reported down in the end, and one
\* that answers again is not reported down for ever, whatever else is added,
\* deleted or looked at meanwhile.
NoticedInTheEnd ==
  \A d \in Device :
    /\ <>[](d \in Live /\ dev[d].target \notin reach) => <>[](prev[d] = "down")
    /\ <>[](d \in Live /\ dev[d].target \in reach) => <>[](prev[d] # "down")

\* The alarm of a site is on in the end if one of its devices stays out, and off if
\* all answer.  (Devices that take turns to be out may keep it off, or have it change.)
GroupAlarmSettles ==
  \A g \in Group :
    /\ \A d \in Device : <>[](d \in Live /\ dev[d].group = g /\ dev[d].target \notin reach)
                           => <>[]alarm[g]
    /\ <>[](/\ \E d \in Live : dev[d].group = g
            /\ \A d \in Live : dev[d].group = g => dev[d].target \in reach) => <>[](~alarm[g])
=============================================================================
