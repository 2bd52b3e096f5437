-------------------------- MODULE Monitoring_proofs ---------------------------
(* Proofs about monitoring: type correctness, the agreement of the            *)
(* dictionaries that many threads write, and the alarms that were raised.     *)
EXTENDS Monitoring, TLAPS

-----------------------------------------------------------------------------
(* What a change of the configuration may do to the devices.                  *)

\* The part of the type invariant that is about the tables and the import.
TablesOK ==
  /\ tabs \subseteq Tab /\ tabs # {} /\ groups \subseteq Group
  /\ used \subseteq Device /\ Live \subseteq used
  /\ dev \in [Device -> DeviceRow \cup {None}] /\ \A d \in Live : dev[d].tab \in tabs
  /\ import \in [tab : Tab, group : Group \cup {None}] \cup {None}

\* Ids are handed out once; a device that stays is in a site if it was.
Moves ==
  /\ used \subseteq used'
  /\ \A d \in Live' : d \notin used \/ (d \in Live /\ (dev'[d].group = None <=> dev[d].group = None))

LEMMA TypeTables == TypeOK => TablesOK
BY DEF TypeOK, TablesOK

\* A device that is there has a row of its tab.
LEMMA RowIs ==
  ASSUME TablesOK, NEW d \in Live
  PROVE  /\ d \in Device /\ dev[d] \in DeviceRow /\ dev[d].tab \in Tab
         /\ dev[d].group \in Group \cup {None} /\ dev[d].target \in Target
         /\ dev[d].group = None <=> dev[d].tab \notin HighSites
<1>1. d \in Device /\ dev[d] \in DeviceRow
  BY DEF TablesOK, Live
<1>2. None \notin Group
  BY ConstantsAssumption
<1> QED
  BY <1>1, <1>2 DEF DeviceRow

\* Rows that are only taken away.
LEMMA Fewer ==
  ASSUME TablesOK, NEW S \in SUBSET Device,
         dev' = [d \in Device |-> IF d \in S THEN None ELSE dev[d]],
         used' = used, tabs' \subseteq tabs, tabs' # {}, groups' \subseteq groups, import' = import,
         \A d \in Live : d \notin S => dev[d].tab \in tabs'
  PROVE  TablesOK' /\ Moves
<1>1. Live' = Live \ S /\ \A d \in Live' : dev'[d] = dev[d]
  BY DEF Live, TablesOK
<1>2. dev' \in [Device -> DeviceRow \cup {None}]
  BY DEF TablesOK
<1> QED
  BY <1>1, <1>2 DEF TablesOK, Moves

LEMMA AddTabTables ==
  ASSUME TablesOK, NEW t \in Tab, AddTab(t)
  PROVE  TablesOK' /\ Moves
<1>1. Live' = Live
  BY DEF AddTab, Live
<1> QED
  BY <1>1 DEF AddTab, TablesOK, Moves

LEMMA AddGroupTables ==
  ASSUME TablesOK, NEW g \in Group, AddSiteGroup(g),
         import' \in [tab : Tab, group : Group \cup {None}] \cup {None}
  PROVE  TablesOK' /\ Moves
<1>1. Live' = Live
  BY DEF AddSiteGroup, Live
<1> QED
  BY <1>1 DEF AddSiteGroup, TablesOK, Moves

LEMMA DeleteTabTables ==
  ASSUME TablesOK, NEW t \in Tab, DeleteTab(t)
  PROVE  TablesOK' /\ Moves
<1> DEFINE S == {d \in Live : dev[d].tab = t}
<1>1. /\ S \in SUBSET Device
      /\ dev' = [d \in Device |-> IF d \in S THEN None ELSE dev[d]]
  BY DEF DeleteTab, Live
<1>2. /\ used' = used /\ tabs' \subseteq tabs /\ tabs' # {} /\ groups' \subseteq groups /\ import' = import
      /\ \A d \in Live : d \notin S => dev[d].tab \in tabs'
  BY DEF DeleteTab, TablesOK
<1> QED
  BY <1>1, <1>2, Fewer

LEMMA DeleteGroupTables ==
  ASSUME TablesOK, NEW g \in Group, DeleteSiteGroup(g), import' = import
  PROVE  TablesOK' /\ Moves
<1> DEFINE S == {d \in Live : dev[d].group = g}
<1>1. /\ S \in SUBSET Device
      /\ dev' = [d \in Device |-> IF d \in S THEN None ELSE dev[d]]
  BY DEF DeleteSiteGroup, Live
<1>2. /\ used' = used /\ tabs' \subseteq tabs /\ tabs' # {} /\ groups' \subseteq groups
      /\ \A d \in Live : d \notin S => dev[d].tab \in tabs'
  BY DEF DeleteSiteGroup, TablesOK
<1> QED
  BY <1>1, <1>2, Fewer

LEMMA DeleteDeviceTables ==
  ASSUME TablesOK, NEW d \in Device, DeleteDevice(d)
  PROVE  TablesOK' /\ Moves
<1>1. dev' = [e \in Device |-> IF e \in {d} THEN None ELSE dev[e]]
  BY DEF DeleteDevice, TablesOK
<1>2. /\ used' = used /\ tabs' \subseteq tabs /\ tabs' # {} /\ groups' \subseteq groups /\ import' = import
      /\ \A e \in Live : e \notin {d} => dev[e].tab \in tabs'
  BY DEF DeleteDevice, TablesOK
<1> QED
  BY <1>1, <1>2, Fewer

LEMMA AddDeviceTables ==
  ASSUME TablesOK, NEW t \in Tab, NEW a \in Target, NEW g \in Group \cup {None},
         AddDevice(t, a, g), import' = import
  PROVE  TablesOK' /\ Moves
<1> DEFINE same == {d \in Live : dev[d].tab = t /\ dev[d].target = a}
<1>1. /\ t \in tabs /\ tabs' = tabs /\ groups' = groups
      /\ IF t \in HighSites THEN g \in groups /\ TabOf[g] = t ELSE g = None
  BY DEF AddDevice
<1>2. [tab |-> t, group |-> g, target |-> a] \in DeviceRow
  BY <1>1 DEF DeviceRow, TablesOK
<1>3. None \notin Group
  BY ConstantsAssumption
<1>4. CASE \E d \in same : dev' = [dev EXCEPT ![d].group = g] /\ UNCHANGED used
  <2>1. PICK d \in same : dev' = [dev EXCEPT ![d].group = g] /\ used' = used
    BY <1>4
  <2>2. /\ d \in Live /\ d \in Device /\ dev[d] \in DeviceRow /\ dev[d].tab = t /\ dev[d].target = a
        /\ dev[d].group = None <=> t \notin HighSites
    BY <2>1, RowIs
  <2>3. dev'[d] = [tab |-> t, group |-> g, target |-> a]
    BY <2>1, <2>2 DEF TablesOK, DeviceRow
  <2>4. dev' \in [Device -> DeviceRow \cup {None}] /\ \A e \in Device : e # d => dev'[e] = dev[e]
    <3>1. dev' = [dev EXCEPT ![d] = [tab |-> t, group |-> g, target |-> a]]
      BY <2>1, <2>2, <2>3 DEF TablesOK
    <3> QED
      BY <3>1, <1>2, <2>2 DEF TablesOK
  <2>5. Live' \subseteq Live
    BY <2>2, <2>4 DEF Live
  <2>6. dev'[d].group = None <=> dev[d].group = None
    BY <1>1, <1>3, <2>2, <2>3 DEF TablesOK
  <2>7. \A e \in Live' : dev'[e].tab \in tabs'
    BY <1>1, <2>3, <2>4, <2>5 DEF TablesOK, Live
  <2>8. \A e \in Live' : e \in Live /\ (dev'[e].group = None <=> dev[e].group = None)
    BY <2>4, <2>5, <2>6 DEF Live
  <2> QED
    BY <1>1, <2>1, <2>4, <2>5, <2>7, <2>8 DEF TablesOK, Moves
<1>5. CASE \E d \in Device \ used : /\ used' = used \cup {d}
                                    /\ dev' = [dev EXCEPT ![d] = [tab |-> t, group |-> g, target |-> a]]
  <2>1. PICK d \in Device \ used : /\ used' = used \cup {d}
                                   /\ dev' = [dev EXCEPT ![d] = [tab |-> t, group |-> g, target |-> a]]
    BY <1>5
  <2>2. dev' \in [Device -> DeviceRow \cup {None}] /\ \A e \in Device : e # d => dev'[e] = dev[e]
    BY <2>1, <1>2 DEF TablesOK
  <2>3. dev'[d].tab = t
    BY <2>1 DEF TablesOK
  <2>4. Live' \subseteq Live \cup {d}
    BY <2>2 DEF Live
  <2>5. \A e \in Live' : dev'[e].tab \in tabs'
    BY <1>1, <2>2, <2>3, <2>4 DEF TablesOK, Live
  <2>6. \A e \in Live' : e \notin used \/ (e \in Live /\ dev'[e] = dev[e])
    BY <2>1, <2>2, <2>4 DEF Live
  <2> QED
    BY <1>1, <2>1, <2>2, <2>4, <2>5, <2>6 DEF TablesOK, Moves
<1> QED
  BY <1>4, <1>5 DEF AddDevice

\* Every change of the configuration, an import and its lines included.
LEMMA ConfigTables ==
  ASSUME TablesOK, Configure \/ EndImport \/ \E t \in Tab : BeginImport(t)
  PROVE  TablesOK' /\ Moves /\ UNCHANGED <<dictvars, thread, reach, faults>>
<1>1. CASE \E t \in Tab : AddTab(t) \/ DeleteTab(t)
  BY <1>1, AddTabTables, DeleteTabTables DEF AddTab, DeleteTab, netvars
<1>2. CASE \E g \in Group : (AddSiteGroup(g) /\ UNCHANGED import) \/ DeleteSiteGroup(g)
  BY <1>2, AddGroupTables, DeleteGroupTables DEF AddSiteGroup, DeleteSiteGroup, netvars, TablesOK
<1>3. CASE \E t \in Tab, a \in Target, g \in Group \cup {None} : AddDevice(t, a, g) /\ UNCHANGED import
  BY <1>3, AddDeviceTables DEF AddDevice, netvars
<1>4. CASE \E d \in Device : DeleteDevice(d)
  BY <1>4, DeleteDeviceTables DEF DeleteDevice, netvars
<1>5. CASE ImportLine
  <2>1. import \in [tab : Tab, group : Group \cup {None}]
    BY <1>5 DEF ImportLine, TablesOK
  <2>2. CASE \E g \in Group : /\ TabOf[g] = import.tab /\ AddSiteGroup(g)
                              /\ import' = [import EXCEPT !.group = g]
    <3>1. PICK g \in Group : AddSiteGroup(g) /\ import' = [import EXCEPT !.group = g]
      BY <2>2
    <3>2. import' \in [tab : Tab, group : Group \cup {None}]
      BY <2>1, <3>1
    <3> QED
      BY <3>1, <3>2, AddGroupTables DEF AddSiteGroup, netvars
  <2>3. CASE \E a \in Target : AddDevice(import.tab, a, import.group) /\ UNCHANGED import
    <3>1. import.tab \in Tab /\ import.group \in Group \cup {None}
      BY <2>1
    <3>2. PICK a \in Target : AddDevice(import.tab, a, import.group) /\ import' = import
      BY <2>3
    <3> QED
      BY <3>1, <3>2, AddDeviceTables DEF AddDevice, netvars
  <2> QED
    BY <1>5, <2>2, <2>3 DEF ImportLine
<1>6. CASE EndImport
  <2>1. Live' = Live
    BY <1>6 DEF EndImport, Live
  <2> QED
    BY <1>6, <2>1 DEF EndImport, TablesOK, Moves, envvars, netvars
<1>7. CASE \E t \in Tab : BeginImport(t)
  <2>1. PICK t \in Tab : BeginImport(t)
    BY <1>7
  <2>2. Live' = Live
    BY <2>1 DEF BeginImport, Live
  <2> QED
    BY <2>1, <2>2 DEF BeginImport, TablesOK, Moves, envvars, netvars
<1> QED
  BY <1>1, <1>2, <1>3, <1>4, <1>5, <1>6, <1>7 DEF Configure

-----------------------------------------------------------------------------
(* What a snapshot may do.                                                    *)

\* A thread that is not idle holds what it listed.
LEMMA ListingIs ==
  ASSUME NEW t \in Listing
  PROVE  /\ t.step = "fold" /\ t.ack \in BOOLEAN /\ DOMAIN t.res \in SUBSET Device
         /\ t.res \in [DOMAIN t.res -> LevelName]
         /\ t.group \in [DOMAIN t.res -> Group \cup {None}]
<1>1. PICK S \in SUBSET Device :
        t \in [step : {"fold"}, ack : BOOLEAN, res : [S -> LevelName], group : [S -> Group \cup {None}]]
  BY DEF Listing
<1>2. DOMAIN t.res = S
  BY <1>1
<1> QED
  BY <1>1, <1>2

LEMMA Folding ==
  ASSUME TypeOK, NEW w \in Threads, thread[w].step = "fold"
  PROVE  /\ thread[w] \in Listing /\ thread[w].ack \in BOOLEAN
         /\ DOMAIN thread[w].res \in SUBSET Device
         /\ thread[w].res \in [DOMAIN thread[w].res -> LevelName]
         /\ thread[w].group \in [DOMAIN thread[w].res -> Group \cup {None}]
<1>1. thread[w] \in Listing
  BY DEF TypeOK, Idle
<1> QED
  BY <1>1, ListingIs

\* The level and the streak of a device after a ping.
LEMMA LevelIs ==
  ASSUME NEW d \in Device, NEW r \in LevelName, stable[d] \in {"ok", "warn", None},
         streak[d] \in 0..DownAfter
  PROVE  /\ Streak(d, r) \in 0..DownAfter /\ Level(d, r) \in LevelName
         /\ r # "down" => Streak(d, r) = 0 /\ Level(d, r) = r
         /\ r = "down" => /\ Streak(d, r) > 0
                          /\ Level(d, r) = "down" <=> Streak(d, r) = DownAfter
<1>1. DownAfter \in Nat \ {0}
  BY ConstantsAssumption
<1>2. /\ Streak(d, r) \in 0..DownAfter /\ (r # "down" => Streak(d, r) = 0)
      /\ (r = "down" => Streak(d, r) > 0)
  BY <1>1 DEF Streak
<1>3. r # "down" => Level(d, r) = r
  BY DEF Level
<1>4. ASSUME r = "down"
      PROVE  Level(d, r) \in LevelName /\ (Level(d, r) = "down" <=> Streak(d, r) = DownAfter)
  <2>1. CASE Streak(d, r) = DownAfter
    BY <1>1, <1>4, <2>1 DEF Level, LevelName
  <2>2. CASE Streak(d, r) # DownAfter
    <3>1. ~(Streak(d, r) >= DownAfter)
      BY <1>1, <1>2, <2>2
    <3>2. Level(d, r) = IF stable[d] = None THEN "warn" ELSE stable[d]
      BY <1>4, <3>1 DEF Level
    <3> QED
      BY <2>2, <3>2 DEF LevelName
  <2> QED
    BY <2>1, <2>2
<1> QED
  BY <1>2, <1>3, <1>4

\* The dictionaries that are empty.
LEMMA ForgetTypes ==
  ASSUME TypeOK, Forget
  PROVE  /\ prev' \in [Device -> LevelName \cup {None}] /\ stable' \in [Device -> {"ok", "warn", None}]
         /\ streak' \in [Device -> 0..DownAfter] /\ since' \subseteq Device
         /\ alarm' \in [Group -> BOOLEAN] /\ told' = told
BY ConstantsAssumption DEF TypeOK, Forget

\* The tables stay what they are in every step of a thread.
LEMMA TablesStay ==
  ASSUME TypeOK, cfgvars' = cfgvars
  PROVE  TablesOK'
<1>1. TablesOK /\ Live' = Live
  BY TypeTables DEF cfgvars, Live
<1> QED
  BY <1>1 DEF TablesOK, cfgvars

LEMMA TypeParts ==
  ASSUME TablesOK', reach' \subseteq Target, faults' \in 0..MaxFaults,
         prev' \in [Device -> LevelName \cup {None}], stable' \in [Device -> {"ok", "warn", None}],
         streak' \in [Device -> 0..DownAfter], since' \subseteq Device,
         alarm' \in [Group -> BOOLEAN],
         told' \in [Device \cup Group -> {"none", "down", "up", "dropped"}],
         thread' \in [Threads -> Listing \cup {Idle}]
  PROVE  TypeOK'
BY DEF TypeOK, TablesOK

LEMMA PingTypes ==
  ASSUME TypeOK, NEW w \in Threads, NEW ack \in BOOLEAN, Ping(w, ack)
  PROVE  TypeOK'
<1>0. TablesOK /\ TablesOK' /\ reach' = reach /\ faults' \in 0..MaxFaults
  BY TypeTables, TablesStay DEF Ping, netvars, TypeOK
<1>1. CASE Live = {} /\ Forget /\ UNCHANGED thread
  <2>1. told' \in [Device \cup Group -> {"none", "down", "up", "dropped"}] /\ reach' \subseteq Target
    BY <1>0, <1>1, ForgetTypes DEF TypeOK
  <2>2. thread' \in [Threads -> Listing \cup {Idle}]
    BY <1>1 DEF TypeOK
  <2> QED
    BY <1>0, <1>1, <2>1, <2>2, ForgetTypes, TypeParts
<1>2. CASE Live # {} /\ UNCHANGED dictvars /\ ~UNCHANGED thread
  <2>1. PICK res \in [Live -> Replies \cup {"down"}] :
          thread' = [thread EXCEPT ![w] = [step |-> "fold", ack |-> ack, res |-> res,
                                           group |-> [d \in Live |-> dev[d].group]]]
    BY <1>2 DEF Ping
  <2>2. Replies \cup {"down"} \subseteq LevelName
    BY ConstantsAssumption DEF LevelName
  <2>3. res \in [Live -> LevelName] /\ Live \in SUBSET Device
    BY <2>1, <2>2 DEF Live
  <2>4. [d \in Live |-> dev[d].group] \in [Live -> Group \cup {None}]
    BY <1>0, RowIs
  <2>5. [step |-> "fold", ack |-> ack, res |-> res, group |-> [d \in Live |-> dev[d].group]] \in Listing
    BY <2>3, <2>4 DEF Listing
  <2>6. thread' \in [Threads -> Listing \cup {Idle}]
    BY <2>1, <2>5 DEF TypeOK
  <2> QED
    BY <1>0, <1>2, <2>6, TypeParts DEF TypeOK, dictvars
<1>3. CASE Live # {} /\ UNCHANGED dictvars /\ UNCHANGED thread
  BY <1>0, <1>3, TypeParts DEF TypeOK, dictvars
<1> QED
  BY <1>1, <1>2, <1>3 DEF Ping

LEMMA ToldIs ==
  ASSUME TypeOK, NEW t
  PROVE  Told(t) \in [Device \cup Group -> {"none", "down", "up", "dropped"}]
<1>1. \A b : Event(t, b) \in {"none", "down", "up", "dropped"}
  BY DEF Event
<1> QED
  BY <1>1 DEF Told, TypeOK

LEMMA FoldTypes ==
  ASSUME TypeOK, NEW w \in Threads, Fold(w)
  PROVE  TypeOK'
<1> DEFINE t == thread[w]
           S == DOMAIN t.res
<1>1. /\ TablesOK' /\ reach' = reach /\ faults' \in 0..MaxFaults
  BY TablesStay DEF Fold, envvars, netvars, TypeOK
<1>2. /\ S \in SUBSET Device /\ t.res \in [S -> LevelName]
      /\ t.group \in [S -> Group \cup {None}]
  BY Folding DEF Fold
<1>3. \A d \in S : Level(d, t.res[d]) \in LevelName /\ Streak(d, t.res[d]) \in 0..DownAfter
  BY <1>2, LevelIs DEF TypeOK
<1>4. 0 \in 0..DownAfter
  BY ConstantsAssumption
<1>5. prev' \in [Device -> LevelName \cup {None}] /\ streak' \in [Device -> 0..DownAfter]
  BY <1>3, <1>4 DEF Fold
<1>6. stable' \in [Device -> {"ok", "warn", None}]
  BY <1>2 DEF Fold, TypeOK, LevelName
<1>7. since' \subseteq Device /\ thread' \in [Threads -> Listing \cup {Idle}]
  BY <1>2 DEF Fold, TypeOK
<1>8. alarm' \in [Group -> BOOLEAN]
  BY DEF Fold, TypeOK, GroupDown
<1>9. told' \in [Device \cup Group -> {"none", "down", "up", "dropped"}]
  BY ToldIs DEF Fold
<1> QED
  BY <1>1, <1>5, <1>6, <1>7, <1>8, <1>9, TypeParts DEF TypeOK

LEMMA FoldFailsTypes ==
  ASSUME TypeOK, NEW w \in Threads, NEW d \in Device, FoldFails(w, d)
  PROVE  TypeOK'
<1> DEFINE t == thread[w]
           S == {e \in DOMAIN t.res : e < d}
<1>1. /\ TablesOK' /\ reach' = reach /\ alarm' = alarm /\ told' = told
      /\ faults' \in 0..MaxFaults
  BY TablesStay, ConstantsAssumption DEF FoldFails, TypeOK
<1>2. /\ DOMAIN t.res \in SUBSET Device /\ t.res \in [DOMAIN t.res -> LevelName]
      /\ d \in DOMAIN t.res
  BY Folding DEF FoldFails
<1>3. \A e \in S \cup {d} : Level(e, t.res[e]) \in LevelName /\ Streak(e, t.res[e]) \in 0..DownAfter
  BY <1>2, LevelIs DEF TypeOK
<1>5. prev' \in [Device -> LevelName \cup {None}] /\ streak' \in [Device -> 0..DownAfter]
  BY <1>3 DEF FoldFails, TypeOK
<1>6. stable' \in [Device -> {"ok", "warn", None}]
  BY <1>2 DEF FoldFails, TypeOK, LevelName
<1>7. since' \subseteq Device /\ thread' \in [Threads -> Listing \cup {Idle}]
  BY <1>2 DEF FoldFails, TypeOK
<1> QED
  BY <1>1, <1>5, <1>6, <1>7, TypeParts DEF TypeOK

LEMMA InitTypes == Init => TypeOK
<1> SUFFICES ASSUME Init PROVE TypeOK
  OBVIOUS
<1>1. tabs \subseteq Tab /\ tabs # {} /\ groups \subseteq Group /\ reach \subseteq Target
  BY ConstantsAssumption DEF Init
<1>2. used \subseteq Device /\ Live \subseteq used
  <2>1. \A d \in Live : d <= d
    BY ConstantsAssumption DEF Live
  <2> QED
    BY <2>1 DEF Init, Live
<1>3. dev \in [Device -> DeviceRow \cup {None}] /\ \A d \in Live : dev[d].tab \in tabs
  BY DEF Init, Live, DeviceRow
<1>4. /\ prev \in [Device -> LevelName \cup {None}] /\ stable \in [Device -> {"ok", "warn", None}]
      /\ streak \in [Device -> 0..DownAfter] /\ since \subseteq Device
      /\ alarm \in [Group -> BOOLEAN]
      /\ told \in [Device \cup Group -> {"none", "down", "up", "dropped"}]
      /\ thread \in [Threads -> Listing \cup {Idle}] /\ faults \in 0..MaxFaults
  BY ConstantsAssumption DEF Init
<1> QED
  BY <1>1, <1>2, <1>3, <1>4 DEF TypeOK, Init

\* The threads, whatever they are there for.
LEMMA NextIs ==
  ASSUME Next
  PROVE  \/ Configure \/ EndImport \/ \E t \in Tab : BeginImport(t)
         \/ \E w \in Threads, ack \in BOOLEAN : Ping(w, ack)
         \/ \E w \in Threads : Fold(w)
         \/ \E w \in Threads, d \in Device : FoldFails(w, d)
         \/ \E a \in Target : Flap(a)
BY DEF Next, Sample, View, Ack, Threads

LEMMA NextTypes == TypeOK /\ [Next]_vars => TypeOK'
<1> SUFFICES ASSUME TypeOK, [Next]_vars PROVE TypeOK'
  OBVIOUS
<1>1. CASE Configure \/ EndImport \/ \E t \in Tab : BeginImport(t)
  <2>1. TablesOK' /\ UNCHANGED <<dictvars, thread, reach, faults>>
    BY <1>1, ConfigTables, TypeTables
  <2> QED
    BY <2>1, TypeParts DEF TypeOK, dictvars
<1>2. CASE \E a \in Target : Flap(a)
  <2>1. TablesOK' /\ reach' \subseteq Target
    BY <1>2, TablesStay DEF Flap, TypeOK
  <2> QED
    BY <1>2, <2>1, TypeParts DEF Flap, TypeOK, dictvars
<1>3. CASE UNCHANGED vars
  <2>1. TablesOK'
    BY <1>3, TablesStay DEF vars
  <2> QED
    BY <1>3, <2>1, TypeParts DEF vars, TypeOK, dictvars, envvars, netvars
<1> QED
  BY <1>1, <1>2, <1>3, NextIs, PingTypes, FoldTypes, FoldFailsTypes

\* Type correctness: ids, rows, dictionaries and what threads hold stay what
\* they are meant to be, and no device is left in a tab that was deleted.
THEOREM TypeCorrect == Spec => []TypeOK
<1> QED
  BY InitTypes, NextTypes, PTL DEF Spec

-----------------------------------------------------------------------------
(* The dictionaries agree.  A fold writes all of them for the devices of one  *)
(* list, which need not be the list of the fold before.                       *)

\* What DictionariesAgree says of one device.
Agree(d) ==
  /\ prev[d] = "down" <=> d \in since
  /\ streak[d] = DownAfter => prev[d] = "down"
  /\ prev[d] = None => streak[d] = 0 /\ stable[d] = None
  /\ prev[d] \in {"ok", "warn"} /\ streak[d] = 0 => stable[d] = prev[d]

LEMMA ByDevice == DictionariesAgree <=> \A d \in Device : Agree(d)
BY DEF DictionariesAgree, Agree

\* A device that was folded.
LEMMA FoldedAgrees ==
  ASSUME TypeOK, NEW d \in Device, Agree(d), NEW r \in LevelName,
         prev'[d] = Level(d, r), streak'[d] = Streak(d, r),
         stable'[d] = IF r # "down" THEN r ELSE stable[d],
         d \in since' <=> Since(d, Level(d, r))
  PROVE  Agree(d)'
<1>1. /\ Streak(d, r) \in 0..DownAfter /\ Level(d, r) \in LevelName
      /\ r # "down" => Streak(d, r) = 0 /\ Level(d, r) = r
      /\ r = "down" => Streak(d, r) > 0 /\ (Level(d, r) = "down" <=> Streak(d, r) = DownAfter)
  BY LevelIs DEF TypeOK
<1>2. DownAfter > 0 /\ DownAfter \in Nat /\ None \notin LevelName
  BY ConstantsAssumption DEF LevelName
<1>3. prev'[d] = "down" <=> d \in since'
  BY DEF Since, Agree
<1>4. streak'[d] = DownAfter => prev'[d] = "down"
  BY <1>1, <1>2
<1>5. prev'[d] # None
  BY <1>1, <1>2
<1>6. streak'[d] = 0 => stable'[d] = prev'[d]
  BY <1>1, <1>2
<1> QED
  BY <1>3, <1>4, <1>5, <1>6 DEF Agree

\* A device that is forgotten.
LEMMA ForgottenAgrees ==
  ASSUME NEW d \in Device, prev'[d] = None, streak'[d] = 0, stable'[d] = None, d \notin since'
  PROVE  Agree(d)'
BY ConstantsAssumption DEF Agree

LEMMA DictionariesStay ==
  ASSUME DictionariesAgree, UNCHANGED <<prev, streak, stable, since>>
  PROVE  DictionariesAgree'
BY DEF DictionariesAgree

LEMMA ForgetAgrees ==
  ASSUME Forget
  PROVE  DictionariesAgree'
<1>1. ASSUME NEW d \in Device PROVE Agree(d)'
  BY ForgottenAgrees DEF Forget
<1> QED
  BY <1>1 DEF DictionariesAgree, Agree

LEMMA FoldAgrees ==
  ASSUME TypeOK, DictionariesAgree, NEW w \in Threads, Fold(w)
  PROVE  DictionariesAgree'
<1> DEFINE t == thread[w]
           S == DOMAIN t.res
<1>1. S \in SUBSET Device /\ t.res \in [S -> LevelName]
  BY Folding DEF Fold
<1>2. ASSUME NEW d \in Device PROVE Agree(d)'
  <2>1. CASE d \in S
    <3>1. /\ prev'[d] = Level(d, t.res[d]) /\ streak'[d] = Streak(d, t.res[d])
          /\ stable'[d] = IF t.res[d] # "down" THEN t.res[d] ELSE stable[d]
          /\ d \in since' <=> Since(d, Level(d, t.res[d]))
      BY <2>1 DEF Fold
    <3>2. t.res[d] \in LevelName /\ Agree(d)
      BY <1>1, <2>1, ByDevice
    <3> QED
      BY <3>1, <3>2, FoldedAgrees
  <2>2. CASE d \notin S
    <3>1. prev'[d] = None /\ streak'[d] = 0 /\ stable'[d] = None /\ d \notin since'
      BY <2>2 DEF Fold
    <3> QED
      BY <3>1, ForgottenAgrees
  <2> QED
    BY <2>1, <2>2
<1> QED
  BY <1>2 DEF DictionariesAgree, Agree

\* A fold that fails half-way: the device it fails at was down and recovers.
LEMMA FoldFailsAgrees ==
  ASSUME TypeOK, DictionariesAgree, NEW w \in Threads, NEW d \in Device, FoldFails(w, d)
  PROVE  DictionariesAgree'
<1> DEFINE t == thread[w]
           S == {e \in DOMAIN t.res : e < d}
<1>1. /\ DOMAIN t.res \in SUBSET Device /\ t.res \in [DOMAIN t.res -> LevelName]
      /\ d \in DOMAIN t.res
  BY Folding DEF FoldFails
<1>2. ASSUME NEW e \in Device PROVE Agree(e)'
  <2>0. Agree(e)
    BY ByDevice
  <2>1. CASE e \in S
    <3>1. /\ prev'[e] = Level(e, t.res[e]) /\ streak'[e] = Streak(e, t.res[e])
          /\ stable'[e] = IF t.res[e] # "down" THEN t.res[e] ELSE stable[e]
          /\ e \in since' <=> Since(e, Level(e, t.res[e]))
      BY <2>1 DEF FoldFails
    <3>2. t.res[e] \in LevelName
      BY <1>1, <2>1
    <3> QED
      BY <2>0, <3>1, <3>2, FoldedAgrees
  <2>2. CASE e = d
    <3>0. e \notin S
      BY <2>2, ConstantsAssumption
    <3>1. prev'[e] = prev[e] /\ prev[e] = "down" /\ (e \in since' <=> e \in since)
      BY <2>2, <3>0 DEF FoldFails, Recovers
    <3> QED
      BY <2>0, <3>1, ConstantsAssumption DEF Agree
  <2>3. CASE e \notin S \cup {d}
    <3>1. /\ prev'[e] = prev[e] /\ streak'[e] = streak[e] /\ stable'[e] = stable[e]
          /\ e \in since' <=> e \in since
      BY <2>3 DEF FoldFails
    <3> QED
      BY <2>0, <3>1 DEF Agree
  <2> QED
    BY <2>1, <2>2, <2>3
<1> QED
  BY <1>2 DEF DictionariesAgree, Agree

-----------------------------------------------------------------------------
(* What a thread listed is still true when it folds.                          *)

LEMMA KnownMoves ==
  ASSUME TypeOK, Known, Moves, UNCHANGED <<prev, thread>>
  PROVE  Known'
<1>1. ASSUME NEW w \in Threads PROVE StillTrue(thread[w])'
  <2>1. SUFFICES ASSUME thread[w].step = "fold", NEW d \in DOMAIN thread[w].res
        PROVE  d \in used' /\ (d \in Live' => (thread[w].group[d] = None <=> dev'[d].group = None))
    BY DEF StillTrue
  <2>2. d \in used /\ (d \in Live => (thread[w].group[d] = None <=> dev[d].group = None))
    BY <2>1 DEF Known, StillTrue
  <2> QED
    BY <2>2 DEF Moves
<1> QED
  BY <1>1 DEF Known, Moves

\* A thread that folded is idle again.
LEMMA KnownAgain ==
  ASSUME TypeOK, Known, cfgvars' = cfgvars, NEW w \in Threads,
         thread' = [thread EXCEPT ![w] = Idle] \/ thread' = thread,
         \A d \in Device : prev'[d] # None => d \in used
  PROVE  Known'
<1>1. Live' = Live
  BY DEF cfgvars, Live
<1>2. ASSUME NEW v \in Threads PROVE StillTrue(thread[v])'
  <2>1. thread'[v] = Idle \/ thread'[v] = thread[v]
    BY DEF TypeOK
  <2>2. StillTrue(thread[v])
    BY DEF Known
  <2> QED
    BY <1>1, <2>1, <2>2 DEF StillTrue, Idle, cfgvars
<1> QED
  BY <1>2 DEF Known, cfgvars

LEMMA PingKnown ==
  ASSUME TypeOK, Known, NEW w \in Threads, NEW ack \in BOOLEAN, Ping(w, ack)
  PROVE  Known'
<1>1. CASE Live = {} /\ Forget /\ UNCHANGED thread
  BY <1>1, KnownAgain DEF Ping, Forget
<1>2. CASE ~(Live = {} /\ Forget /\ UNCHANGED thread)
  <2>1. PICK res \in [Live -> Replies \cup {"down"}] :
          thread' = [thread EXCEPT ![w] = [step |-> "fold", ack |-> ack, res |-> res,
                                           group |-> [d \in Live |-> dev[d].group]]]
    BY <1>2 DEF Ping
  <2>2. Live' = Live /\ used' = used /\ dev' = dev /\ prev' = prev
    BY <1>2 DEF Ping, cfgvars, dictvars, Live
  <2>3. ASSUME NEW v \in Threads PROVE StillTrue(thread[v])'
    <3>1. CASE v = w
      <4>1. thread'[v] = [step |-> "fold", ack |-> ack, res |-> res,
                          group |-> [d \in Live |-> dev[d].group]]
        BY <2>1, <3>1 DEF TypeOK
      <4>2. DOMAIN thread'[v].res = Live /\ \A d \in Live : thread'[v].group[d] = dev[d].group
        BY <4>1
      <4> QED
        BY <2>2, <4>2 DEF StillTrue, TypeOK
    <3>2. CASE v # w
      <4>1. thread'[v] = thread[v] /\ StillTrue(thread[v])
        BY <2>1, <3>2 DEF TypeOK, Known
      <4> QED
        BY <2>2, <4>1 DEF StillTrue
    <3> QED
      BY <3>1, <3>2
  <2> QED
    BY <2>2, <2>3 DEF Known
<1> QED
  BY <1>1, <1>2

LEMMA FoldKnown ==
  ASSUME TypeOK, Known, NEW w \in Threads,
         Fold(w) \/ \E d \in Device : FoldFails(w, d)
  PROVE  Known'
<1>1. StillTrue(thread[w]) /\ thread[w].step = "fold"
  BY DEF Known, Fold, FoldFails
<1>2. \A d \in Device : prev'[d] # None => d \in used
  BY <1>1 DEF Known, Fold, FoldFails, StillTrue
<1> QED
  BY <1>2, KnownAgain DEF Fold, FoldFails

-----------------------------------------------------------------------------
(* Whatever is down was announced.                                            *)

\* The two halves of AlarmsWereRaised.
DevicesTold == \A d \in Live : dev[d].group = None /\ prev[d] = "down" => told[d] \in {"down", "dropped"}
SitesTold   == \A g \in Group : alarm[g] => told[g] \in {"down", "dropped"}

LEMMA Halves == AlarmsWereRaised <=> (faults = 0 => (DownAfter > 1 => DevicesTold) /\ SitesTold)
BY DEF AlarmsWereRaised, DevicesTold, SitesTold

\* A change of the configuration moves no device out of a site, and a device that
\* is added was never seen.
LEMMA MovesTold ==
  ASSUME TypeOK, Known, AlarmsWereRaised, Moves, UNCHANGED <<dictvars, faults>>
  PROVE  AlarmsWereRaised'
<1>1. ASSUME faults = 0, DownAfter > 1 PROVE DevicesTold'
  <2>1. SUFFICES ASSUME NEW d \in Live', dev'[d].group = None, prev'[d] = "down"
        PROVE  told'[d] \in {"down", "dropped"}
    BY DEF DevicesTold
  <2>2. d \in used
    BY <2>1, ConstantsAssumption DEF Known, Live, dictvars
  <2>3. d \in Live /\ dev[d].group = None
    BY <2>1, <2>2 DEF Moves
  <2> QED
    BY <1>1, <2>1, <2>3, Halves DEF DevicesTold, dictvars
<1>2. ASSUME faults = 0 PROVE SitesTold'
  BY <1>2, Halves DEF SitesTold, dictvars
<1> QED
  BY <1>1, <1>2 DEF AlarmsWereRaised, DevicesTold, SitesTold

LEMMA PingTold ==
  ASSUME TypeOK, AlarmsWereRaised, NEW w \in Threads, NEW ack \in BOOLEAN, Ping(w, ack)
  PROVE  AlarmsWereRaised'
<1>1. Live' = Live /\ dev' = dev /\ faults' = faults
  BY DEF Ping, cfgvars, netvars, Live
<1>2. CASE Forget
  BY <1>1, <1>2, ConstantsAssumption DEF Forget, AlarmsWereRaised, Live
<1>3. CASE UNCHANGED dictvars
  BY <1>1, <1>3 DEF AlarmsWereRaised, dictvars
<1> QED
  BY <1>2, <1>3 DEF Ping

LEMMA FoldTold ==
  ASSUME TypeOK, DictionariesAgree, Known, AlarmsWereRaised, NEW w \in Threads, Fold(w)
  PROVE  AlarmsWereRaised'
<1> DEFINE t == thread[w]
           S == DOMAIN t.res
<1>1. /\ S \in SUBSET Device /\ t.res \in [S -> LevelName] /\ t.step = "fold"
  BY Folding DEF Fold
<1>2. Live' = Live /\ dev' = dev /\ faults' = faults /\ Live \subseteq Device
  BY DEF Fold, cfgvars, envvars, netvars, Live
<1>3. /\ \A x \in Device : told'[x] = IF Tells(t, x) THEN Event(t, prev[x] = "down") ELSE told[x]
      /\ \A g \in Group : /\ told'[g] = IF GroupDown(t, g) = alarm[g] THEN told[g] ELSE Event(t, alarm[g])
                          /\ alarm'[g] = GroupDown(t, g)
  BY ConstantsAssumption DEF Fold, Told
<1>4. ASSUME faults = 0, DownAfter > 1 PROVE DevicesTold'
  <2>1. SUFFICES ASSUME NEW d \in Live, dev[d].group = None, prev'[d] = "down"
        PROVE  told'[d] \in {"down", "dropped"}
    BY <1>2 DEF DevicesTold
  <2>2. d \in Device /\ d \in S /\ Level(d, t.res[d]) = "down" /\ t.group[d] = None
    <3>1. d \in Device /\ d \in S
      BY <1>2, <2>1, ConstantsAssumption DEF Fold
    <3>2. Level(d, t.res[d]) = "down"
      BY <2>1, <3>1 DEF Fold
    <3> QED
      BY <1>1, <2>1, <3>1, <3>2 DEF Known, StillTrue
  <2>3. CASE prev[d] = "down"
    <3>1. ~Tells(t, d)
      BY <2>2, <2>3 DEF Tells
    <3> QED
      BY <1>2, <1>3, <1>4, <2>1, <2>2, <2>3, <3>1, Halves DEF DevicesTold
  <2>4. CASE prev[d] # "down" /\ prev[d] # None
    <3>1. Tells(t, d)
      BY <2>2, <2>4 DEF Tells
    <3> QED
      BY <1>3, <2>2, <2>4, <3>1 DEF Event
  <2>5. CASE prev[d] = None
    <3>1. streak[d] = 0
      BY <2>2, <2>5 DEF DictionariesAgree
    <3>2. t.res[d] \in LevelName
      BY <1>1, <2>2
    <3>3. Streak(d, t.res[d]) = DownAfter
      BY <2>2, <3>2, LevelIs DEF TypeOK
    <3>4. Streak(d, t.res[d]) \in {0, 1}
      BY <3>1, <1>4, ConstantsAssumption DEF Streak
    <3> QED
      BY <1>4, <3>3, <3>4
  <2> QED
    BY <2>3, <2>4, <2>5
<1>5. ASSUME faults = 0 PROVE SitesTold'
  <2>1. SUFFICES ASSUME NEW g \in Group, GroupDown(t, g)
        PROVE  told'[g] \in {"down", "dropped"}
    BY <1>3 DEF SitesTold
  <2>2. CASE alarm[g]
    <3>1. GroupDown(t, g) = alarm[g]
      BY <2>1, <2>2 DEF GroupDown, TypeOK
    <3> QED
      BY <1>3, <1>5, <2>2, <3>1, Halves DEF SitesTold
  <2>3. CASE ~alarm[g]
    <3>1. GroupDown(t, g) # alarm[g]
      BY <2>1, <2>3
    <3> QED
      BY <1>3, <2>3, <3>1 DEF Event
  <2> QED
    BY <2>2, <2>3
<1> QED
  BY <1>2, <1>4, <1>5 DEF AlarmsWereRaised, DevicesTold, SitesTold

LEMMA InitInductive == Init => IInv
<1> SUFFICES ASSUME Init PROVE IInv
  OBVIOUS
<1>1. TypeOK
  BY InitTypes
<1>2. DictionariesAgree
  BY ConstantsAssumption DEF Init, DictionariesAgree
<1>3. AlarmsWereRaised
  BY ConstantsAssumption DEF Init, AlarmsWereRaised, Live
<1>4. Known
  BY DEF Init, Known, StillTrue, Idle
<1> QED
  BY <1>1, <1>2, <1>3, <1>4 DEF IInv

LEMMA NextInductive == IInv /\ [Next]_vars => IInv'
<1> SUFFICES ASSUME IInv, [Next]_vars PROVE IInv'
  OBVIOUS
<1>0. TypeOK /\ DictionariesAgree /\ AlarmsWereRaised /\ Known /\ TypeOK'
  BY NextTypes DEF IInv
<1>1. CASE Configure \/ EndImport \/ \E t \in Tab : BeginImport(t)
  <2>1. Moves /\ UNCHANGED <<dictvars, thread, faults>>
    BY <1>0, <1>1, ConfigTables, TypeTables
  <2>2. DictionariesAgree'
    BY <1>0, <2>1, DictionariesStay DEF dictvars
  <2>3. AlarmsWereRaised'
    BY <1>0, <2>1, MovesTold
  <2>4. Known'
    BY <1>0, <2>1, KnownMoves DEF dictvars
  <2> QED
    BY <1>0, <2>2, <2>3, <2>4 DEF IInv
<1>2. CASE \E w \in Threads, ack \in BOOLEAN : Ping(w, ack)
  <2>1. DictionariesAgree'
    BY <1>0, <1>2, DictionariesStay, ForgetAgrees DEF Ping, dictvars
  <2> QED
    BY <1>0, <1>2, <2>1, PingTold, PingKnown DEF IInv
<1>3. CASE \E w \in Threads : Fold(w)
  BY <1>0, <1>3, FoldAgrees, FoldTold, FoldKnown DEF IInv
<1>4. CASE \E w \in Threads, d \in Device : FoldFails(w, d)
  <2>1. PICK w \in Threads, d \in Device : FoldFails(w, d)
    BY <1>4
  <2>2. faults' # 0
    <3>1. faults' = faults + 1
      BY <2>1 DEF FoldFails
    <3> QED
      BY <1>0, <3>1 DEF TypeOK
  <2>3. AlarmsWereRaised'
    BY <2>2 DEF AlarmsWereRaised
  <2> QED
    BY <1>0, <2>1, <2>3, FoldFailsAgrees, FoldKnown DEF IInv
<1>5. CASE (\E a \in Target : Flap(a)) \/ UNCHANGED vars
  <2>1. UNCHANGED <<cfgvars, dictvars, thread, faults>>
    BY <1>5 DEF Flap, vars, envvars, netvars
  <2>2. Moves
    BY <2>1 DEF Moves, cfgvars, Live
  <2>3. AlarmsWereRaised' /\ Known'
    BY <1>0, <2>1, <2>2, MovesTold, KnownMoves DEF dictvars
  <2>4. DictionariesAgree'
    BY <1>0, <2>1, DictionariesStay DEF dictvars
  <2> QED
    BY <1>0, <2>3, <2>4 DEF IInv
<1> QED
  BY <1>1, <1>2, <1>3, <1>4, <1>5, NextIs

\* The inductive invariant: the types, the two properties below, and that what a
\* thread listed before it pinged is still true of the devices that are left.
THEOREM Inductive == Spec => []IInv
<1> QED
  BY InitInductive, NextInductive, PTL DEF Spec

\* However sampling loop, status pages and acknowledgements fold their lists into
\* the dictionaries, and wherever a fold fails, the dictionaries agree.
THEOREM AlwaysAgree == Spec => []DictionariesAgree
<1>1. IInv => DictionariesAgree
  BY DEF IInv
<1> QED
  BY <1>1, Inductive, PTL

\* As long as no insert of an outage failed, no device or site is down that a push
\* event did not announce or an acknowledgement did not see first.
THEOREM AlarmsRaised == Spec => []AlarmsWereRaised
<1>1. IInv => AlarmsWereRaised
  BY DEF IInv
<1> QED
  BY <1>1, Inductive, PTL
=============================================================================
