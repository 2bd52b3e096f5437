-------------------------------- MODULE NetSync --------------------------------
(***************************************************************************)
(* Location sync and cross reference (location_sync.py,                    *)
(* location_cross_ref.py, edge_routers.py).  A sync asks Splynx for the    *)
(* active customers, their services and sessions, finds a MAC for each     *)
(* service and replaces the cache.  A cross reference asks a router for    *)
(* its sessions and stores which cached services it has.  A flag keeps two *)
(* syncs apart, unless it looks too old.                                   *)
(*                                                                         *)
(* Definitions ending in _X are slips, see POApproval.tla.                 *)
(***************************************************************************)
EXTENDS Integers, FiniteSets, Sequences, SequencesExt

CONSTANTS
  Mac, None,
  Worlds,              \* what Splynx and the routers may say, see WorldType
  MaxKey,              \* services of the customer, see below
  Paths,               \* addresses that list who is online, two by default
  Router,
  Syncer, Crosser,     \* threads: the nightly and manual syncs, cross references
  MaxFaults, MaxEdits  \* bounds: failures, and changes of the world and of routers

\* One customer, with services 1..MaxKey.  Key 0 is none: a customer without services
\* has a row with key 0.  Customers do not meet in any of the maps.
Key == 0..MaxKey

\* A session may name a service by its id, and has the PPP login of a service,
\* none (0), or one of no service (MaxKey + 1).
Session == [id : Key, login : 0..(MaxKey + 1), mac : Mac]

\* services: active services, None if the customer is not.
\* online: sessions in the order of the answer.
\* last: MAC of the newest past session, and for key 0 of the customer.
\* at: where a MAC has a PPP session.
WorldType ==
  [services : (SUBSET (1..MaxKey)) \cup {None}, online : Seq(Session),
   last : [Key -> Mac \cup {None}], at : [Mac -> Router \cup {None}]]

ASSUME ConstantsAssumption ==
  /\ {MaxKey, Paths} \subseteq Nat /\ None \notin Mac \cup Router
  /\ Worlds \subseteq WorldType /\ {MaxFaults, MaxEdits} \subseteq Nat

VARIABLES
  world, version,      \* what Splynx says now; how often it changed
  routers,             \* rows of edge_routers
  cache,               \* location_sync_customers: MAC and mac_source by key
  cached,              \* history: version and online sessions the cache is from
  xref,                \* location_sync_cross_ref: keys of each router
  failed,              \* last_sync_error is set
  busy, stale,         \* _sync_in_progress; it began longer ago than the limit
  taken, crossed,      \* history: a sync began although one ran; a cross reference
                       \* stored what it had matched before a sync
  thread,
  faults, edits

vars == <<world, version, routers, cache, cached, xref, failed, busy, stale, taken,
          crossed, thread, faults, edits>>
outside == <<world, version, routers, edits>>
tables  == <<cache, cached, xref, failed>>
flags   == <<busy, stale, taken>>

Idle   == [step |-> "idle"]
Absent == [mac |-> None, src |-> "absent"]
NonePast == [k \in Key |-> None]
Keys(c) == {k \in Key : c[k] # Absent}

Init ==
  /\ world \in Worlds /\ version = 0 /\ routers \in SUBSET Router
  /\ cache = [k \in Key |-> Absent] /\ cached = [version |-> 0, sessions |-> <<>>]
  /\ xref = [r \in Router |-> {}] /\ failed = FALSE
  /\ busy = FALSE /\ stale = FALSE /\ taken = FALSE /\ crossed = FALSE
  /\ thread = [w \in Syncer \cup Crosser |-> Idle]
  /\ faults = 0 /\ edits = 0

-----------------------------------------------------------------------------
(* Which MAC goes with a service. *)

\* online_mac: of several sessions under one key the last read stays.
Newest(s, I)   == IF I = {} THEN None ELSE s[CHOOSE i \in I : \A j \in I : j <= i].mac
OfId(s, k)     == Newest(s, {i \in DOMAIN s : k # 0 /\ s[i].id = k})
OfLogin(s, k)  == Newest(s, {i \in DOMAIN s : s[i].login = k})

\* The id of the service, then its login: each falls back to the session without a
\* login, which therefore comes before the service's own login.
Exact(s, k) == IF OfId(s, k) # None THEN OfId(s, k)
               ELSE IF OfLogin(s, 0) # None THEN OfLogin(s, 0) ELSE OfLogin(s, k)

\* online_any_pool: every session that was read, once for each address.
PoolMacs(s) == [i \in DOMAIN s |-> s[i].mac]

\* A session from the pool is given to every service that asks.
Rest_X(pool, mac) == pool

\* Of a MAC that was matched one copy leaves the pool.
Rest(pool, mac) ==
  IF \E i \in DOMAIN pool : pool[i] = mac
  THEN RemoveAt(pool, CHOOSE i \in DOMAIN pool : pool[i] = mac /\ \A j \in 1..(i-1) : pool[j] # mac)
  ELSE pool

\* Past sessions of the service, then of the customer.
Past(last, k) == IF k # 0 /\ last[k] # None THEN last[k] ELSE last[0]

\* The service's row: online, then from the pool, then from the past.  The MACs
\* that records of services and customers may hold are the last resort and left out;
\* "none" stands for the empty mac_source of a row without a MAC.
Match(s, last, pool, k) ==
  IF Exact(s, k) # None THEN [row |-> [mac |-> Exact(s, k), src |-> "online"],
                              pool |-> Rest(pool, Exact(s, k))]
  ELSE IF pool # <<>> THEN [row |-> [mac |-> Head(pool), src |-> "online_any"],
                            pool |-> Rest(pool, Head(pool))]
  ELSE [row |-> [mac |-> Past(last, k), src |-> IF Past(last, k) = None THEN "none" ELSE "last_session"],
        pool |-> pool]

\* The rows of the services, in order: what the first ones take the later ones lack.
Merged(services, s, last) ==
  LET jobs == IF services = None THEN {} ELSE IF services = {} THEN {0} ELSE services
      upto[n \in 0..(MaxKey + 1)] ==
        IF n = 0 THEN [rows |-> [k \in Key |-> Absent], pool |-> PoolMacs(s)]
        ELSE IF n - 1 \notin jobs THEN upto[n - 1]
        ELSE LET m == Match(s, last, upto[n - 1].pool, n - 1)
             IN [rows |-> [upto[n - 1].rows EXCEPT ![n - 1] = m.row], pool |-> m.pool]
  IN upto[MaxKey + 1].rows

-----------------------------------------------------------------------------
(* A sync. *)

\* Nothing is refused.
Refused_X == FALSE
\* "Sync already running"
Refused == busy /\ ~stale

\* A flag that is too old is taken over; the sync that set it may still run.
Begin(w) ==
  /\ thread[w] = Idle /\ ~Refused
  /\ taken' = (taken \/ (busy /\ stale))
  /\ busy' = TRUE /\ stale' = FALSE
  /\ thread' = [thread EXCEPT ![w] = [step |-> "customers"]]
  /\ UNCHANGED <<outside, tables, crossed, faults>>

\* Active customers and their services.  If the search fails, all customers
\* are fetched and filtered; an answer that is no list counts as none.
FetchCustomers(w) ==
  /\ thread[w].step = "customers"
  /\ \E seen \in {world.services, None} :
       /\ faults' = faults + (IF seen # world.services THEN 1 ELSE 0) /\ faults' <= MaxFaults
       /\ thread' = [thread EXCEPT ![w] = [step |-> "sessions", version |-> version, services |-> seen,
                                           path |-> 1, read |-> <<>>]]
  /\ UNCHANGED <<outside, tables, flags, crossed>>

\* The sessions that one address lists are added to those of the others; an address
\* that fails is skipped.
FetchOnline(w) ==
  LET t == thread[w]
  IN /\ t.step = "sessions" /\ t.path <= Paths
     /\ \E rows \in {world.online, <<>>} :
          /\ faults' = faults + (IF rows # world.online THEN 1 ELSE 0) /\ faults' <= MaxFaults
          /\ thread' = [thread EXCEPT ![w].path = t.path + 1, ![w].read = t.read \o rows]
     /\ UNCHANGED <<outside, tables, flags, crossed>>

\* Past sessions, none if every address fails, and the rows.
FetchPast(w) ==
  LET t == thread[w]
  IN /\ t.step = "sessions" /\ t.path > Paths
     /\ \E last \in {world.last, NonePast} :
          /\ faults' = faults + (IF last # world.last THEN 1 ELSE 0) /\ faults' <= MaxFaults
          /\ thread' = [thread EXCEPT ![w] =
               [step |-> "write", rows |-> Merged(t.services, t.read, last),
                from |-> [version |-> t.version, sessions |-> t.read]]]
     /\ UNCHANGED <<outside, tables, flags, crossed>>

\* One transaction replaces cache and directory; last_sync_error is cleared after it.
WriteCache(w) ==
  LET t == thread[w]
  IN /\ t.step = "write"
     /\ cache' = t.rows /\ cached' = t.from /\ failed' = FALSE
     /\ crossed' = (crossed \/ \E v \in Crosser : thread[v].step = "store")
     /\ thread' = [thread EXCEPT ![w] = [step |-> "prune"]]
     /\ UNCHANGED <<outside, xref, flags, faults>>

\* prune_cross_ref_orphans: rows of services that are not cached go.
Pruned(c) == [r \in Router |-> xref[r] \cap Keys(c)]

Prune(w) ==
  /\ thread[w].step = "prune"
  /\ xref' = Pruned(cache)
  /\ thread' = [thread EXCEPT ![w] = [step |-> "done"]]
  /\ UNCHANGED <<outside, cache, cached, failed, flags, crossed, faults>>

\* Splynx or the database fails: the error is noted.
Fail(w) ==
  /\ thread[w].step \in {"customers", "sessions", "write", "prune"}
  /\ faults < MaxFaults /\ faults' = faults + 1
  /\ failed' = TRUE
  /\ thread' = [thread EXCEPT ![w] = [step |-> "done"]]
  /\ UNCHANGED <<outside, cache, cached, xref, flags, crossed>>

\* The time is kept.
Clear_X == busy' = FALSE /\ UNCHANGED stale
\* The flag and the time of its start go together.
Clear == busy' = FALSE /\ stale' = FALSE

\* The flag is cleared, whoever set it.
Release(w) ==
  /\ thread[w].step = "done" /\ Clear
  /\ thread' = [thread EXCEPT ![w] = Idle]
  /\ UNCHANGED <<outside, tables, taken, crossed, faults>>

\* LOCATION_SYNC_LOCK_STALE_SEC have passed since the flag was set.
Age ==
  /\ busy /\ ~stale /\ stale' = TRUE
  /\ UNCHANGED <<outside, tables, busy, taken, crossed, thread, faults>>

\* A flag that is too old stays as it is.
Cleared_X == FALSE
Cleared == busy /\ stale

\* get_status and sync_is_running clear a flag that is too old.
Status ==
  /\ Cleared /\ Clear /\ taken' = TRUE
  /\ UNCHANGED <<outside, tables, crossed, thread, faults>>

-----------------------------------------------------------------------------
(* A cross reference. *)

\* Routers stay in the cross reference when they are deleted.  The id of a new one
\* is asked of the cursor, which has none: the row is committed, the answer is
\* an error, and an import ends with its first new line.
AddRouter(r)    == r \notin routers /\ routers' = routers \cup {r}
DeleteRouter(r) == r \in routers /\ routers' = routers \ {r}

\* The PPP sessions of the router, read over SSH.
ReadRouter(w, r) ==
  /\ thread[w] = Idle /\ r \in routers
  /\ thread' = [thread EXCEPT ![w] =
       [step |-> "match", router |-> r, macs |-> {m \in Mac : world.at[m] = r}]]
  /\ UNCHANGED <<outside, tables, flags, crossed, faults>>

\* get_mac_customer_map: of several rows with one MAC the last wins.
Owner(m) == LET S == {k \in Key : cache[k].mac = m}
            IN IF S = {} THEN {} ELSE {CHOOSE k \in S : \A j \in S : j <= k}

MatchMacs(w) ==
  /\ thread[w].step = "match"
  /\ thread' = [thread EXCEPT ![w] =
       [step |-> "store", router |-> thread[w].router,
        keys |-> UNION {Owner(m) : m \in thread[w].macs}]]
  /\ UNCHANGED <<outside, tables, flags, crossed, faults>>

\* replace_cross_ref_for_router
StoreXref(w) ==
  /\ thread[w].step = "store"
  /\ xref' = [xref EXCEPT ![thread[w].router] = thread[w].keys]
  /\ thread' = [thread EXCEPT ![w] = Idle]
  /\ UNCHANGED <<outside, cache, cached, failed, flags, crossed, faults>>

-----------------------------------------------------------------------------
Edit ==
  /\ edits < MaxEdits /\ edits' = edits + 1
  /\ \/ world' \in Worlds \ {world} /\ version' = version + 1 /\ UNCHANGED routers
     \/ (\E r \in Router : AddRouter(r) \/ DeleteRouter(r)) /\ UNCHANGED <<world, version>>
  /\ UNCHANGED <<tables, flags, crossed, thread, faults>>

SyncStep(w)  == \/ FetchCustomers(w) \/ FetchOnline(w) \/ FetchPast(w)
                \/ WriteCache(w) \/ Prune(w) \/ Release(w)
CrossStep(w) == MatchMacs(w) \/ StoreXref(w)

Next ==
  \/ \E w \in Syncer : Begin(w) \/ SyncStep(w) \/ Fail(w)
  \/ \E w \in Crosser : CrossStep(w) \/ \E r \in Router : ReadRouter(w, r)
  \/ Age \/ Status \/ Edit

Spec == Init /\ [][Next]_vars

\* Time passes, and a page of the module that is open polls the status.  Nothing is
\* assumed of the threads: pages of Splynx may never end, a connection may hang.
FairSpec == Spec /\ WF_vars(Age) /\ WF_vars(Status)

-----------------------------------------------------------------------------
Row  == [mac : Mac \cup {None}, src : {"absent", "online", "online_any", "last_session", "none"}]
From == [version : 0..MaxEdits, sessions : Seq(Session)]
ThreadOK(t) ==
  \/ t = Idle \/ t \in [step : {"customers", "prune", "done"}]
  \/ t \in [step : {"sessions"}, version : 0..MaxEdits, services : (SUBSET (1..MaxKey)) \cup {None},
            path : Nat, read : Seq(Session)]
  \/ t \in [step : {"write"}, rows : [Key -> Row], from : From]
  \/ t \in [step : {"match"}, router : Router, macs : SUBSET Mac]
  \/ t \in [step : {"store"}, router : Router, keys : SUBSET Key]

\* Type invariant.
TypeOK ==
  /\ world \in Worlds /\ edits \in 0..MaxEdits /\ version \in 0..edits /\ routers \subseteq Router
  /\ cache \in [Key -> Row] /\ cached \in From
  /\ xref \in [Router -> SUBSET Key] /\ faults \in 0..MaxFaults
  /\ failed \in BOOLEAN /\ busy \in BOOLEAN /\ stale \in BOOLEAN /\ taken \in BOOLEAN /\ crossed \in BOOLEAN
  /\ (stale => busy)
  /\ DOMAIN thread = Syncer \cup Crosser /\ \A w \in DOMAIN thread : ThreadOK(thread[w])

\* Rows that fit the sessions they are from.  A service that a session named by id has
\* the MAC of such a session.  A MAC is lent to a service only while fewer services
\* before it got it than sessions that were read have it.
Places(seq, m)   == {i \in DOMAIN seq : seq[i] = m}
Got(rows, m)     == {k \in Key : rows[k].mac = m /\ rows[k].src \in {"online", "online_any"}}
GotBy(rows, k)   == {j \in Got(rows, rows[k].mac) : j <= k}
LentFits(rows, s) ==
  \A k \in Key : rows[k].src = "online_any" =>
     Cardinality(GotBy(rows, k)) <= Cardinality(Places(PoolMacs(s), rows[k].mac))
Fits(rows, s) ==
  /\ \A k \in Keys(rows) : OfId(s, k) # None => rows[k].mac = OfId(s, k)
  /\ LentFits(rows, s)

\* What the page shows fits.  A router is only shown for services that are cached,
\* except between the write and the pruning of a sync, and where a cross reference
\* matched before a sync and stored after it, or a sync died.
TablesFit ==
  /\ Fits(cache, cached.sessions)
  /\ \/ \A r \in Router : xref[r] \subseteq Keys(cache)
     \/ crossed \/ faults > 0 \/ \E w \in Syncer : thread[w].step = "prune"

\* The inductive invariant: rows fit before they are written, what a cross reference
\* matched is cached unless a sync came between, and without a flag that was taken
\* over one sync runs at a time, with data no older than the cache's.
Syncing(w) == thread[w].step \in {"customers", "sessions", "write", "prune", "done"}
Written ==
  /\ \A w \in Syncer : thread[w].step = "write" => Fits(thread[w].rows, thread[w].from.sessions)
  /\ crossed \/ \A w \in Crosser : thread[w].step = "store" => thread[w].keys \subseteq Keys(cache)
OneSync ==
  /\ cached.version <= version
  /\ \A w \in Syncer : /\ thread[w].step = "sessions" => thread[w].version <= version
                       /\ thread[w].step = "write" => thread[w].from.version <= version
  /\ ~taken => /\ \A w \in Syncer : Syncing(w) => busy
               /\ \A v, w \in Syncer : Syncing(v) /\ Syncing(w) => v = w
               /\ \A w \in Syncer : thread[w].step = "sessions" => thread[w].version >= cached.version
               /\ \A w \in Syncer : thread[w].step = "write" => thread[w].from.version >= cached.version
IInv == TypeOK /\ TablesFit /\ Written /\ OneSync

\* Refuted: "Stop fallback pool from handing out a MAC we already matched exactly."  A
\* session that two addresses list is in the pool twice, and one copy leaves it.
MatchedOnce ==
  \A j, k \in Key : j < k /\ cache[j].src = "online" /\ cache[k].src = "online_any"
                      => cache[j].mac # cache[k].mac

\* The cache never goes back to older data, unless a flag that was too old let a
\* second sync run beside the first.
CacheAdvances == [][cached'.version >= cached.version \/ taken]_vars

\* "If a worker crashes mid-sync or a request hangs, release the lock after this
\* many seconds so "Run sync now" works again."
SyncWorksAgain == busy ~> ~busy
=============================================================================
