----------------------------- MODULE CreativePool -----------------------------
(***************************************************************************)
(* The rotation pool of ads: the operator's requests, the table and its    *)
(* in-memory copy in the backend (server/spnr-server main.rs and db.rs),   *)
(* clicks on ads, and a daemon that fetches the pool when it starts and    *)
(* shows its ads in turn (crates/spnrd/src/main.rs).                       *)
(*                                                                         *)
(* Handlers run one at a time under the state's mutex, so each is one      *)
(* step; the process may die after the handler's statement and before its  *)
(* answer, and a statement may fail, which is only logged.  An ad is its   *)
(* id, which also stands for its short code: both are random and taken to  *)
(* be fresh.  Ids are ordered, because ties of ORDER BY are broken by id.  *)
(***************************************************************************)
EXTENDS Integers, Sequences, FiniteSets, Functions

CONSTANTS
  Ids,          \* ids an ad may get
  House,        \* the ads a new table is seeded with, oldest first
  MaxTime,      \* bound: last second
  MaxRestarts,  \* bound: restarts and crashes of the backend
  MaxClicks,    \* bound: clicks
  MaxWrites     \* bound: cache writes in one run of the daemon

ASSUME PoolAssumption ==
  /\ Ids \subseteq Nat /\ House \in Seq(Ids) /\ House # <<>>
  /\ \A i, j \in DOMAIN House : i < j => House[i] < House[j]

VARIABLES
  now,          \* the second of the wall clock, which may be stepped back
  top,          \* history: the latest second the clock has shown
  rows,         \* table creatives: id -> [created, active]
  pool,         \* AppState.creatives
  clicks, clicksRow,   \* AppState.clicks, and its row of table kv
  ads, featured,       \* the daemon's ads and rotation index
  shown,        \* history: how often this run of the daemon cached each ad
  acked,        \* history: ads whose creation was answered or made durable
  removed,      \* history: ads whose deletion was answered or made durable
  unsaved,      \* history: ads in the pool whose insert failed
  early,        \* history: ads this run created while the clock was behind `top`
  clickLost,    \* history: the last write of the counter failed
  clicked, restarts    \* clicks made, restarts made

server == <<rows, pool, clicks, clicksRow>>
daemon == <<ads, featured, shown>>
clock == <<now, top>>
vars == <<clock, server, daemon, acked, removed, unsaved, early, clickLost, clicked, restarts>>

\* The members of S in the order R: each before those it is related to.
Listed(S, R) ==
  CHOOSE list \in [1..Cardinality(S) -> S] :
    \A i, j \in 1..Cardinality(S) : i < j => <<list[i], list[j]>> \in R

Row(second) == [created |-> second, active |-> TRUE]
WithRow(id) == [i \in DOMAIN rows \cup {id} |-> IF i = id THEN Row(now) ELSE rows[i]]
\* delete_creative: only a row that is still active is affected.
IsActive(id) == id \in DOMAIN rows /\ rows[id].active
Bug_HardDelete(id) == [i \in DOMAIN rows \ {id} |-> rows[i]]
WithoutRow(id) == [rows EXCEPT ![id].active = FALSE]

\* load_creatives: ORDER BY created_unix, id; open keeps the active ones.
Bug_Before(table, i, j) == i < j
Before(table, i, j) ==
  \/ table[i].created < table[j].created
  \/ table[i].created = table[j].created /\ i < j
CreationOrder(table) == {r \in (DOMAIN table) \X (DOMAIN table) : Before(table, r[1], r[2])}
Bug_AllRows(table) == Listed(DOMAIN table, CreationOrder(table))
ActivePool(table) == Listed({i \in DOMAIN table : table[i].active}, CreationOrder(table))

\* open: an empty table gets the house ads, and they are the pool.
SeededRows == [i \in Range(House) |-> Row(now)]
OpenedRows(table) == IF DOMAIN table = {} THEN SeededRows ELSE table
OpenedPool(table) == IF DOMAIN table = {} THEN House ELSE ActivePool(table)

Init ==
  /\ now = 0 /\ top = 0
  /\ rows = SeededRows /\ pool = House
  /\ clicks = 0 /\ clicksRow = 0
  /\ ads = <<>> /\ featured = 0 /\ shown = [i \in Ids |-> 0]
  /\ acked = Range(House) /\ removed = {} /\ unsaved = {} /\ early = {} /\ clickLost = FALSE
  /\ clicked = 0 /\ restarts = 0

-----------------------------------------------------------------------------
Tick ==
  /\ now < MaxTime /\ now' = now + 1
  /\ top' = IF now' > top THEN now' ELSE top
  /\ UNCHANGED <<server, daemon, acked, removed, unsaved, early, clickLost, clicked, restarts>>
\* The system steps the clock back.
ClockBack ==
  /\ now' \in 0..(now - 1)
  /\ UNCHANGED <<top, server, daemon, acked, removed, unsaved, early, clickLost, clicked, restarts>>

\* The backend starts again on the tables it finds.
Reopened(table) ==
  /\ restarts < MaxRestarts
  /\ restarts' = restarts + 1
  /\ rows' = OpenedRows(table) /\ pool' = OpenedPool(table)
  /\ clicks' = clicksRow
  /\ unsaved' = {} /\ early' = {} /\ clickLost' = FALSE
  /\ UNCHANGED <<clock, clicksRow, daemon, clicked>>
Restart == Reopened(rows) /\ UNCHANGED <<acked, removed>>

Fresh == Ids \ (acked \cup unsaved)
AdminCreate(id) ==
  /\ id \in Fresh
  /\ rows' = WithRow(id) /\ pool' = Append(pool, id)
  /\ acked' = acked \cup {id}
  /\ early' = IF now < top THEN early \cup {id} ELSE early
  /\ UNCHANGED <<clock, clicks, clicksRow, daemon, removed, unsaved, clickLost, clicked, restarts>>
\* insert_creative fails: the ad is served all the same.
AdminCreateUnsaved(id) ==
  /\ id \in Fresh
  /\ pool' = Append(pool, id)
  /\ acked' = acked \cup {id} /\ unsaved' = unsaved \cup {id}
  /\ UNCHANGED <<clock, rows, clicks, clicksRow, daemon>>
  /\ UNCHANGED <<removed, early, clickLost, clicked, restarts>>
AdminCreateCrash(id) ==
  /\ id \in Fresh
  /\ Reopened(WithRow(id))
  /\ acked' = acked \cup {id} /\ UNCHANGED removed

\* retain: the ads but one, in the order they are in.
Retained(list, id) ==
  LET kept == Listed({k \in DOMAIN list : list[k] # id},
                     {r \in (DOMAIN list) \X (DOMAIN list) : r[1] < r[2]})
  IN  [n \in DOMAIN kept |-> list[kept[n]]]

\* No active row of that id, or a failed statement: 404 and no change.
AdminDelete(id) ==
  /\ IsActive(id)
  /\ rows' = WithoutRow(id) /\ pool' = Retained(pool, id)
  /\ removed' = removed \cup {id}
  /\ UNCHANGED <<clock, clicks, clicksRow, daemon>>
  /\ UNCHANGED <<acked, unsaved, early, clickLost, clicked, restarts>>
AdminDeleteCrash(id) ==
  /\ IsActive(id)
  /\ Reopened(WithoutRow(id))
  /\ removed' = removed \cup {id} /\ UNCHANGED acked

\* click: a code of the pool is counted, with the counter's new value stored;
\* any other goes to the seeded ad's page, uncounted.
Bug_CounterAddsOne(value) == clicksRow + 1
StoredClicks(value) == value
Click(code) ==
  /\ clicked < MaxClicks /\ clicked' = clicked + 1
  /\ IF code \in Range(pool)
       THEN /\ clicks' = clicks + 1
            /\ \/ clicksRow' = StoredClicks(clicks') /\ clickLost' = FALSE
               \/ UNCHANGED clicksRow /\ clickLost' = TRUE
       ELSE UNCHANGED <<clicks, clicksRow, clickLost>>
  /\ UNCHANGED <<clock, rows, pool, daemon, acked, removed, unsaved, early, restarts>>

-----------------------------------------------------------------------------
\* serve: the pool and a primary, which is the seeded ad when the pool is empty.
Primary == IF pool # <<>> THEN Head(pool) ELSE Head(House)
\* serve_creatives: the pool, or the primary alone when it is empty.
Served == IF pool # <<>> THEN pool ELSE <<Primary>>

\* write_status_cache and featured_ad: the next ad in turn.
FeaturedAd(list, index) == list[(index % Len(list)) + 1]
Bug_NextFeatured(index) == index + 2
NextFeatured(index) == index + 1
WritesCache(list, index, counts) ==
  /\ featured' = NextFeatured(index)
  /\ shown' = [counts EXCEPT ![FeaturedAd(list, index)] = @ + 1]

DaemonStart ==
  /\ ads' = Served
  /\ WritesCache(Served, 0, [i \in Ids |-> 0])
  /\ UNCHANGED <<clock, server, acked, removed, unsaved, early, clickLost, clicked, restarts>>
\* The backend does not answer: no ads, and nothing rotates.
DaemonStartOffline ==
  /\ ads' = <<>> /\ featured' = 0 /\ shown' = [i \in Ids |-> 0]
  /\ UNCHANGED <<clock, server, acked, removed, unsaved, early, clickLost, clicked, restarts>>
\* Each session's heartbeat, and each Stop that earned, rewrites the cache.
CacheRefresh ==
  /\ ads # <<>> /\ featured < MaxWrites
  /\ WritesCache(ads, featured, shown)
  /\ UNCHANGED <<clock, server, ads, acked, removed, unsaved, early, clickLost, clicked, restarts>>

Next ==
  \/ Tick \/ ClockBack \/ Restart \/ DaemonStart \/ DaemonStartOffline \/ CacheRefresh
  \/ \E id \in Ids :
       \/ AdminCreate(id) \/ AdminCreateUnsaved(id) \/ AdminCreateCrash(id)
       \/ AdminDelete(id) \/ AdminDeleteCrash(id)
       \/ Click(id)
Spec == Init /\ [][Next]_vars

-----------------------------------------------------------------------------
(* PROPERTIES *)

\* Memory and table agree after any creations, deletions, crashes and restarts:
\* the ads served are the active rows and the ads whose insert failed, each
\* once (main.rs open, admin_create_creative, admin_delete_creative).
PoolMatchesTable ==
  /\ Range(pool) = {i \in DOMAIN rows : rows[i].active} \cup unsaved
  /\ IsInjective(pool)

\* An ad taken down never comes back, whatever crashes and restarts follow, and
\* not by seeding the table again; only the seeded primary is still served, when
\* every ad has been taken down (db.rs delete_creative; main.rs open, serve).
TakenDownStaysDown == pool # <<>> => removed \cap Range(Served) = {}

\* A restart keeps the order of rotation.  Only an ad created in the same
\* second as an older one, or since the last start while the clock was behind
\* a second it had shown, may move before it (db.rs load_creatives: "so [...]
\* the serving rotation are stable").
RestartKeepsRotation ==
  [][restarts' # restarts =>
       \A i, j \in DOMAIN pool : \A k, l \in DOMAIN pool' :
         /\ i < j /\ pool[i] = pool'[k] /\ pool[j] = pool'[l]
         => \/ k < l
            \/ rows[pool[i]].created = rows[pool[j]].created
            \/ pool[j] \in early]_vars

\* The stored click counter lags behind only while its last write failed: the
\* next click stores the value, not an increment (main.rs click, db.rs kv_set).
ClickCountHeals == clicksRow # clicks => clickLost

\* However many sessions' heartbeats and Stops turn the rotation, each of the
\* daemon's ads is cached as often as any other, give or take one (spnrd main.rs
\* featured_ad).
ShownEvenly ==
  \A i, j \in DOMAIN ads : shown[ads[i]] - shown[ads[j]] \in -1..1
=============================================================================
