------------------------------ MODULE Discovery ------------------------------
(***************************************************************************)
(* How a vtgate finds its tablets.  The TopologyWatcher polls the topology *)
(* and tells the HealthCheck which tablets to add, remove and replace.     *)
(* The HealthCheck runs a goroutine, checkConn, per tablet, which reports  *)
(* to the TabletStatsCache from which queries are routed.                  *)
(*                                                                         *)
(* One keyspace and shard.  A tablet has an alias and a key, the address   *)
(* under which the HealthCheck registers it.  The replication lag of the   *)
(* replicas is low: LagFilter has the rest.                                *)
(***************************************************************************)
EXTENDS Naturals, FiniteSets

CONSTANTS
  Aliases, Addrs,
  RemoteAliases,  \* in a cell with another alias than the cell of the vtgate
  CheckConns,     \* the goroutines that may run at a time
  MaxLoads,       \* bound on the polls that find a change
  MaxReparent,    \* bound on the reparent timestamps
  Nowhere

VARIABLES
  known,     \* TopologyWatcher.tablets: the key of each alias
  loads,     \* the polls so far
  tasks,     \* the calls to the HealthCheck that are under way
  health,    \* HealthCheckImpl.addrToHealth
  hcClosed,  \* Close: "open", "closing" or "closed"
  check,     \* the checkConn goroutines
  all,       \* tabletStatsCacheEntry.all of each type
  healthy,   \* tabletStatsCacheEntry.healthy of the master
  reported,  \* history: the keys that reported a master since there is one
  actual,    \* what each tablet says of itself
  crossed,   \* history: the keys with calls to remove and to add under way
  raced      \* history: the keys removed or added during an update

watcherVars == <<known, loads, tasks, crossed>>
statsCacheVars == <<all, healthy, reported>>
discoveryVars == <<watcherVars, health, hcClosed, check, statsCacheVars, actual, raced>>

StatsTypes == {"UNKNOWN", "MASTER", "REPLICA"}

\* TabletStats.  good: Serving and no LastError.
Stats ==
  [key : Addrs, alias : Aliases, type : StatsTypes, time : 0..MaxReparent,
   good : BOOLEAN, up : BOOLEAN]

\* tabletHealth, with the goroutine it is of, and healthy[0].
Health == [conn : CheckConns, stats : Stats, up : BOOLEAN]
KeptMaster == [stats : Stats, same : BOOLEAN]

\* Nowhere is none of the values it takes the place of.
ASSUME DiscoveryAssumption ==
  /\ MaxReparent \in Nat
  /\ Nowhere \notin Aliases /\ Nowhere \notin Addrs
  /\ Nowhere \notin Stats /\ Nowhere \notin Health /\ Nowhere \notin KeptMaster

Idle == [step |-> "free"]

\* The steps of checkConn.  run: in a stream or between two.  In updateHealth:
\* lock, then down, the event for the old type, then send.
Checking == {c \in CheckConns : check[c].step # "free"}
On(k) == {c \in Checking : check[c].stats.key = k}

\* The calls of the watcher: deleteConn of del, then AddTablet of add at key.
\* sync: loadTablets waits for it.
Task(of, del, add, key) ==
  [of |-> of, del |-> del, add |-> add, key |-> key, sync |-> del = Nowhere, load |-> loads]
Pending(k) == \E t \in tasks : k \in {t.del, t.key}

DiscoveryTypeOK ==
  /\ known \in [Aliases -> Addrs \cup {Nowhere}]
  /\ loads \in 0..MaxLoads
  /\ \A k \in Addrs : health[k] \in Health \cup {Nowhere}
  /\ hcClosed \in {"open", "closing", "closed"}
  /\ \A c \in Checking : check[c].stats \in Stats
  /\ \A type \in StatsTypes, k \in Addrs : all[type][k] \in Stats \cup {Nowhere}
  /\ healthy \in KeptMaster \cup {Nowhere}
  /\ crossed \subseteq Addrs /\ raced \subseteq Addrs /\ reported \subseteq Addrs

DiscoveryInit ==
  /\ known = [a \in Aliases |-> Nowhere] /\ loads = 0 /\ tasks = {} /\ crossed = {}
  /\ health = [k \in Addrs |-> Nowhere] /\ hcClosed = "open"
  /\ check = [c \in CheckConns |-> Idle]
  /\ all = [type \in StatsTypes |-> [k \in Addrs |-> Nowhere]] /\ healthy = Nowhere
  /\ reported = {}
  /\ actual = [k \in Addrs |-> [type |-> "REPLICA", time |-> 0]]
  /\ raced = {}
-----------------------------------------------------------------------------
(* TopologyWatcher.loadTablets finds new; an alias whose record could not  *)
(* be read is missing from it.                                             *)
Listed(m) == {a \in Aliases : m[a] # Nowhere}
Fresh(new) == Listed(new) \ Listed(known)
SameKey(k) == {b \in Listed(known) : known[b] = k}

Additions(new) ==
  {Task(a, Nowhere, a, new[a]) : a \in {a \in Fresh(new) : SameKey(new[a]) = {}}}

Replacements(new) ==
  (UNION {{Task(b, new[a], a, new[a]) : b \in SameKey(new[a])} : a \in Fresh(new)})
  \cup {Task(a, known[a], a, new[a]) :
          a \in {a \in Listed(new) \cap Listed(known) : known[a] # new[a]}}

Removals(new) ==
  {Task(b, known[b], Nowhere, Nowhere) :
     b \in Listed(known) \ (Listed(new) \cup {t.of : t \in Replacements(new)})}

loadTablets ==
  /\ loads < MaxLoads /\ loads' = loads + 1
  /\ \A t \in tasks : ~t.sync
  /\ \E new \in [Aliases -> Addrs \cup {Nowhere}] :
       /\ new # known /\ known' = new
       /\ tasks' = tasks \cup Additions(new) \cup Replacements(new) \cup Removals(new)
       /\ crossed' = crossed \cup
            {k \in Addrs : /\ \E t \in tasks' : t.del = k /\ t.key # k
                          /\ \/ \E a \in Aliases : new[a] = k
                             \/ \E t \in tasks' : t.key = k}
  /\ UNCHANGED <<health, hcClosed, check, statsCacheVars, actual, raced>>

(* deleteConn, in a goroutine of RemoveTablet or ReplaceTablet. *)
deleteConn(t) ==
  LET k == t.del
  IN  /\ k # Nowhere
      /\ tasks' = (tasks \ {t}) \cup
                    (IF t.add = Nowhere THEN {} ELSE {[t EXCEPT !.del = Nowhere]})
      /\ IF health[k] = Nowhere THEN UNCHANGED <<health, check, raced>>
         ELSE LET c == health[k].conn
              IN  /\ health' = [health EXCEPT ![k] = Nowhere]
                  /\ check' = [check EXCEPT ![c].cancelled = TRUE]
                  /\ raced' = IF check[c].step = "lock" THEN raced \cup {k} ELSE raced
      /\ UNCHANGED <<known, loads, crossed, hcClosed, statsCacheVars, actual>>

(* AddTablet: a closed HealthCheck and a key that is there ignore it. *)
AddTablet(t) ==
  LET k == t.key
      stats == [key |-> k, alias |-> t.add, type |-> "UNKNOWN", time |-> 0,
                good |-> FALSE, up |-> TRUE]
  IN  /\ t.del = Nowhere
      /\ tasks' = tasks \ {t}
      /\ IF hcClosed # "open" \/ health[k] # Nowhere THEN UNCHANGED <<health, check, raced>>
         ELSE LET c == CHOOSE c \in CheckConns : c \notin Checking
              IN
                /\ Checking # CheckConns
                /\ health' = [health EXCEPT ![k] = [conn |-> c, stats |-> stats, up |-> FALSE]]
                /\ check' = [check EXCEPT ![c] =
                     [step |-> "lock", stats |-> stats, old |-> Nowhere, linked |-> FALSE,
                      cancelled |-> FALSE]]
                /\ raced' = IF On(k) = {} THEN raced ELSE raced \cup {k}
      /\ UNCHANGED <<known, loads, crossed, hcClosed, statsCacheVars, actual>>
-----------------------------------------------------------------------------
(* The tablet is promoted or demoted. *)
Promote(k) ==
  /\ actual[k].type = "REPLICA"
  /\ \E time \in 1..MaxReparent :
       /\ \A q \in Addrs : actual[q].time < time
       /\ actual' = [actual EXCEPT ![k] = [type |-> "MASTER", time |-> time]]
  /\ UNCHANGED <<watcherVars, health, hcClosed, check, statsCacheVars, raced>>

Demote(k) ==
  /\ actual[k].type = "MASTER"
  /\ actual' = [actual EXCEPT ![k].type = "REPLICA"]
  /\ UNCHANGED <<watcherVars, health, hcClosed, check, statsCacheVars, raced>>

\* A goroutine calls updateHealth with its stats.
Update(c, stats, linked) ==
  /\ check' = [check EXCEPT ![c].step = "lock", ![c].stats = stats, ![c].linked = linked]
  /\ UNCHANGED <<watcherVars, health, hcClosed, statsCacheVars, actual, raced>>

(* processResponse, unless the context is done. *)
processResponse(c) ==
  /\ check[c].step = "run" /\ ~check[c].cancelled
  /\ \E good \in BOOLEAN :
       LET tablet == actual[check[c].stats.key]
       IN  Update(c, [check[c].stats EXCEPT !.type = tablet.type, !.time = tablet.time,
                                            !.good = good], TRUE)

(* The stream fails or times out. *)
streamFails(c) ==
  /\ check[c].step = "run"
  /\ Update(c, [check[c].stats EXCEPT !.good = FALSE], FALSE)

(* finalizeConn, once the context is done. *)
finalizeConn(c) ==
  /\ check[c].step = "run" /\ check[c].cancelled
  /\ Update(c, [check[c].stats EXCEPT !.good = FALSE, !.up = FALSE], FALSE)

\* Faulty variant: no event for the old type.
lockHealthOnly(c) ==
  LET stats == check[c].stats
  IN  /\ check[c].step = "lock"
      /\ check' = [check EXCEPT ![c].step = "send"]
      /\ health' = IF health[stats.key] = Nowhere THEN health
                   ELSE [health EXCEPT ![stats.key].stats = stats,
                                       ![stats.key].up = check[c].linked]
      /\ UNCHANGED <<watcherVars, hcClosed, statsCacheVars, actual, raced>>

(* updateHealth with the lock: the entry of the key may be gone, or belong *)
(* to another goroutine by now.                                            *)
lockHealth(c) ==
  LET stats == check[c].stats
      k == stats.key
      old == health[k].stats
  IN  /\ check[c].step = "lock"
      /\ IF health[k] = Nowhere
         THEN check' = [check EXCEPT ![c].step = "send"] /\ UNCHANGED health
         ELSE /\ health' = [health EXCEPT ![k].stats = stats, ![k].up = check[c].linked]
              /\ check' = IF old.type \in {"UNKNOWN", stats.type}
                          THEN [check EXCEPT ![c].step = "send"]
                          ELSE [check EXCEPT ![c].step = "down", ![c].old = old]
      /\ UNCHANGED <<watcherVars, hcClosed, statsCacheVars, actual, raced>>
-----------------------------------------------------------------------------
(* updateHealthyMapForMaster.  same: healthy[0] and the entry of all are   *)
(* one object, which an update of the entry changes in place.              *)
HealthyMaster(stats, isNew) ==
  LET now == IF healthy # Nowhere /\ healthy.same /\ healthy.stats.key = stats.key /\ stats.up
             THEN [healthy EXCEPT !.stats = stats] ELSE healthy
  IN  IF stats.up
      THEN IF now # Nowhere /\ stats.time < now.stats.time THEN now
           ELSE [stats |-> stats, same |-> isNew]
      ELSE IF now # Nowhere /\ now.stats.key = stats.key THEN Nowhere ELSE now

Trivial(old, stats) == old.good /\ stats.good /\ stats.type # "MASTER"

(* TabletStatsCache.StatsUpdate. *)
StatsUpdate(stats) ==
  LET old == all[stats.type][stats.key]
      entry == IF ~stats.up THEN Nowhere
               ELSE IF old # Nowhere /\ Trivial(old, stats) THEN old ELSE stats
  IN  IF stats.type # "MASTER" /\ stats.alias \in RemoteAliases THEN UNCHANGED statsCacheVars
      ELSE IF old = Nowhere /\ ~stats.up THEN UNCHANGED statsCacheVars
      ELSE /\ all' = [all EXCEPT ![stats.type][stats.key] = entry]
           /\ IF stats.type # "MASTER" THEN UNCHANGED <<healthy, reported>>
              ELSE /\ healthy' = HealthyMaster(stats, old = Nowhere)
                   /\ reported' = IF healthy' = Nowhere THEN {} ELSE reported \cup {stats.key}

(* The event for the old type. *)
sendDown(c) ==
  /\ check[c].step = "down"
  /\ StatsUpdate([check[c].old EXCEPT !.up = FALSE])
  /\ check' = [check EXCEPT ![c].step = "send", ![c].old = Nowhere]
  /\ UNCHANGED <<watcherVars, health, hcClosed, actual, raced>>

(* The deferred call; finalizeConn was the last of the goroutine. *)
sendUpdate(c) ==
  /\ check[c].step = "send"
  /\ StatsUpdate(check[c].stats)
  /\ check' = [check EXCEPT ![c] = IF check[c].stats.up THEN [@ EXCEPT !.step = "run"] ELSE Idle]
  /\ UNCHANGED <<watcherVars, health, hcClosed, actual, raced>>

(* HealthCheckImpl.Close *)
CloseHealthCheck ==
  /\ hcClosed = "open" /\ hcClosed' = "closing"
  /\ check' = [c \in CheckConns |->
       IF \E k \in Addrs : health[k] # Nowhere /\ health[k].conn = c
       THEN [check[c] EXCEPT !.cancelled = TRUE] ELSE check[c]]
  /\ raced' = raced \cup {k \in Addrs : health[k] # Nowhere /\ check[health[k].conn].step = "lock"}
  /\ health' = [k \in Addrs |-> Nowhere]
  /\ UNCHANGED <<watcherVars, statsCacheVars, actual>>

HealthCheckCloses ==
  /\ hcClosed = "closing" /\ Checking = {}
  /\ hcClosed' = "closed"
  /\ UNCHANGED <<watcherVars, health, check, statsCacheVars, actual, raced>>

DiscoveryNext ==
  \/ loadTablets \/ CloseHealthCheck \/ HealthCheckCloses
  \/ \E t \in tasks : deleteConn(t) \/ AddTablet(t)
  \/ \E k \in Addrs : Promote(k) \/ Demote(k)
  \/ \E c \in CheckConns :
       \/ processResponse(c) \/ streamFails(c) \/ finalizeConn(c)
       \/ lockHealth(c) \/ sendDown(c) \/ sendUpdate(c)

DiscoverySpec == DiscoveryInit /\ [][DiscoveryNext]_discoveryVars
-----------------------------------------------------------------------------
\* A tablet the watcher knows is checked once its calls are done, and one it
\* does not know is not, unless the tablet came or went while the opposite call
\* for it was under way.
KnownIsChecked ==
  \A k \in Addrs \ crossed : ~Pending(k) /\ hcClosed = "open" =>
    (SameKey(k) # {} <=> health[k] # Nowhere)

CheckedBy(k) == {c \in On(k) : health[k] # Nowhere /\ health[k].conn = c}
Settled(k) == On(k) = CheckedBy(k) /\ \A c \in On(k) : check[c].step = "run"

\* Once the updates of a tablet are through, the cache has it under the type
\* it last reported and no other, and routes to it only with a connection.  A
\* tablet that was removed in the middle of an update, or added again before
\* the goroutine of its key was gone, may be left in the cache for ever.
CacheFollows ==
  \A k \in Addrs \ raced : Settled(k) =>
    /\ \A type \in {"MASTER", "REPLICA"} : all[type][k] # Nowhere =>
         health[k] # Nowhere /\ health[k].stats.type = type
    /\ all["REPLICA"][k] # Nowhere /\ all["REPLICA"][k].good => health[k].up

\* The master to route to is one the cache has, and the latest of those that
\* reported since it has one, unless two goroutines may have reported on a key.
\* When the master goes, one that is earlier than another may report first.
MasterIsLatest ==
  healthy # Nowhere =>
    /\ all["MASTER"][healthy.stats.key] # Nowhere
    /\ raced = {} => \A k \in reported : all["MASTER"][k] # Nowhere =>
         all["MASTER"][k].time <= healthy.stats.time

\* No update of the cache follows the return of Close.
CloseIsFinal == hcClosed = "closed" => Checking = {}

DiscoveryAgrees == KnownIsChecked /\ CacheFollows /\ MasterIsLatest /\ CloseIsFinal
=============================================================================
