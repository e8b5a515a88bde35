--------------------------- MODULE DiscoveryProofs ---------------------------
(***************************************************************************)
(* For any aliases, addresses, goroutines, polls and timestamps: the health*)
(* check of a vtgate has the tablets that the watcher knows, and the cache *)
(* has what they said, unless calls or updates overlapped.                 *)
(*                                                                         *)
(* For any tablets and lags: the replicas that are routed to lag least.    *)
(***************************************************************************)
EXTENDS Discovery, LagFilter, FiniteSetTheorems, TLAPS

(* The backends that are tried on a leaf, and the time they may take.      *)
USE ZenonT(20), SMTT(30)

-----------------------------------------------------------------------------
(* Discovery.                                                              *)

Goroutine ==
  [step : {"run", "lock", "down", "send"}, stats : Stats, old : Stats \cup {Nowhere},
   linked : BOOLEAN, cancelled : BOOLEAN]

TaskCall ==
  [of : Aliases, del : Addrs \cup {Nowhere}, add : Aliases \cup {Nowhere},
   key : Addrs \cup {Nowhere}, sync : BOOLEAN, load : Nat]

DiscoveryTypes ==
  /\ known \in [Aliases -> Addrs \cup {Nowhere}] /\ loads \in Nat
  /\ tasks \subseteq TaskCall
  /\ health \in [Addrs -> Health \cup {Nowhere}] /\ hcClosed \in {"open", "closing", "closed"}
  /\ check \in [CheckConns -> Goroutine \cup {Idle}]
  /\ all \in [StatsTypes -> [Addrs -> Stats \cup {Nowhere}]]
  /\ healthy \in KeptMaster \cup {Nowhere} /\ reported \subseteq Addrs
  /\ actual \in [Addrs -> [type : {"MASTER", "REPLICA"}, time : 0..MaxReparent]]

\* A call that only deletes k.
Deletes(t, k) == t.del = k /\ t.key # k

\* What the calls under way are about to do with a key that was not crossed.
CallsOn(k) ==
  /\ \A t \in tasks : Deletes(t, k) => SameKey(k) = {} /\ \A u \in tasks : u.key # k
  /\ \A t \in tasks : t.key = k => SameKey(k) # {}
  /\ SameKey(k) # {} => health[k] # Nowhere \/ \E t \in tasks : t.key = k
  /\ SameKey(k) = {} => health[k] = Nowhere \/ \E t \in tasks : Deletes(t, k)

WatchInv ==
  /\ \A t \in tasks : IF t.add = Nowhere THEN t.del # Nowhere /\ t.key = Nowhere
                       ELSE t.key # Nowhere
  /\ \A k \in Addrs \ crossed : hcClosed = "open" => CallsOn(k)

\* An entry has a goroutine that was not cancelled, and no other one is.
EntryOk(k) ==
  health[k] # Nowhere =>
    /\ health[k].conn \in On(k) /\ ~check[health[k].conn].cancelled
    /\ health[k].stats.key = k

GoroutineOk(c) ==
  LET stats == check[c].stats
  IN  /\ ~check[c].cancelled => health[stats.key] # Nowhere /\ health[stats.key].conn = c
      /\ ~stats.up => check[c].cancelled
      /\ stats.good => check[c].linked
      /\ stats.time <= actual[stats.key].time
      /\ check[c].step = "down" => check[c].old # Nowhere /\ check[c].old.key = stats.key

ConnInv ==
  /\ \A k \in Addrs : EntryOk(k)
  /\ \A c \in Checking : GoroutineOk(c)
  /\ hcClosed = "closed" => Checking = {}

\* The type under which the cache may have the key of a goroutine.
Base(c) ==
  LET k == check[c].stats.key
  IN  IF check[c].step = "down" THEN check[c].old.type
      ELSE IF check[c].step = "lock" /\ health[k] # Nowhere THEN health[k].stats.type
      ELSE check[c].stats.type

\* The goroutine of a key that was not raced, and what the cache has of it.
CacheOf(k, c) ==
  /\ On(k) = {c}
  /\ \A type \in {"MASTER", "REPLICA"} : all[type][k] # Nowhere => type = Base(c)
  /\ check[c].stats.alias \in RemoteAliases => all["REPLICA"][k] = Nowhere
  /\ check[c].step = "down" => check[c].old.alias = check[c].stats.alias
  /\ health[k] # Nowhere => health[k].stats.alias = check[c].stats.alias
  /\ health[k] # Nowhere /\ check[c].step # "lock" =>
       health[k].stats = check[c].stats /\ health[k].up = check[c].linked
  /\ check[c].step = "run" /\ all["REPLICA"][k] # Nowhere /\ all["REPLICA"][k].good =>
       check[c].linked
  /\ healthy # Nowhere /\ healthy.stats.key = k => healthy.stats.time <= check[c].stats.time

CacheKey(k) ==
  /\ On(k) = {} => all["MASTER"][k] = Nowhere /\ all["REPLICA"][k] = Nowhere
  /\ \A c \in On(k) : CacheOf(k, c)

CacheInv == \A k \in Addrs \ raced : CacheKey(k)

MasterInv ==
  /\ healthy = Nowhere => reported = {}
  /\ MasterIsLatest

DiscoveryInv == DiscoveryTypes /\ WatchInv /\ ConnInv /\ CacheInv /\ MasterInv

-----------------------------------------------------------------------------
(* Records.                                                                *)

LEMMA StatsFacts ==
  ASSUME NEW s \in Stats
  PROVE  /\ s.key \in Addrs /\ s.alias \in Aliases /\ s.type \in StatsTypes /\ s.time \in Nat
         /\ s.good \in BOOLEAN /\ s.up \in BOOLEAN /\ s # Nowhere
BY DiscoveryAssumption DEF Stats

LEMMA GoroutineFacts ==
  ASSUME DiscoveryTypes, NEW c \in CheckConns
  PROVE  /\ c \in Checking => check[c] \in Goroutine
         /\ c \notin Checking => check[c] = Idle
         /\ c \in Checking <=> check[c].step # "free"
         /\ c \in Checking => check[c].stats \in Stats
<1>1. check[c] \in Goroutine => check[c].step # "free" /\ check[c].stats \in Stats
  BY DEF Goroutine
<1>2. Idle.step = "free"
  BY DEF Idle
<1>3. check[c] \in Goroutine \cup {Idle}
  BY DEF DiscoveryTypes
<1> QED BY <1>1, <1>2, <1>3 DEF Checking

\* A goroutine goes on, on the same key.
LEMMA Goes ==
  ASSUME DiscoveryTypes, NEW c \in Checking, NEW g \in Goroutine,
         g.stats.key = check[c].stats.key, check' = [check EXCEPT ![c] = g]
  PROVE  /\ check' \in [CheckConns -> Goroutine \cup {Idle}]
         /\ check'[c] = g /\ \A d \in CheckConns \ {c} : check'[d] = check[d]
         /\ Checking' = Checking /\ \A k : On(k)' = On(k)
<1>0. c \in CheckConns
  BY DEF Checking
<1>1. check' \in [CheckConns -> Goroutine \cup {Idle}]
  BY <1>0 DEF DiscoveryTypes
<1>2. check'[c] = g /\ \A d \in CheckConns \ {c} : check'[d] = check[d]
  BY <1>0 DEF DiscoveryTypes
<1>3. g.step # "free"
  BY DEF Goroutine
<1>4. Checking' = Checking
  BY <1>0, <1>2, <1>3 DEF Checking
<1>5. \A k : On(k)' = On(k)
  BY <1>2, <1>4 DEF On, Checking
<1> QED BY <1>1, <1>2, <1>4, <1>5

LEMMA DiscoveryStarts ==
  DiscoveryInit => DiscoveryInv
<1> SUFFICES ASSUME DiscoveryInit PROVE DiscoveryInv
  OBVIOUS
<1>1. Checking = {} /\ \A k : On(k) = {}
  BY DEF DiscoveryInit, Checking, On, Idle
<1>2. \A k : SameKey(k) = {}
  BY DEF DiscoveryInit, SameKey, Listed
<1>3. DiscoveryTypes
  <2>1. actual \in [Addrs -> [type : {"MASTER", "REPLICA"}, time : 0..MaxReparent]]
    BY DiscoveryAssumption, SMT DEF DiscoveryInit
  <2> QED BY <2>1 DEF DiscoveryInit, DiscoveryTypes
<1>4. WatchInv
  BY <1>2 DEF DiscoveryInit, WatchInv, CallsOn
<1>5. ConnInv
  BY <1>1 DEF DiscoveryInit, ConnInv, EntryOk
<1>6. CacheInv
  BY <1>1 DEF DiscoveryInit, CacheInv, CacheKey, StatsTypes
<1>7. MasterInv
  BY DEF DiscoveryInit, MasterInv, MasterIsLatest
<1> QED BY <1>3, <1>4, <1>5, <1>6, <1>7 DEF DiscoveryInv

-----------------------------------------------------------------------------
(* The watcher.                                                            *)

LEMMA TaskFacts ==
  ASSUME DiscoveryTypes, NEW of \in Aliases, NEW del \in Addrs \cup {Nowhere},
         NEW add \in Aliases \cup {Nowhere}, NEW key \in Addrs \cup {Nowhere}
  PROVE  /\ Task(of, del, add, key) \in TaskCall
         /\ Task(of, del, add, key).of = of /\ Task(of, del, add, key).del = del
         /\ Task(of, del, add, key).add = add /\ Task(of, del, add, key).key = key
BY DEF Task, TaskCall, DiscoveryTypes

NewTasks(new) == Additions(new) \cup Replacements(new) \cup Removals(new)

LEMMA NewTaskTypes ==
  ASSUME DiscoveryTypes, NEW new \in [Aliases -> Addrs \cup {Nowhere}], NEW t \in NewTasks(new)
  PROVE  /\ t \in TaskCall
         /\ IF t.add = Nowhere THEN t.del \in Addrs /\ t.key = Nowhere
            ELSE t.add \in Aliases /\ t.key \in Addrs /\ t.key = new[t.add]
<1>0. known \in [Aliases -> Addrs \cup {Nowhere}]
  BY DEF DiscoveryTypes
<1>1. CASE t \in Additions(new)
  <2>1. PICK a \in Fresh(new) : t = Task(a, Nowhere, a, new[a])
    BY <1>1 DEF Additions
  <2>2. a \in Aliases /\ new[a] \in Addrs
    BY DEF Fresh, Listed
  <2> QED BY <2>1, <2>2, TaskFacts, DiscoveryAssumption, SMT
<1>2. CASE t \in Replacements(new)
  <2>1. CASE \E a \in Fresh(new) : \E b \in SameKey(new[a]) : t = Task(b, new[a], a, new[a])
    <3>0. PICK a \in Fresh(new) : \E b \in SameKey(new[a]) : t = Task(b, new[a], a, new[a])
      BY <2>1
    <3>1. PICK b \in SameKey(new[a]) : t = Task(b, new[a], a, new[a])
      BY <3>0
    <3>2. a \in Aliases /\ new[a] \in Addrs /\ b \in Aliases
      BY DEF Fresh, Listed, SameKey
    <3> QED BY <3>1, <3>2, TaskFacts, DiscoveryAssumption, SMT
  <2>2. CASE \E a \in Listed(new) \cap Listed(known) : t = Task(a, known[a], a, new[a])
    <3>1. PICK a \in Listed(new) \cap Listed(known) : t = Task(a, known[a], a, new[a])
      BY <2>2
    <3>2. a \in Aliases /\ new[a] \in Addrs /\ known[a] \in Addrs
      BY <1>0 DEF Listed
    <3> QED BY <3>1, <3>2, TaskFacts, DiscoveryAssumption, SMT
  <2> QED BY <1>2, <2>1, <2>2 DEF Replacements
<1>3. CASE t \in Removals(new)
  <2>1. PICK b \in Listed(known) : t = Task(b, known[b], Nowhere, Nowhere)
    BY <1>3 DEF Removals
  <2>2. b \in Aliases /\ known[b] \in Addrs
    BY <1>0 DEF Listed
  <2> QED BY <2>1, <2>2, TaskFacts, DiscoveryAssumption, SMT
<1> QED BY <1>1, <1>2, <1>3 DEF NewTasks

\* A key that comes is added.
LEMMA ComesIsAdded ==
  ASSUME DiscoveryTypes, NEW new \in [Aliases -> Addrs \cup {Nowhere}], NEW k \in Addrs,
         SameKey(k) = {}, NEW a \in Aliases, new[a] = k
  PROVE  \E t \in NewTasks(new) : t.key = k
<1>0. known \in [Aliases -> Addrs \cup {Nowhere}] /\ k # Nowhere
  BY DiscoveryAssumption DEF DiscoveryTypes
<1>1. known[a] # k /\ a \in Listed(new)
  BY <1>0 DEF SameKey, Listed
<1>2. CASE a \in Fresh(new)
  <2>1. Task(a, Nowhere, a, new[a]) \in NewTasks(new)
    BY <1>2 DEF NewTasks, Additions
  <2>2. Task(a, Nowhere, a, new[a]).key = new[a]
    BY TaskFacts, SMT
  <2> QED BY <2>1, <2>2
<1>3. CASE a \notin Fresh(new)
  <2>1. a \in Listed(known) /\ known[a] \in Addrs
    BY <1>0, <1>1, <1>3 DEF Fresh, Listed
  <2>2. Task(a, known[a], a, new[a]) \in NewTasks(new)
    BY <1>1, <2>1 DEF NewTasks, Replacements
  <2> QED BY <2>1, <2>2, TaskFacts, SMT
<1> QED BY <1>2, <1>3

\* A key that goes is deleted.
LEMMA GoesIsDeleted ==
  ASSUME DiscoveryTypes, NEW new \in [Aliases -> Addrs \cup {Nowhere}], NEW k \in Addrs,
         SameKey(k) # {}, \A a \in Aliases : new[a] # k
  PROVE  \E t \in NewTasks(new) : Deletes(t, k)
<1>0. known \in [Aliases -> Addrs \cup {Nowhere}] /\ k # Nowhere
  BY DiscoveryAssumption DEF DiscoveryTypes
<1>1. PICK b \in Aliases : known[b] = k /\ b \in Listed(known)
  BY DEF SameKey, Listed
<1>2. CASE b \in Listed(new)
  <2>1. Task(b, known[b], b, new[b]) \in NewTasks(new) /\ new[b] \in Addrs
    BY <1>1, <1>2 DEF NewTasks, Replacements, Listed
  <2> QED BY <1>1, <2>1, TaskFacts, SMT DEF Deletes
<1>3. CASE b \notin Listed(new)
  <2>1. ASSUME NEW t \in Replacements(new) PROVE t.of # b
    <3>1. CASE \E a \in Fresh(new) : \E d \in SameKey(new[a]) : t = Task(d, new[a], a, new[a])
      <4>0. PICK a \in Fresh(new) : \E d \in SameKey(new[a]) : t = Task(d, new[a], a, new[a])
        BY <3>1
      <4>1. PICK d \in SameKey(new[a]) : t = Task(d, new[a], a, new[a])
        BY <4>0
      <4>2. a \in Aliases /\ new[a] \in Addrs /\ d \in Aliases /\ known[d] = new[a]
        BY DEF Fresh, Listed, SameKey
      <4>3. t.of = d
        BY <4>1, <4>2, TaskFacts, SMT
      <4> QED BY <1>1, <4>2, <4>3
    <3>2. CASE \E a \in Listed(new) \cap Listed(known) : t = Task(a, known[a], a, new[a])
      <4>1. PICK a \in Listed(new) \cap Listed(known) : t = Task(a, known[a], a, new[a])
        BY <3>2
      <4>2. a \in Aliases /\ new[a] \in Addrs /\ known[a] \in Addrs
        BY <1>0 DEF Listed
      <4>3. t.of = a
        BY <4>1, <4>2, TaskFacts, SMT
      <4> QED BY <1>3, <4>1, <4>3
    <3> QED BY <3>1, <3>2 DEF Replacements
  <2>2. Task(b, known[b], Nowhere, Nowhere) \in NewTasks(new)
    BY <1>1, <1>3, <2>1 DEF NewTasks, Removals
  <2>3. Task(b, k, Nowhere, Nowhere).del = k /\ Task(b, k, Nowhere, Nowhere).key = Nowhere
    BY DEF Task
  <2> QED BY <1>0, <1>1, <2>2, <2>3 DEF Deletes
<1> QED BY <1>2, <1>3

-----------------------------------------------------------------------------
(* The calls under way.                                                    *)

\* What the watcher knows and the keys with an entry are the same.
LEMMA WatchSame ==
  ASSUME WatchInv, tasks' = tasks, known' = known, crossed' = crossed,
         hcClosed' = "open" => hcClosed = "open" /\ \A k \in Addrs : health'[k] = Nowhere <=> health[k] = Nowhere
  PROVE  WatchInv'
<1>1. \A k : SameKey(k)' = SameKey(k)
  BY DEF SameKey, Listed
<1>2. ASSUME NEW k \in Addrs \ crossed, hcClosed' = "open"
      PROVE  CallsOn(k)'
  <2>1. CallsOn(k) /\ (health'[k] = Nowhere <=> health[k] = Nowhere)
    BY <1>2 DEF WatchInv
  <2> QED BY <1>1, <2>1 DEF CallsOn
<1> QED BY <1>2 DEF WatchInv

\* The entries and the goroutines are left alone by a poll.
LEMMA LoadWatches ==
  ASSUME DiscoveryTypes, WatchInv, loadTablets
  PROVE  WatchInv' /\ known' \in [Aliases -> Addrs \cup {Nowhere}] /\ loads' \in Nat /\ tasks' \subseteq TaskCall
<1>1. PICK new \in [Aliases -> Addrs \cup {Nowhere}] :
        /\ known' = new /\ tasks' = tasks \cup NewTasks(new)
        /\ crossed' = crossed \cup
             {k \in Addrs : /\ \E t \in tasks' : t.del = k /\ t.key # k
                           /\ \/ \E a \in Aliases : new[a] = k
                              \/ \E t \in tasks' : t.key = k}
  BY DEF loadTablets, NewTasks
<1>2. loads' \in Nat /\ tasks' \subseteq TaskCall /\ known' \in [Aliases -> Addrs \cup {Nowhere}]
  <2>1. loads' \in Nat
    BY SMT DEF loadTablets, DiscoveryTypes
  <2>2. tasks \subseteq TaskCall
    BY DEF DiscoveryTypes
  <2> QED BY <1>1, <2>1, <2>2, NewTaskTypes
<1>3. \A k \in Addrs : SameKey(k)' = {a \in Aliases : new[a] = k}
  BY <1>1, DiscoveryAssumption DEF SameKey, Listed
<1>4. \A t \in tasks' : IF t.add = Nowhere THEN t.del # Nowhere /\ t.key = Nowhere
                        ELSE t.key # Nowhere
  BY <1>1, NewTaskTypes, DiscoveryAssumption DEF WatchInv
<1>5. ASSUME NEW k \in Addrs \ crossed', hcClosed' = "open"
      PROVE  CallsOn(k)'
  <2>0. k \in Addrs \ crossed /\ hcClosed = "open" /\ CallsOn(k) /\ k # Nowhere
    BY <1>1, <1>5, DiscoveryAssumption DEF WatchInv, loadTablets
  <2>1. (\E t \in tasks' : Deletes(t, k)) => SameKey(k)' = {} /\ \A u \in tasks' : u.key # k
    BY <1>1, <1>3, <1>5 DEF Deletes
  <2>2. SameKey(k) # {} /\ SameKey(k)' = {} => \E t \in tasks' : Deletes(t, k)
    BY <1>1, <1>3, <2>0, GoesIsDeleted
  <2>3. ASSUME NEW t \in tasks', t.key = k PROVE SameKey(k)' # {}
    <3>1. CASE t \in tasks
      <4>1. SameKey(k) # {}
        BY <2>0, <2>3, <3>1 DEF CallsOn
      <4> QED BY <2>1, <2>2, <2>3, <4>1
    <3>2. CASE t \in NewTasks(new)
      <4>1. t.add \in Aliases /\ new[t.add] = k
        BY <2>0, <2>3, <3>2, NewTaskTypes
      <4> QED BY <1>3, <4>1
    <3> QED BY <1>1, <3>1, <3>2
  <2>4. SameKey(k)' # {} => health[k] # Nowhere \/ \E t \in tasks' : t.key = k
    <3>1. CASE SameKey(k) # {}
      BY <1>1, <2>0, <3>1 DEF CallsOn
    <3>2. CASE SameKey(k) = {}
      <4>1. ASSUME NEW a \in Aliases, new[a] = k PROVE \E t \in tasks' : t.key = k
        BY <1>1, <2>0, <3>2, <4>1, ComesIsAdded
      <4> QED BY <1>3, <4>1
    <3> QED BY <3>1, <3>2
  <2>5. SameKey(k)' = {} => health[k] = Nowhere \/ \E t \in tasks' : Deletes(t, k)
    BY <1>1, <2>0, <2>2 DEF CallsOn
  <2>6. health' = health
    BY DEF loadTablets
  <2> QED BY <2>1, <2>3, <2>4, <2>5, <2>6 DEF CallsOn
<1> QED BY <1>2, <1>4, <1>5 DEF WatchInv

\* A call ends its deletion of k, and there is no entry of k any more.
LEMMA DeleteWatches ==
  ASSUME DiscoveryTypes, WatchInv, NEW t \in tasks, deleteConn(t)
  PROVE  /\ WatchInv' /\ tasks' \subseteq TaskCall /\ t.del \in Addrs
<1>1. t \in TaskCall /\ t.del \in Addrs
  BY DEF DiscoveryTypes, TaskCall, deleteConn
<1> DEFINE u == [t EXCEPT !.del = Nowhere]
<1>2. u \in TaskCall /\ u.del = Nowhere /\ u.key = t.key /\ u.add = t.add
  BY <1>1 DEF TaskCall
<1> HIDE DEF u
<1>3. tasks' = (tasks \ {t}) \cup (IF t.add = Nowhere THEN {} ELSE {u})
  BY DEF deleteConn, u
<1>4. tasks' \subseteq TaskCall
  BY <1>2, <1>3 DEF DiscoveryTypes
<1>5. \A k : SameKey(k)' = SameKey(k)
  BY DEF SameKey, Listed, deleteConn
<1>6. \A k \in Addrs : health'[k] = (IF k = t.del THEN Nowhere ELSE health[k])
  BY <1>1 DEF deleteConn, DiscoveryTypes
<1>7. \A v \in tasks' : IF v.add = Nowhere THEN v.del # Nowhere /\ v.key = Nowhere
                        ELSE v.key # Nowhere
  BY <1>2, <1>3 DEF WatchInv
<1>8. ASSUME NEW k \in Addrs \ crossed', hcClosed' = "open"
      PROVE  CallsOn(k)'
  <2>0. k \in Addrs \ crossed /\ hcClosed = "open" /\ CallsOn(k) /\ k # Nowhere
    BY <1>8, DiscoveryAssumption DEF WatchInv, deleteConn
  <2>1. \A v \in tasks' : Deletes(v, k) => v \in tasks
    BY <1>2, <1>3, <2>0 DEF Deletes
  <2>2. (\E v \in tasks' : v.key = k) <=> (\E v \in tasks : v.key = k)
    BY <1>2, <1>3, <2>0 DEF WatchInv
  <2>3. ASSUME NEW v \in tasks', Deletes(v, k) PROVE SameKey(k) = {} /\ \A w \in tasks' : w.key # k
    BY <2>0, <2>1, <2>2, <2>3 DEF CallsOn
  <2>4. SameKey(k) # {} => health'[k] # Nowhere \/ \E v \in tasks' : v.key = k
    <3>1. CASE t.del # k
      BY <1>6, <2>0, <2>2, <3>1 DEF CallsOn
    <3>2. CASE t.del = k /\ t.key = k
      BY <2>2, <3>2
    <3>3. CASE t.del = k /\ t.key # k
      BY <2>0, <3>3 DEF CallsOn, Deletes
    <3> QED BY <3>1, <3>2, <3>3
  <2>5. SameKey(k) = {} => health'[k] = Nowhere \/ \E v \in tasks' : Deletes(v, k)
    <3>1. CASE t.del = k
      BY <1>6, <3>1
    <3>2. CASE t.del # k
      <4>1. \A v \in tasks : Deletes(v, k) => v \in tasks'
        BY <1>3, <3>2 DEF Deletes
      <4> QED BY <1>6, <2>0, <3>2, <4>1 DEF CallsOn
    <3> QED BY <3>1, <3>2
  <2>6. ASSUME NEW v \in tasks', v.key = k PROVE SameKey(k) # {}
    BY <2>0, <2>2, <2>6 DEF CallsOn
  <2> QED BY <1>5, <2>3, <2>4, <2>5, <2>6 DEF CallsOn
<1> QED BY <1>1, <1>4, <1>7, <1>8 DEF WatchInv

\* The record of a tablet that is added, its entry and its goroutine.
NewStats(t) ==
  [key |-> t.key, alias |-> t.add, type |-> "UNKNOWN", time |-> 0, good |-> FALSE, up |-> TRUE]
NewHealth(t, c) == [conn |-> c, stats |-> NewStats(t), up |-> FALSE]
NewGoroutine(t) ==
  [step |-> "lock", stats |-> NewStats(t), old |-> Nowhere, linked |-> FALSE, cancelled |-> FALSE]

LEMMA NewFacts ==
  ASSUME NEW t, t.key \in Addrs, t.add \in Aliases, NEW c \in CheckConns
  PROVE  /\ NewStats(t) \in Stats /\ NewStats(t).key = t.key /\ NewStats(t).alias = t.add
         /\ NewStats(t).type = "UNKNOWN" /\ NewStats(t).time = 0 /\ ~NewStats(t).good
         /\ NewStats(t).up
         /\ NewHealth(t, c) \in Health /\ NewHealth(t, c) # Nowhere /\ NewHealth(t, c).conn = c
         /\ NewHealth(t, c).stats = NewStats(t)
         /\ NewGoroutine(t) \in Goroutine /\ NewGoroutine(t).step = "lock"
         /\ NewGoroutine(t).stats = NewStats(t) /\ ~NewGoroutine(t).cancelled
<1>1. 0 \in 0..MaxReparent
  BY DiscoveryAssumption, SMT
<1>2. /\ NewStats(t) \in Stats /\ NewStats(t).key = t.key /\ NewStats(t).alias = t.add
      /\ NewStats(t).type = "UNKNOWN" /\ NewStats(t).time = 0 /\ ~NewStats(t).good
      /\ NewStats(t).up
  BY <1>1 DEF NewStats, Stats, StatsTypes
<1>3. /\ NewHealth(t, c) \in Health /\ NewHealth(t, c).conn = c
      /\ NewHealth(t, c).stats = NewStats(t)
  BY <1>2 DEF NewHealth, Health
<1>4. NewHealth(t, c) # Nowhere
  BY <1>3, DiscoveryAssumption
<1>5. /\ NewGoroutine(t) \in Goroutine /\ NewGoroutine(t).step = "lock"
      /\ NewGoroutine(t).stats = NewStats(t) /\ ~NewGoroutine(t).cancelled
  BY <1>2 DEF NewGoroutine, Goroutine
<1> QED BY <1>2, <1>3, <1>4, <1>5

LEMMA AddStarts ==
  ASSUME DiscoveryTypes, NEW t, AddTablet(t), hcClosed = "open", health[t.key] = Nowhere
  PROVE  \E c \in CheckConns \ Checking :
           /\ health' = [health EXCEPT ![t.key] = NewHealth(t, c)]
           /\ check' = [check EXCEPT ![c] = NewGoroutine(t)]
           /\ raced' = IF On(t.key) = {} THEN raced ELSE raced \cup {t.key}
<1> DEFINE c == CHOOSE c \in CheckConns : c \notin Checking
<1>1. Checking # CheckConns /\ Checking \subseteq CheckConns
  BY DEF AddTablet, Checking
<1>2. c \in CheckConns \ Checking
  BY <1>1
<1>3. /\ health' = [health EXCEPT ![t.key] = NewHealth(t, c)]
      /\ check' = [check EXCEPT ![c] = NewGoroutine(t)]
      /\ raced' = IF On(t.key) = {} THEN raced ELSE raced \cup {t.key}
  BY DEF AddTablet, NewHealth, NewGoroutine, NewStats
<1> QED BY <1>2, <1>3

\* AddTablet ends a call, and there is an entry of its key.
LEMMA AddWatches ==
  ASSUME DiscoveryTypes, WatchInv, NEW t \in tasks, AddTablet(t)
  PROVE  /\ WatchInv' /\ tasks' \subseteq TaskCall /\ t.key \in Addrs /\ t.add \in Aliases
<1>1. t \in TaskCall /\ t.key \in Addrs /\ t.add \in Aliases
  BY DEF DiscoveryTypes, TaskCall, AddTablet, WatchInv
<1>3. tasks' = tasks \ {t} /\ t.del = Nowhere
  BY DEF AddTablet
<1>4. tasks' \subseteq TaskCall
  BY <1>3 DEF DiscoveryTypes
<1>5. \A k : SameKey(k)' = SameKey(k)
  BY DEF SameKey, Listed, AddTablet
<1>6. hcClosed = "open" =>
        /\ health'[t.key] # Nowhere
        /\ \A k \in Addrs : k # t.key => health'[k] = health[k]
  <2>1. CASE hcClosed = "open" /\ health[t.key] = Nowhere
    <3>1. PICK c \in CheckConns : health' = [health EXCEPT ![t.key] = NewHealth(t, c)]
      BY <2>1, AddStarts
    <3>2. NewHealth(t, c) # Nowhere
      BY <1>1, NewFacts
    <3> QED BY <1>1, <3>1, <3>2 DEF DiscoveryTypes
  <2>2. CASE health[t.key] # Nowhere
    BY <2>2 DEF AddTablet
  <2> QED BY <2>1, <2>2
<1>7. \A v \in tasks' : IF v.add = Nowhere THEN v.del # Nowhere /\ v.key = Nowhere
                        ELSE v.key # Nowhere
  BY <1>3 DEF WatchInv
<1>8. ASSUME NEW k \in Addrs \ crossed', hcClosed' = "open"
      PROVE  CallsOn(k)'
  <2>0. k \in Addrs \ crossed /\ hcClosed = "open" /\ CallsOn(k) /\ k # Nowhere
    BY <1>8, DiscoveryAssumption DEF WatchInv, AddTablet
  <2>1. \A v : Deletes(v, k) => (v \in tasks' <=> v \in tasks)
    BY <1>3, <2>0 DEF Deletes
  <2>2. CASE t.key = k
    <3>1. SameKey(k) # {} /\ health'[k] # Nowhere
      BY <1>6, <2>0, <2>2 DEF CallsOn
    <3> QED BY <1>3, <1>5, <2>0, <3>1 DEF CallsOn
  <2>3. CASE t.key # k
    <3>1. health'[k] = health[k] /\ \A v : v.key = k => (v \in tasks' <=> v \in tasks)
      BY <1>3, <1>6, <2>0, <2>3
    <3> QED BY <1>3, <1>5, <2>0, <2>1, <3>1 DEF CallsOn
  <2> QED BY <2>2, <2>3
<1> QED BY <1>1, <1>4, <1>7, <1>8 DEF WatchInv

-----------------------------------------------------------------------------
(* The cache.                                                              *)

Remote(s) == s.type # "MASTER" /\ s.alias \in RemoteAliases

\* What StatsUpdate does to the entry of its key.
LEMMA EntryFacts ==
  ASSUME DiscoveryTypes, NEW s \in Stats, StatsUpdate(s)
  PROVE  /\ all' \in [StatsTypes -> [Addrs -> Stats \cup {Nowhere}]]
         /\ \A type \in StatsTypes, k \in Addrs : type # s.type \/ k # s.key =>
              all'[type][k] = all[type][k]
         /\ Remote(s) => all' = all
         /\ ~Remote(s) /\ ~s.up => all'[s.type][s.key] = Nowhere
         /\ ~Remote(s) /\ s.up =>
              \/ all'[s.type][s.key] = s
              \/ /\ s.type # "MASTER" /\ s.good /\ all[s.type][s.key] # Nowhere
                 /\ all'[s.type][s.key] = all[s.type][s.key]
<1> DEFINE old == all[s.type][s.key]
           entry == IF ~s.up THEN Nowhere
                    ELSE IF old # Nowhere /\ Trivial(old, s) THEN old ELSE s
<1>1. s.key \in Addrs /\ s.type \in StatsTypes /\ s.up \in BOOLEAN /\ s # Nowhere
  BY StatsFacts
<1>2. all \in [StatsTypes -> [Addrs -> Stats \cup {Nowhere}]] /\ old \in Stats \cup {Nowhere}
  BY <1>1 DEF DiscoveryTypes
<1>3. IF Remote(s) \/ (old = Nowhere /\ ~s.up) THEN all' = all
      ELSE all' = [all EXCEPT ![s.type][s.key] = entry]
  BY DEF StatsUpdate, Remote, statsCacheVars
<1>4. entry \in Stats \cup {Nowhere}
  BY <1>2
<1>5. /\ ~s.up => entry = Nowhere
      /\ s.up => entry = s \/ (s.type # "MASTER" /\ s.good /\ old # Nowhere /\ entry = old)
  BY DEF Trivial
<1> HIDE DEF entry
<1>6. CASE Remote(s) \/ (old = Nowhere /\ ~s.up)
  BY <1>2, <1>3, <1>6
<1>7. CASE ~(Remote(s) \/ (old = Nowhere /\ ~s.up))
  <2>1. all' = [all EXCEPT ![s.type][s.key] = entry]
    BY <1>3, <1>7
  <2>2. /\ all' \in [StatsTypes -> [Addrs -> Stats \cup {Nowhere}]]
        /\ all'[s.type][s.key] = entry
        /\ \A type \in StatsTypes, k \in Addrs : type # s.type \/ k # s.key =>
             all'[type][k] = all[type][k]
    BY <1>1, <1>2, <1>4, <2>1
  <2> QED BY <1>5, <1>7, <2>2
<1> QED BY <1>6, <1>7

\* What StatsUpdate does to the master that is kept.
LEMMA HealthyFacts ==
  ASSUME DiscoveryTypes, NEW s \in Stats, StatsUpdate(s)
  PROVE  /\ healthy' \in KeptMaster \cup {Nowhere} /\ reported' \subseteq Addrs
         /\ s.type # "MASTER" => healthy' = healthy /\ reported' = reported
         /\ s.type = "MASTER" /\ s.up =>
              /\ healthy' # Nowhere /\ reported' = reported \cup {s.key}
              /\ \/ /\ healthy'.stats = s
                    /\ healthy # Nowhere /\ healthy.stats.key # s.key => ~(s.time < healthy.stats.time)
                 \/ healthy # Nowhere /\ healthy' = healthy /\ s.time < healthy.stats.time
         /\ s.type = "MASTER" /\ ~s.up =>
              /\ healthy' = healthy \/ (healthy' = Nowhere /\ reported' = {})
              /\ reported' \subseteq reported \cup {s.key}
              /\ healthy' # Nowhere => healthy.stats.key # s.key \/ all' = all
              /\ healthy = Nowhere /\ reported = {} => reported' = {}
<1> DEFINE old == all[s.type][s.key]
           now == IF healthy # Nowhere /\ healthy.same /\ healthy.stats.key = s.key /\ s.up
                  THEN [healthy EXCEPT !.stats = s] ELSE healthy
           new == [stats |-> s, same |-> old = Nowhere]
<1>1. s.key \in Addrs /\ s.type \in StatsTypes /\ s.up \in BOOLEAN /\ s # Nowhere /\ s.time \in Nat
  BY StatsFacts
<1>2. healthy \in KeptMaster \cup {Nowhere} /\ reported \subseteq Addrs
  BY DEF DiscoveryTypes
<1>3. CASE s.type # "MASTER"
  BY <1>2, <1>3 DEF StatsUpdate, statsCacheVars
<1>4. CASE s.type = "MASTER" /\ s.up
  <2>1. /\ healthy' = HealthyMaster(s, old = Nowhere)
        /\ reported' = IF healthy' = Nowhere THEN {} ELSE reported \cup {s.key}
    BY <1>4 DEF StatsUpdate
  <2>2. healthy' = IF now # Nowhere /\ s.time < now.stats.time THEN now ELSE new
    BY <1>4, <2>1 DEF HealthyMaster
  <2>3. new \in KeptMaster /\ new.stats = s
    BY DEF KeptMaster
  <2>4. now = healthy \/ (now.stats = s /\ healthy.stats.key = s.key)
    <3>1. healthy # Nowhere => [healthy EXCEPT !.stats = s].stats = s
      BY <1>2 DEF KeptMaster
    <3> QED BY <3>1
  <2>5. ~(s.time < s.time)
    BY <1>1, SMT
  <2>6. new # Nowhere
    BY <2>3, DiscoveryAssumption
  <2> HIDE DEF new, now
  <2>7. \/ /\ healthy' = new
           /\ healthy # Nowhere /\ healthy.stats.key # s.key => ~(s.time < healthy.stats.time)
        \/ healthy # Nowhere /\ healthy' = healthy /\ s.time < healthy.stats.time
    BY <2>2, <2>4, <2>5
  <2> QED BY <1>1, <1>2, <1>4, <2>1, <2>3, <2>6, <2>7
<1>5. CASE s.type = "MASTER" /\ ~s.up
  <2>1. CASE old = Nowhere
    BY <1>2, <1>5, <2>1 DEF StatsUpdate, statsCacheVars
  <2>2. CASE old # Nowhere
    <3>1. /\ healthy' = HealthyMaster(s, old = Nowhere)
          /\ reported' = IF healthy' = Nowhere THEN {} ELSE reported \cup {s.key}
      BY <1>5, <2>2 DEF StatsUpdate
    <3>2. healthy' = IF healthy # Nowhere /\ healthy.stats.key = s.key THEN Nowhere ELSE healthy
      BY <1>5, <3>1 DEF HealthyMaster
    <3> QED BY <1>1, <1>2, <1>5, <3>1, <3>2
  <2> QED BY <2>1, <2>2
<1> QED BY <1>1, <1>3, <1>4, <1>5

\* The master that is kept stays the latest.
LEMMA MasterKeeps ==
  ASSUME DiscoveryTypes, MasterInv, NEW s \in Stats, StatsUpdate(s), raced' = raced,
         raced = {} /\ s.up /\ healthy # Nowhere /\ healthy.stats.key = s.key =>
           healthy.stats.time <= s.time
  PROVE  MasterInv'
<1> USE DEF MasterInv, MasterIsLatest
<1>1. s.key \in Addrs /\ s.type \in StatsTypes /\ s.up \in BOOLEAN /\ s # Nowhere /\ s.time \in Nat
  BY StatsFacts
<1>2. /\ reported \subseteq Addrs
      /\ healthy # Nowhere => healthy.stats \in Stats /\ healthy.stats.key \in Addrs /\ healthy.stats.time \in Nat
  <2>1. healthy # Nowhere => healthy.stats \in Stats
    BY DEF DiscoveryTypes, KeptMaster
  <2> QED BY <2>1, StatsFacts DEF DiscoveryTypes
<1>3. \A k \in Addrs : all["MASTER"][k] # Nowhere => all["MASTER"][k].time \in Nat
  <2>1. \A k \in Addrs : all["MASTER"][k] \in Stats \cup {Nowhere}
    BY DEF DiscoveryTypes, StatsTypes
  <2> QED BY <2>1, StatsFacts
<1>4. CASE s.type # "MASTER"
  <2>1. healthy' = healthy /\ reported' = reported
    BY <1>4, HealthyFacts
  <2>2. \A k \in Addrs : all'["MASTER"][k] = all["MASTER"][k]
    BY <1>4, EntryFacts DEF StatsTypes
  <2> QED BY <1>2, <2>1, <2>2
<1>5. CASE s.type = "MASTER" /\ s.up
  <2>1. /\ healthy' # Nowhere /\ reported' = reported \cup {s.key}
        /\ \/ /\ healthy'.stats = s
              /\ healthy # Nowhere /\ healthy.stats.key # s.key => ~(s.time < healthy.stats.time)
           \/ healthy # Nowhere /\ healthy' = healthy /\ s.time < healthy.stats.time
    BY <1>5, HealthyFacts
  <2>2. all'["MASTER"][s.key] = s /\ \A k \in Addrs : k # s.key => all'["MASTER"][k] = all["MASTER"][k]
    <3>1. ~Remote(s)
      BY <1>5 DEF Remote
    <3>2. all'[s.type][s.key] = s
      BY <1>5, <3>1, EntryFacts
    <3>3. \A k \in Addrs : k # s.key => all'["MASTER"][k] = all["MASTER"][k]
      BY EntryFacts DEF StatsTypes
    <3> QED BY <1>5, <3>2, <3>3
  <2>3. all'["MASTER"][healthy'.stats.key] # Nowhere
    BY <1>1, <1>2, <2>1, <2>2
  <2>4. ASSUME raced = {}, NEW k \in reported', all'["MASTER"][k] # Nowhere
        PROVE  all'["MASTER"][k].time <= healthy'.stats.time
    <3>1. CASE k = s.key
      <4>1. all'["MASTER"][k] = s
        BY <2>2, <3>1
      <4>2. CASE healthy'.stats = s
        BY <1>1, <4>1, <4>2, SMT
      <4>3. CASE healthy # Nowhere /\ healthy' = healthy /\ s.time < healthy.stats.time
        BY <1>1, <1>2, <4>1, <4>3, SMT
      <4> QED BY <2>1, <4>2, <4>3
    <3>2. CASE k # s.key
      <4>1. k \in reported /\ k \in Addrs /\ all'["MASTER"][k] = all["MASTER"][k]
        BY <1>2, <2>1, <2>2, <3>2
      <4>2. healthy # Nowhere /\ all["MASTER"][k].time <= healthy.stats.time
        BY <2>4, <4>1
      <4>3. CASE healthy'.stats = s /\ ~(healthy' = healthy /\ s.time < healthy.stats.time)
        \* What is replaced is not later than what replaces it.
        <5>1. healthy.stats.time <= s.time
          <6>1. CASE healthy.stats.key = s.key
            BY <1>5, <2>4, <4>2, <6>1
          <6>2. CASE healthy.stats.key # s.key
            BY <1>1, <1>2, <2>1, <4>2, <4>3, <6>2, SMT
          <6> QED BY <6>1, <6>2
        <5> QED BY <1>1, <1>2, <1>3, <2>4, <4>1, <4>2, <4>3, <5>1, SMT
      <4>4. CASE healthy' = healthy
        BY <4>1, <4>2, <4>4
      <4> QED BY <2>1, <4>3, <4>4
    <3> QED BY <3>1, <3>2
  <2> QED BY <2>1, <2>3, <2>4
<1>6. CASE s.type = "MASTER" /\ ~s.up
  <2>1. /\ healthy' = healthy \/ (healthy' = Nowhere /\ reported' = {})
        /\ reported' \subseteq reported \cup {s.key}
        /\ healthy' # Nowhere => healthy.stats.key # s.key \/ all' = all
        /\ healthy = Nowhere /\ reported = {} => reported' = {}
    BY <1>6, HealthyFacts
  <2>2. all'["MASTER"][s.key] = Nowhere /\ \A k \in Addrs : k # s.key => all'["MASTER"][k] = all["MASTER"][k]
    <3>1. ~Remote(s)
      BY <1>6 DEF Remote
    <3>2. all'[s.type][s.key] = Nowhere
      BY <1>6, <3>1, EntryFacts
    <3>3. \A k \in Addrs : k # s.key => all'["MASTER"][k] = all["MASTER"][k]
      BY EntryFacts DEF StatsTypes
    <3> QED BY <1>6, <3>2, <3>3
  <2> QED BY <1>2, <2>1, <2>2
<1> QED BY <1>1, <1>4, <1>5, <1>6

-----------------------------------------------------------------------------
(* The goroutines and the entries.                                         *)

\* A goroutine goes on, and the entries keep their goroutines.
LEMMA GoKeeps ==
  ASSUME DiscoveryTypes, ConnInv, NEW c \in Checking, NEW g \in Goroutine,
         g.stats.key = check[c].stats.key, check' = [check EXCEPT ![c] = g],
         g.cancelled = check[c].cancelled, ~g.stats.up => g.cancelled,
         g.stats.good => g.linked, g.stats.time <= actual[g.stats.key].time,
         g.step = "down" => g.old # Nowhere /\ g.old.key = g.stats.key,
         actual' = actual, hcClosed' = hcClosed,
         \A k \in Addrs :
           /\ health'[k] = Nowhere <=> health[k] = Nowhere
           /\ health[k] # Nowhere =>
                health'[k].conn = health[k].conn /\ health'[k].stats.key = health[k].stats.key
  PROVE  ConnInv'
<1>1. /\ check'[c] = g /\ \A d \in CheckConns \ {c} : check'[d] = check[d]
      /\ Checking' = Checking /\ \A k : On(k)' = On(k)
  BY Goes
<1>2. c \in CheckConns /\ \A d \in Checking : d \in CheckConns /\ check[d].stats.key \in Addrs
  BY GoroutineFacts, StatsFacts DEF Checking
<1>3. ASSUME NEW k \in Addrs PROVE EntryOk(k)'
  <2>1. SUFFICES ASSUME health'[k] # Nowhere
        PROVE  /\ health'[k].conn \in On(k)' /\ ~check'[health'[k].conn].cancelled
               /\ health'[k].stats.key = k
    BY DEF EntryOk
  <2>2. /\ health[k].conn \in On(k) /\ ~check[health[k].conn].cancelled /\ health[k].stats.key = k
        /\ health'[k].conn = health[k].conn /\ health'[k].stats.key = health[k].stats.key
    BY <2>1 DEF ConnInv, EntryOk
  <2>3. health[k].conn \in CheckConns
    BY <2>2 DEF On, Checking
  <2>4. check'[health[k].conn].cancelled = check[health[k].conn].cancelled
    BY <1>1, <2>3
  <2> QED BY <1>1, <2>2, <2>4
<1>4. ASSUME NEW d \in Checking' PROVE GoroutineOk(d)'
  <2>1. d \in CheckConns /\ GoroutineOk(d) /\ check[d].stats.key \in Addrs
    BY <1>1, <1>2, <1>4 DEF ConnInv
  <2>2. CASE d = c
    <3>1. check'[d] = g /\ g.stats.key = check[d].stats.key /\ g.cancelled = check[d].cancelled
      BY <1>1, <2>2
    <3>2. ~g.cancelled => health'[g.stats.key] # Nowhere /\ health'[g.stats.key].conn = d
      BY <2>1, <3>1 DEF GoroutineOk
    <3> QED BY <3>1, <3>2 DEF GoroutineOk
  <2>3. CASE d # c
    BY <1>1, <2>1, <2>3 DEF GoroutineOk
  <2> QED BY <2>2, <2>3
<1> QED BY <1>1, <1>3, <1>4 DEF ConnInv

\* A goroutine ends that was cancelled.
LEMMA EndKeeps ==
  ASSUME DiscoveryTypes, ConnInv, NEW c \in Checking, check[c].cancelled,
         check' = [check EXCEPT ![c] = Idle],
         health' = health, actual' = actual, hcClosed' = hcClosed
  PROVE  /\ ConnInv' /\ check' \in [CheckConns -> Goroutine \cup {Idle}]
         /\ \A d \in CheckConns \ {c} : check'[d] = check[d]
         /\ Checking' = Checking \ {c} /\ \A k : On(k)' = On(k) \ {c}
<1>0. c \in CheckConns /\ Idle.step = "free"
  BY DEF Checking, Idle
<1>1. check' \in [CheckConns -> Goroutine \cup {Idle}]
  BY <1>0 DEF DiscoveryTypes
<1>2. check'[c] = Idle /\ \A d \in CheckConns \ {c} : check'[d] = check[d]
  BY <1>0 DEF DiscoveryTypes
<1>3. Checking' = Checking \ {c}
  BY <1>0, <1>2 DEF Checking
<1>4. \A k : On(k)' = On(k) \ {c}
  BY <1>0, <1>2, <1>3 DEF On, Checking
<1>5. ASSUME NEW k \in Addrs PROVE EntryOk(k)'
  <2>1. CASE health[k] # Nowhere
    <3>1. health[k].conn \in On(k) /\ ~check[health[k].conn].cancelled /\ health[k].stats.key = k
      BY <2>1 DEF ConnInv, EntryOk
    <3>2. health[k].conn \in CheckConns \ {c}
      BY <3>1 DEF On, Checking
    <3> QED BY <1>2, <1>4, <3>1, <3>2 DEF EntryOk
  <2>2. CASE health[k] = Nowhere
    BY <2>2 DEF EntryOk
  <2> QED BY <2>1, <2>2
<1>6. ASSUME NEW d \in Checking' PROVE GoroutineOk(d)'
  <2>1. d \in CheckConns \ {c} /\ GoroutineOk(d)
    BY <1>3, <1>6 DEF ConnInv, Checking
  <2> QED BY <1>2, <2>1 DEF GoroutineOk
<1> QED BY <1>1, <1>2, <1>3, <1>4, <1>5, <1>6 DEF ConnInv

\* The tablets change.
LEMMA ActualKeeps ==
  ASSUME DiscoveryTypes, ConnInv, check' = check, health' = health, hcClosed' = hcClosed,
         \A k \in Addrs : actual[k].time \in Nat /\ actual'[k].time \in Nat /\ actual[k].time <= actual'[k].time
  PROVE  ConnInv'
<1>1. Checking' = Checking /\ \A k : On(k)' = On(k)
  BY DEF Checking, On
<1>2. \A k \in Addrs : EntryOk(k)'
  BY <1>1 DEF ConnInv, EntryOk
<1>3. ASSUME NEW d \in Checking' PROVE GoroutineOk(d)'
  <2>1. d \in CheckConns /\ d \in Checking /\ GoroutineOk(d)
    BY <1>1, <1>3 DEF ConnInv, Checking
  <2>2. check[d].stats.key \in Addrs /\ check[d].stats.time \in Nat
    BY <2>1, GoroutineFacts, StatsFacts
  <2>3. check[d].stats.time <= actual'[check[d].stats.key].time
    <3>1. check[d].stats.time <= actual[check[d].stats.key].time
      BY <2>1 DEF GoroutineOk
    <3> QED BY <2>2, <3>1, SMT
  <2> QED BY <2>1, <2>3 DEF GoroutineOk
<1> QED BY <1>1, <1>2, <1>3 DEF ConnInv

-----------------------------------------------------------------------------
(* Entries that come and go.                                               *)

\* Nothing happens to a key.
LEMMA CacheElse ==
  ASSUME NEW k \in Addrs, CacheKey(k), On(k)' = On(k), \A c \in On(k) : check'[c] = check[c],
         health'[k] = health[k], all'["MASTER"][k] = all["MASTER"][k],
         all'["REPLICA"][k] = all["REPLICA"][k],
         healthy' # Nowhere /\ healthy'.stats.key = k => healthy' = healthy
  PROVE  CacheKey(k)'
<1>1. ASSUME NEW c \in On(k) PROVE CacheOf(k, c)'
  <2>1. CacheOf(k, c) /\ check'[c] = check[c] /\ check[c].stats.key = k
    BY DEF CacheKey, On
  <2>2. Base(c)' = Base(c)
    BY <2>1 DEF Base
  <2>3. \A type \in {"MASTER", "REPLICA"} : all'[type][k] # Nowhere => type = Base(c)'
    BY <2>1, <2>2 DEF CacheOf
  <2>4. On(k)' = {c}
    BY <2>1 DEF CacheOf
  <2> QED BY <2>1, <2>3, <2>4 DEF CacheOf
<1> QED BY <1>1 DEF CacheKey

\* The entry of a key goes between two updates.
LEMMA CacheGone ==
  ASSUME NEW k \in Addrs, CacheKey(k), On(k)' = On(k), health'[k] = Nowhere,
         statsCacheVars' = statsCacheVars,
         \A c \in On(k) :
           /\ health[k] # Nowhere => check[c].step # "lock"
           /\ check'[c].step = check[c].step /\ check'[c].stats = check[c].stats
           /\ check'[c].old = check[c].old /\ check'[c].linked = check[c].linked
  PROVE  CacheKey(k)'
<1>0. all' = all /\ healthy' = healthy
  BY DEF statsCacheVars
<1>1. ASSUME NEW c \in On(k) PROVE CacheOf(k, c)'
  <2>1. CacheOf(k, c) /\ check[c].stats.key = k
    BY DEF CacheKey, On
  <2>2. Base(c)' = Base(c)
    BY <2>1 DEF Base
  <2>3. \A type \in {"MASTER", "REPLICA"} : all'[type][k] # Nowhere => type = Base(c)'
    BY <1>0, <2>1, <2>2 DEF CacheOf
  <2>4. On(k)' = {c}
    BY <2>1 DEF CacheOf
  <2> QED BY <1>0, <2>1, <2>3, <2>4 DEF CacheOf
<1> QED BY <1>0, <1>1 DEF CacheKey

\* The master that is kept and the latest are the same.
LEMMA MasterSame ==
  ASSUME MasterInv, statsCacheVars' = statsCacheVars, raced \subseteq raced'
  PROVE  MasterInv'
BY DEF MasterInv, MasterIsLatest, statsCacheVars

LEMMA DeleteKeeps ==
  ASSUME DiscoveryInv, NEW t \in tasks, deleteConn(t)
  PROVE  DiscoveryInv'
<1> USE DEF DiscoveryInv
<1>1. WatchInv' /\ tasks' \subseteq TaskCall /\ t.del \in Addrs
  BY DeleteWatches
<1>0. PICK k \in Addrs : k = t.del
  BY <1>1
<1>2. /\ known' = known /\ loads' = loads /\ hcClosed' = hcClosed /\ actual' = actual
      /\ statsCacheVars' = statsCacheVars
      /\ all' = all /\ healthy' = healthy /\ reported' = reported
  BY DEF deleteConn, statsCacheVars
<1>3. CASE health[k] = Nowhere
  <2>1. health' = health /\ check' = check /\ raced' = raced
    BY <1>0, <1>3 DEF deleteConn
  <2>2. DiscoveryTypes'
    BY <1>1, <1>2, <2>1 DEF DiscoveryTypes
  <2>3. Checking' = Checking /\ \A j : On(j)' = On(j)
    BY <2>1 DEF Checking, On
  <2>4. ConnInv'
    BY <1>2, <2>1, <2>3 DEF ConnInv, EntryOk, GoroutineOk
  <2>5. CacheInv'
    BY <1>2, <2>1, <2>3, CacheElse DEF CacheInv
  <2> QED BY <1>1, <1>2, <2>1, <2>2, <2>4, <2>5, MasterSame
<1>4. CASE health[k] # Nowhere
  <2>0. PICK c \in CheckConns : c = health[k].conn
    <3>1. health[k] \in Health
      BY <1>4 DEF DiscoveryTypes
    <3> QED BY <3>1 DEF Health
  <2>1. /\ c \in On(k) /\ c \in Checking /\ check[c].stats.key = k
        /\ \A d \in CheckConns : d \in On(k) <=> d \in Checking /\ check[d].stats.key = k
    BY <1>4, <2>0 DEF ConnInv, EntryOk, On
  <2>2. PICK g : g = [check[c] EXCEPT !.cancelled = TRUE]
    OBVIOUS
  <2>3. /\ g \in Goroutine /\ g.cancelled /\ g.step = check[c].step /\ g.stats = check[c].stats
        /\ g.old = check[c].old /\ g.linked = check[c].linked
    <3>1. check[c] \in Goroutine
      BY <2>1, GoroutineFacts
    <3> QED BY <2>2, <3>1 DEF Goroutine
  <2>4. /\ health' = [health EXCEPT ![k] = Nowhere] /\ check' = [check EXCEPT ![c] = g]
        /\ raced' = IF check[c].step = "lock" THEN raced \cup {k} ELSE raced
    BY <1>0, <1>4, <2>0, <2>2 DEF deleteConn
  <2>5. /\ check' \in [CheckConns -> Goroutine \cup {Idle}]
        /\ check'[c] = g /\ \A d \in CheckConns \ {c} : check'[d] = check[d]
        /\ Checking' = Checking /\ \A j : On(j)' = On(j)
    BY <2>1, <2>3, <2>4, Goes
  <2>6. /\ health' \in [Addrs -> Health \cup {Nowhere}] /\ health'[k] = Nowhere
        /\ \A j \in Addrs \ {k} : health'[j] = health[j]
    BY <2>4 DEF DiscoveryTypes
  <2>7. DiscoveryTypes'
    BY <1>1, <1>2, <2>5, <2>6 DEF DiscoveryTypes
  <2>8. ConnInv'
    <3>1. ASSUME NEW j \in Addrs PROVE EntryOk(j)'
      <4>1. CASE j = k
        BY <2>6, <4>1 DEF EntryOk
      <4>2. CASE j # k /\ health[j] # Nowhere
        <5>1. health[j].conn \in On(j) /\ ~check[health[j].conn].cancelled /\ health[j].stats.key = j
          BY <4>2 DEF ConnInv, EntryOk
        <5>2. health[j].conn \in CheckConns \ {c}
          BY <2>1, <4>2, <5>1 DEF On, Checking
        <5> QED BY <2>5, <2>6, <4>2, <5>1, <5>2 DEF EntryOk
      <4>3. CASE j # k /\ health[j] = Nowhere
        BY <2>6, <4>3 DEF EntryOk
      <4> QED BY <4>1, <4>2, <4>3
    <3>2. ASSUME NEW d \in Checking' PROVE GoroutineOk(d)'
      <4>1. d \in CheckConns /\ d \in Checking /\ GoroutineOk(d) /\ check[d].stats.key \in Addrs
        BY <2>5, <3>2, GoroutineFacts, StatsFacts DEF ConnInv, Checking
      <4>2. CASE d = c
        BY <1>2, <2>3, <2>5, <4>1, <4>2 DEF GoroutineOk
      <4>3. CASE d # c
        <5>1. ~check[d].cancelled => check[d].stats.key # k
          BY <2>0, <4>1, <4>3 DEF GoroutineOk
        <5>2. /\ check'[d] = check[d]
              /\ ~check[d].cancelled => health'[check[d].stats.key] = health[check[d].stats.key]
          BY <2>5, <2>6, <4>1, <4>3, <5>1
        <5> QED BY <1>2, <4>1, <5>2 DEF GoroutineOk
      <4> QED BY <4>2, <4>3
    <3> QED BY <1>2, <2>5, <3>1, <3>2 DEF ConnInv
  <2>9. ASSUME NEW j \in Addrs \ raced' PROVE CacheKey(j)'
    <3>1. CacheKey(j)
      BY <2>4, <2>9 DEF CacheInv
    <3>2. CASE j # k
      <4>1. \A d \in On(j) : check'[d] = check[d]
        BY <2>1, <2>5, <3>2 DEF On, Checking
      <4> QED BY <1>2, <2>5, <2>6, <3>1, <3>2, <4>1, CacheElse
    <3>3. CASE j = k
      <4>1. check[c].step # "lock"
        BY <2>4, <2>9, <3>3
      <4>2. On(k) = {c}
        BY <2>1, <3>1, <3>3 DEF CacheKey, CacheOf
      <4> QED BY <1>2, <2>3, <2>5, <2>6, <3>1, <3>3, <4>1, <4>2, CacheGone
    <3> QED BY <3>2, <3>3
  <2>10. MasterInv'
    BY <1>2, <2>4, MasterSame
  <2> QED BY <1>1, <2>7, <2>8, <2>9, <2>10 DEF CacheInv
<1> QED BY <1>3, <1>4

\* Neither the goroutines nor the cache take part in a step.
LEMMA RestKeeps ==
  ASSUME DiscoveryInv, health' = health, check' = check, hcClosed' = hcClosed, actual' = actual,
         statsCacheVars' = statsCacheVars, raced' = raced
  PROVE  ConnInv' /\ CacheInv' /\ MasterInv'
<1> USE DEF DiscoveryInv
<1>1. Checking' = Checking /\ \A k : On(k)' = On(k)
  BY DEF Checking, On
<1>2. ConnInv'
  BY <1>1 DEF ConnInv, EntryOk, GoroutineOk
<1>3. CacheInv'
  BY <1>1, CacheElse DEF CacheInv, statsCacheVars
<1>4. MasterInv'
  BY MasterSame
<1> QED BY <1>2, <1>3, <1>4

LEMMA LoadKeeps ==
  ASSUME DiscoveryInv, loadTablets
  PROVE  DiscoveryInv'
<1>1. /\ WatchInv' /\ known' \in [Aliases -> Addrs \cup {Nowhere}] /\ loads' \in Nat
      /\ tasks' \subseteq TaskCall
  BY LoadWatches DEF DiscoveryInv
<1>2. /\ health' = health /\ check' = check /\ hcClosed' = hcClosed /\ actual' = actual
      /\ statsCacheVars' = statsCacheVars /\ raced' = raced
  BY DEF loadTablets, statsCacheVars
<1>3. ConnInv' /\ CacheInv' /\ MasterInv'
  BY <1>2, RestKeeps
<1>4. DiscoveryTypes'
  BY <1>1, <1>2 DEF DiscoveryInv, DiscoveryTypes, statsCacheVars
<1> QED BY <1>1, <1>3, <1>4 DEF DiscoveryInv

LEMMA AddKeeps ==
  ASSUME DiscoveryInv, NEW t \in tasks, AddTablet(t)
  PROVE  DiscoveryInv'
<1>1. WatchInv' /\ tasks' \subseteq TaskCall /\ t.key \in Addrs /\ t.add \in Aliases
  BY AddWatches DEF DiscoveryInv
<1>0. PICK k \in Addrs : k = t.key
  BY <1>1
<1>2. /\ known' = known /\ loads' = loads /\ hcClosed' = hcClosed /\ actual' = actual
      /\ statsCacheVars' = statsCacheVars
      /\ all' = all /\ healthy' = healthy /\ reported' = reported
  BY DEF AddTablet, statsCacheVars
<1>3. CASE hcClosed # "open" \/ health[k] # Nowhere
  <2>1. health' = health /\ check' = check /\ raced' = raced
    BY <1>0, <1>3 DEF AddTablet
  <2>2. DiscoveryTypes'
    BY <1>1, <1>2, <2>1 DEF DiscoveryInv, DiscoveryTypes
  <2> QED BY <1>1, <1>2, <2>1, <2>2, RestKeeps DEF DiscoveryInv
<1>4. CASE hcClosed = "open" /\ health[k] = Nowhere
  <2> USE DEF DiscoveryInv
  <2>0. PICK c \in CheckConns \ Checking :
          /\ health' = [health EXCEPT ![k] = NewHealth(t, c)]
          /\ check' = [check EXCEPT ![c] = NewGoroutine(t)]
          /\ raced' = IF On(k) = {} THEN raced ELSE raced \cup {k}
    BY <1>0, <1>4, AddStarts
  <2> DEFINE h == NewHealth(t, c)
             g == NewGoroutine(t)
             s == NewStats(t)
  <2>1. /\ s \in Stats /\ s.key = k /\ s.alias = t.add /\ s.time = 0 /\ ~s.good /\ s.up
        /\ h \in Health /\ h # Nowhere /\ h.conn = c /\ h.stats = s
        /\ g \in Goroutine /\ g.step = "lock" /\ g.stats = s /\ ~g.cancelled
    BY <1>0, <1>1, NewFacts
  <2> HIDE DEF h, g, s
  <2>2. /\ health' = [health EXCEPT ![k] = h] /\ check' = [check EXCEPT ![c] = g]
        /\ raced' = IF On(k) = {} THEN raced ELSE raced \cup {k}
    BY <2>0 DEF h, g
  <2>3. /\ check' \in [CheckConns -> Goroutine \cup {Idle}]
        /\ check'[c] = g /\ \A d \in CheckConns \ {c} : check'[d] = check[d]
    BY <2>1, <2>2 DEF DiscoveryTypes
  <2>4. /\ health' \in [Addrs -> Health \cup {Nowhere}] /\ health'[k] = h
        /\ \A j \in Addrs \ {k} : health'[j] = health[j]
    BY <2>1, <2>2 DEF DiscoveryTypes
  <2>5. Checking' = Checking \cup {c} /\ c \notin Checking
    BY <2>1, <2>3 DEF Checking
  <2>6. On(k)' = On(k) \cup {c} /\ \A j : j # k => On(j)' = On(j)
    BY <2>1, <2>3, <2>5, SMT DEF On, Checking
  <2>7. DiscoveryTypes'
    BY <1>1, <1>2, <2>3, <2>4 DEF DiscoveryTypes
  <2>8. ConnInv'
    <3>1. ASSUME NEW j \in Addrs PROVE EntryOk(j)'
      <4>1. CASE j = k
        BY <2>1, <2>3, <2>4, <2>6, <4>1 DEF EntryOk
      <4>2. CASE j # k /\ health[j] # Nowhere
        <5>1. health[j].conn \in On(j) /\ ~check[health[j].conn].cancelled /\ health[j].stats.key = j
          BY <4>2 DEF ConnInv, EntryOk
        <5>2. health[j].conn \in CheckConns \ {c}
          BY <2>5, <4>2, <5>1 DEF On, Checking
        <5> QED BY <2>3, <2>4, <2>6, <4>2, <5>1, <5>2 DEF EntryOk
      <4>3. CASE j # k /\ health[j] = Nowhere
        BY <2>4, <4>3 DEF EntryOk
      <4> QED BY <4>1, <4>2, <4>3
    <3>2. ASSUME NEW d \in Checking' PROVE GoroutineOk(d)'
      <4>1. CASE d = c
        <5>1. s.time <= actual[k].time
          <6>1. actual[k].time \in Nat
            BY DiscoveryAssumption, SMT DEF DiscoveryTypes
          <6> QED BY <2>1, <6>1, SMT
        <5> QED BY <1>2, <2>1, <2>3, <2>4, <4>1, <5>1 DEF GoroutineOk
      <4>2. CASE d # c
        <5>1. d \in CheckConns /\ d \in Checking /\ GoroutineOk(d) /\ check[d].stats.key \in Addrs
          BY <2>5, <3>2, <4>2, GoroutineFacts, StatsFacts DEF ConnInv, Checking
        <5>2. ~check[d].cancelled => check[d].stats.key # k
          BY <1>4, <5>1 DEF GoroutineOk
        <5>3. /\ check'[d] = check[d]
              /\ ~check[d].cancelled => health'[check[d].stats.key] = health[check[d].stats.key]
          BY <2>3, <2>4, <4>2, <5>1, <5>2
        <5> QED BY <1>2, <5>1, <5>3 DEF GoroutineOk
      <4> QED BY <4>1, <4>2
    <3> QED BY <1>2, <1>4, <3>1, <3>2 DEF ConnInv
  <2>9. ASSUME NEW j \in Addrs \ raced' PROVE CacheKey(j)'
    <3>1. CacheKey(j)
      BY <2>2, <2>9 DEF CacheInv
    <3>2. CASE j # k
      <4>1. \A d \in On(j) : check'[d] = check[d]
        BY <2>3, <2>5 DEF On, Checking
      <4> QED BY <1>2, <2>4, <2>6, <3>1, <3>2, <4>1, CacheElse
    <3>3. CASE j = k
      <4>1. On(k) = {} /\ On(k)' = {c}
        BY <2>2, <2>6, <2>9, <3>3
      <4>2. all["MASTER"][k] = Nowhere /\ all["REPLICA"][k] = Nowhere
        BY <3>1, <3>3, <4>1 DEF CacheKey
      <4>3. ~(healthy # Nowhere /\ healthy.stats.key = k)
        BY <4>2 DEF MasterInv, MasterIsLatest
      <4>4. CacheOf(k, c)'
        BY <1>2, <2>1, <2>3, <2>4, <4>1, <4>2, <4>3 DEF CacheOf
      <4> QED BY <3>3, <4>1, <4>4 DEF CacheKey
    <3> QED BY <3>2, <3>3
  <2>10. MasterInv'
    BY <1>2, <2>2, MasterSame
  <2> QED BY <1>1, <2>7, <2>8, <2>9, <2>10 DEF CacheInv
<1> QED BY <1>3, <1>4

LEMMA CloseKeeps ==
  ASSUME DiscoveryInv, CloseHealthCheck
  PROVE  DiscoveryInv'
<1> USE DEF DiscoveryInv
<1> DEFINE Mine(c) == \E k \in Addrs : health[k] # Nowhere /\ health[k].conn = c
<1>1. /\ known' = known /\ loads' = loads /\ tasks' = tasks /\ crossed' = crossed
      /\ actual' = actual /\ hcClosed = "open" /\ hcClosed' = "closing"
      /\ statsCacheVars' = statsCacheVars /\ health' = [k \in Addrs |-> Nowhere]
      /\ all' = all /\ healthy' = healthy /\ reported' = reported
      /\ raced' = raced \cup {k \in Addrs : health[k] # Nowhere /\ check[health[k].conn].step = "lock"}
  BY DEF CloseHealthCheck, watcherVars, statsCacheVars
<1>2. check' = [c \in CheckConns |->
        IF Mine(c) THEN [check[c] EXCEPT !.cancelled = TRUE] ELSE check[c]]
  BY DEF CloseHealthCheck
<1>3. ASSUME NEW c \in CheckConns, Mine(c)
      PROVE  c \in Checking
  BY <1>3 DEF ConnInv, EntryOk, On
<1> HIDE DEF Mine
<1>4. ASSUME NEW c \in CheckConns
      PROVE  /\ c \in Checking =>
                  /\ check'[c] \in Goroutine
                  /\ check'[c].step = check[c].step /\ check'[c].stats = check[c].stats
                  /\ check'[c].old = check[c].old /\ check'[c].linked = check[c].linked
                  /\ Mine(c) \/ check[c].cancelled => check'[c].cancelled
             /\ c \notin Checking => check'[c] = check[c] /\ check[c] = Idle
  <2>1. CASE Mine(c)
    <3>1. check[c] \in Goroutine /\ check'[c] = [check[c] EXCEPT !.cancelled = TRUE]
      BY <1>2, <1>3, <2>1, GoroutineFacts
    <3>2. PICK g : g = check[c]
      OBVIOUS
    <3>3. PICK h : h = [g EXCEPT !.cancelled = TRUE]
      OBVIOUS
    <3>4. /\ h \in Goroutine /\ h.step = g.step /\ h.stats = g.stats /\ h.old = g.old
          /\ h.linked = g.linked /\ h.cancelled
      BY <3>1, <3>2, <3>3 DEF Goroutine
    <3> QED BY <1>3, <2>1, <3>1, <3>2, <3>3, <3>4
  <2>2. CASE ~Mine(c)
    BY <1>2, <2>2, GoroutineFacts
  <2> QED BY <2>1, <2>2
<1>5. check' \in [CheckConns -> Goroutine \cup {Idle}]
  <2>1. \A c \in CheckConns : check'[c] \in Goroutine \cup {Idle}
    BY <1>4
  <2> QED BY <1>2, <2>1
<1>6. Checking' = Checking
  <2>1. \A c \in CheckConns : check'[c].step # "free" <=> check[c].step # "free"
    BY <1>4
  <2> QED BY <2>1 DEF Checking
<1>7. \A k : On(k)' = On(k)
  BY <1>4, <1>6 DEF On, Checking
<1>8. DiscoveryTypes'
  BY <1>1, <1>5 DEF DiscoveryTypes
<1>9. WatchInv'
  BY <1>1, WatchSame
<1>10. ConnInv'
  <2>1. \A k \in Addrs : EntryOk(k)'
    BY <1>1 DEF EntryOk
  <2>2. ASSUME NEW d \in Checking' PROVE GoroutineOk(d)'
    <3>1. d \in CheckConns /\ d \in Checking /\ GoroutineOk(d) /\ check[d].stats.key \in Addrs
      BY <1>6, <2>2, GoroutineFacts, StatsFacts DEF ConnInv, Checking
    <3>2. Mine(d) \/ check[d].cancelled
      BY <3>1 DEF GoroutineOk, Mine
    <3>3. /\ check'[d].cancelled /\ check'[d].stats = check[d].stats
          /\ check'[d].linked = check[d].linked
          /\ check'[d].step = check[d].step /\ check'[d].old = check[d].old
      BY <1>4, <3>1, <3>2
    <3> QED BY <1>1, <3>1, <3>3 DEF GoroutineOk
  <2> QED BY <1>1, <2>1, <2>2 DEF ConnInv
<1>11. ASSUME NEW k \in Addrs \ raced' PROVE CacheKey(k)'
  <2>1. CacheKey(k) /\ health'[k] = Nowhere
    BY <1>1, <1>11 DEF CacheInv
  <2>2. ASSUME NEW c \in On(k)
        PROVE  /\ health[k] # Nowhere => check[c].step # "lock"
               /\ check'[c].step = check[c].step /\ check'[c].stats = check[c].stats
               /\ check'[c].old = check[c].old /\ check'[c].linked = check[c].linked
    <3>1. On(k) = {c} /\ c \in Checking /\ c \in CheckConns
      BY <2>1 DEF CacheKey, CacheOf, On, Checking
    <3>2. health[k] # Nowhere => health[k].conn = c
      BY <3>1 DEF ConnInv, EntryOk
    <3> QED BY <1>1, <1>4, <1>11, <3>1, <3>2
  <2> QED BY <1>1, <1>7, <2>1, <2>2, CacheGone
<1>12. MasterInv'
  BY <1>1, MasterSame
<1> QED BY <1>8, <1>9, <1>10, <1>11, <1>12 DEF CacheInv

-----------------------------------------------------------------------------
(* The steps of a goroutine.                                               *)

LEMMA ActualTimes ==
  ASSUME DiscoveryTypes
  PROVE  \A k \in Addrs : actual[k].type \in {"MASTER", "REPLICA"} /\ actual[k].time \in 0..MaxReparent
BY DEF DiscoveryTypes

LEMMA TimesAreNat ==
  0..MaxReparent \subseteq Nat
BY DiscoveryAssumption, SMT

\* The step that calls updateHealth.
LEMMA UpdateKeeps ==
  ASSUME DiscoveryInv, NEW c \in Checking, check[c].step = "run", NEW s \in Stats,
         NEW linked \in BOOLEAN, Update(c, s, linked),
         s.key = check[c].stats.key, s.alias = check[c].stats.alias,
         check[c].stats.time <= s.time, s.time <= actual[s.key].time,
         s.good => linked, ~s.up => check[c].cancelled,
         check[c].cancelled => s.type = check[c].stats.type
  PROVE  DiscoveryInv'
<1> USE DEF DiscoveryInv
<1>1. /\ known' = known /\ loads' = loads /\ tasks' = tasks /\ crossed' = crossed
      /\ health' = health /\ hcClosed' = hcClosed /\ actual' = actual /\ raced' = raced
      /\ statsCacheVars' = statsCacheVars
      /\ all' = all /\ healthy' = healthy /\ reported' = reported
  BY DEF Update, watcherVars, statsCacheVars
<1>2. c \in CheckConns /\ check[c] \in Goroutine /\ check[c].stats \in Stats
  BY GoroutineFacts DEF Checking
<1>3. PICK g : g = [check[c] EXCEPT !.step = "lock", !.stats = s, !.linked = linked]
  OBVIOUS
<1>4. /\ g \in Goroutine /\ g.step = "lock" /\ g.stats = s /\ g.linked = linked
      /\ g.cancelled = check[c].cancelled
  BY <1>2, <1>3 DEF Goroutine
<1>5. check' = [check EXCEPT ![c] = g]
  BY <1>2, <1>3 DEF Update, DiscoveryTypes
<1>6. /\ check' \in [CheckConns -> Goroutine \cup {Idle}]
      /\ check'[c] = g /\ \A d \in CheckConns \ {c} : check'[d] = check[d]
      /\ Checking' = Checking /\ \A k : On(k)' = On(k)
  BY <1>4, <1>5, Goes
<1>7. ConnInv'
  BY <1>1, <1>4, <1>5, GoKeeps
<1>8. DiscoveryTypes' /\ WatchInv' /\ MasterInv'
  BY <1>1, <1>6, WatchSame, MasterSame DEF DiscoveryTypes
<1>9. ASSUME NEW k \in Addrs \ raced' PROVE CacheKey(k)'
  <2>1. CacheKey(k)
    BY <1>1, <1>9 DEF CacheInv
  <2>2. CASE k # s.key
    <3>1. \A d \in On(k) : check'[d] = check[d]
      BY <1>6, <2>2 DEF On, Checking
    <3> QED BY <1>1, <1>6, <2>1, <2>2, <3>1, CacheElse
  <2>3. CASE k = s.key
    <3>1. c \in On(k) /\ On(k) = {c} /\ CacheOf(k, c)
      BY <2>1, <2>3 DEF On, CacheKey, CacheOf
    <3>2. Base(c) = check[c].stats.type
      BY DEF Base
    <3>3. health[k] # Nowhere => health[k].stats = check[c].stats
      BY <3>1 DEF CacheOf
    <3>4. health[k] = Nowhere => check[c].cancelled
      BY <2>3 DEF ConnInv, GoroutineOk
    <3>5. Base(c)' = Base(c)
      BY <1>1, <1>4, <1>6, <2>3, <3>2, <3>3, <3>4 DEF Base
    <3>6. \A type \in {"MASTER", "REPLICA"} : all'[type][k] # Nowhere => type = Base(c)'
      BY <1>1, <3>1, <3>5 DEF CacheOf
    <3>7. healthy # Nowhere /\ healthy.stats.key = k => healthy.stats.time <= s.time
      <4>1. healthy # Nowhere => healthy.stats \in Stats
        BY DEF DiscoveryTypes, KeptMaster
      <4>2. /\ healthy # Nowhere => healthy.stats.time \in Nat
            /\ s.time \in Nat /\ check[c].stats.time \in Nat
        BY <1>2, <4>1, StatsFacts
      <4>3. healthy # Nowhere /\ healthy.stats.key = k => healthy.stats.time <= check[c].stats.time
        BY <3>1 DEF CacheOf
      <4> QED BY <4>2, <4>3, SMT
    <3>8. CacheOf(k, c)'
      <4>1. check[c].stats.alias \in RemoteAliases => all["REPLICA"][k] = Nowhere
        BY <3>1 DEF CacheOf
      <4>2. health[k] # Nowhere => health[k].stats.alias = check[c].stats.alias
        BY <3>1 DEF CacheOf
      <4> QED BY <1>1, <1>4, <1>6, <3>1, <3>6, <3>7, <4>1, <4>2 DEF CacheOf
    <3> QED BY <1>6, <3>1, <3>8 DEF CacheKey
  <2> QED BY <2>2, <2>3
<1> QED BY <1>7, <1>8, <1>9 DEF CacheInv

LEMMA UpdatesKeep ==
  ASSUME DiscoveryInv, NEW c \in CheckConns, processResponse(c) \/ streamFails(c) \/ finalizeConn(c)
  PROVE  DiscoveryInv'
<1>0. check[c].step = "run" /\ c \in Checking /\ check[c].stats \in Stats
  BY GoroutineFacts DEF DiscoveryInv, processResponse, streamFails, finalizeConn, Checking
<1>1. PICK o \in Stats : o = check[c].stats
  BY <1>0
<1>2. /\ o.key \in Addrs /\ o.time \in Nat /\ o.time <= actual[o.key].time
      /\ ~o.up => check[c].cancelled
      /\ o.time <= o.time
  <2>1. o.key \in Addrs /\ o.time \in Nat
    BY StatsFacts
  <2>2. o.time <= o.time
    BY <2>1, SMT
  <2> QED BY <1>0, <1>1, <2>1, <2>2 DEF DiscoveryInv, ConnInv, GoroutineOk
<1>3. ASSUME processResponse(c) PROVE DiscoveryInv'
  <2>1. PICK good \in BOOLEAN :
          Update(c, [check[c].stats EXCEPT !.type = actual[check[c].stats.key].type,
                       !.time = actual[check[c].stats.key].time, !.good = good], TRUE)
    BY <1>3 DEF processResponse
  <2>2. PICK a : a = actual[o.key]
    OBVIOUS
  <2>3. a.type \in {"MASTER", "REPLICA"} /\ a.time \in 0..MaxReparent
    BY <1>2, <2>2, ActualTimes DEF DiscoveryInv
  <2>4. PICK s : s = [o EXCEPT !.type = a.type, !.time = a.time, !.good = good]
    OBVIOUS
  <2>5. /\ s \in Stats /\ s.key = o.key /\ s.alias = o.alias /\ s.time = a.time
        /\ s.up = o.up
    BY <2>3, <2>4 DEF Stats, StatsTypes
  <2>6. Update(c, s, TRUE)
    BY <1>1, <2>1, <2>2, <2>4 DEF Update
  <2>7. ~check[c].cancelled
    BY <1>3 DEF processResponse
  <2>8. s.time <= actual[s.key].time
    BY <2>2, <2>3, <2>5, TimesAreNat, SMT
  <2> QED BY <1>0, <1>1, <1>2, <2>2, <2>5, <2>6, <2>7, <2>8, UpdateKeeps
<1>4. ASSUME streamFails(c) PROVE DiscoveryInv'
  <2>1. PICK s : s = [o EXCEPT !.good = FALSE]
    OBVIOUS
  <2>2. /\ s \in Stats /\ s.key = o.key /\ s.alias = o.alias /\ s.time = o.time
        /\ s.up = o.up /\ s.type = o.type /\ ~s.good
    BY <2>1 DEF Stats
  <2>3. Update(c, s, FALSE)
    BY <1>1, <1>4, <2>1 DEF Update, streamFails
  <2> QED BY <1>0, <1>1, <1>2, <2>2, <2>3, UpdateKeeps
<1>5. ASSUME finalizeConn(c) PROVE DiscoveryInv'
  <2>1. PICK s : s = [o EXCEPT !.good = FALSE, !.up = FALSE]
    OBVIOUS
  <2>2. /\ s \in Stats /\ s.key = o.key /\ s.alias = o.alias /\ s.time = o.time
        /\ s.type = o.type /\ ~s.good
    BY <2>1 DEF Stats
  <2>3. Update(c, s, FALSE) /\ check[c].cancelled
    BY <1>1, <1>5, <2>1 DEF Update, finalizeConn
  <2> QED BY <1>0, <1>1, <1>2, <2>2, <2>3, UpdateKeeps
<1> QED BY <1>3, <1>4, <1>5

\* updateHealth with the lock.
LEMMA LockKeeps ==
  ASSUME DiscoveryInv, NEW c \in CheckConns, lockHealth(c)
  PROVE  DiscoveryInv'
<1> USE DEF DiscoveryInv
<1>1. /\ known' = known /\ loads' = loads /\ tasks' = tasks /\ crossed' = crossed
      /\ hcClosed' = hcClosed /\ actual' = actual /\ raced' = raced
      /\ statsCacheVars' = statsCacheVars
      /\ all' = all /\ healthy' = healthy /\ reported' = reported
  BY DEF lockHealth, watcherVars, statsCacheVars
<1>2. /\ check[c].step = "lock" /\ c \in Checking /\ check[c] \in Goroutine
      /\ check[c].stats \in Stats
  BY GoroutineFacts DEF lockHealth, Checking
<1>3. PICK s \in Stats : s = check[c].stats
  BY <1>2
<1>4. PICK k \in Addrs : k = s.key
  BY StatsFacts
<1>5. /\ GoroutineOk(c) /\ c \in On(k)
  BY <1>2, <1>3, <1>4 DEF ConnInv, On
<1>6. PICK g :
        /\ g \in Goroutine /\ g.stats = s /\ g.linked = check[c].linked
        /\ g.cancelled = check[c].cancelled /\ g.step \in {"send", "down"}
        /\ g.step = "down" => g.old # Nowhere /\ g.old.key = k
        /\ check' = [check EXCEPT ![c] = g]
        /\ IF health[k] = Nowhere THEN health' = health /\ g.step = "send"
           ELSE /\ health' = [health EXCEPT ![k].stats = s, ![k].up = check[c].linked]
                /\ IF health[k].stats.type \in {"UNKNOWN", s.type} THEN g.step = "send"
                   ELSE g.step = "down" /\ g.old = health[k].stats
  <2>1. PICK o : o = check[c]
    OBVIOUS
  <2>2. CASE health[k] = Nowhere \/ health[k].stats.type \in {"UNKNOWN", s.type}
    <3>1. PICK g : g = [o EXCEPT !.step = "send"]
      OBVIOUS
    <3>2. /\ g \in Goroutine /\ g.stats = s /\ g.linked = check[c].linked
          /\ g.cancelled = check[c].cancelled /\ g.step = "send"
      BY <1>2, <1>3, <2>1, <3>1 DEF Goroutine
    <3>3. /\ check' = [check EXCEPT ![c] = g]
          /\ IF health[k] = Nowhere THEN health' = health
             ELSE health' = [health EXCEPT ![k].stats = s, ![k].up = check[c].linked]
      BY <1>3, <1>4, <2>1, <2>2, <3>1 DEF lockHealth, DiscoveryTypes
    <3> QED BY <2>2, <3>2, <3>3
  <2>3. CASE health[k] # Nowhere /\ health[k].stats.type \notin {"UNKNOWN", s.type}
    <3>1. PICK old : old = health[k].stats
      OBVIOUS
    <3>2. old \in Stats /\ old.key = k
      <4>1. health[k] \in Health
        BY <2>3 DEF DiscoveryTypes
      <4> QED BY <2>3, <3>1, <4>1 DEF Health, ConnInv, EntryOk
    <3>3. PICK g : g = [o EXCEPT !.step = "down", !.old = old]
      OBVIOUS
    <3>4. /\ g \in Goroutine /\ g.stats = s /\ g.linked = check[c].linked
          /\ g.cancelled = check[c].cancelled /\ g.step = "down" /\ g.old = old
      BY <1>2, <1>3, <2>1, <3>2, <3>3 DEF Goroutine
    <3>5. /\ check' = [check EXCEPT ![c] = g]
          /\ health' = [health EXCEPT ![k].stats = s, ![k].up = check[c].linked]
      BY <1>3, <1>4, <2>1, <2>3, <3>1, <3>3 DEF lockHealth, DiscoveryTypes
    <3>6. old # Nowhere
      BY <3>2, StatsFacts
    <3> QED BY <2>3, <3>1, <3>2, <3>4, <3>5, <3>6
  <2> QED BY <2>2, <2>3
<1>7. /\ check' \in [CheckConns -> Goroutine \cup {Idle}]
      /\ check'[c] = g /\ \A d \in CheckConns \ {c} : check'[d] = check[d]
      /\ Checking' = Checking /\ \A j : On(j)' = On(j)
  BY <1>2, <1>3, <1>6, Goes
<1>8. /\ health' \in [Addrs -> Health \cup {Nowhere}]
      /\ \A j \in Addrs : j # k => health'[j] = health[j]
      /\ health'[k] = Nowhere <=> health[k] = Nowhere
      /\ health[k] # Nowhere =>
           /\ health'[k].conn = health[k].conn /\ health'[k].stats = s
           /\ health'[k].up = check[c].linked
  <2>1. CASE health[k] = Nowhere
    BY <1>6, <2>1 DEF DiscoveryTypes
  <2>2. CASE health[k] # Nowhere
    <3>0. health \in [Addrs -> Health \cup {Nowhere}] /\ health[k] \in Health
      BY <2>2 DEF DiscoveryTypes
    <3>1. PICK h : h = [health[k] EXCEPT !.stats = s, !.up = check[c].linked]
      OBVIOUS
    <3>2. h \in Health /\ h.conn = health[k].conn /\ h.stats = s /\ h.up = check[c].linked
      <4>1. check[c].linked \in BOOLEAN
        BY <1>2 DEF Goroutine
      <4>2. PICK o \in Health : o = health[k]
        BY <3>0
      <4> QED BY <3>1, <4>1, <4>2 DEF Health
    <3>3. health' = [health EXCEPT ![k] = h]
      BY <1>6, <2>2, <3>0, <3>1
    <3>4. h # Nowhere
      BY <3>2, DiscoveryAssumption
    <3> QED BY <2>2, <3>0, <3>2, <3>3, <3>4
  <2> QED BY <2>1, <2>2
<1>9. ConnInv'
  <2>1. \A j \in Addrs :
           /\ health'[j] = Nowhere <=> health[j] = Nowhere
           /\ health[j] # Nowhere =>
                health'[j].conn = health[j].conn /\ health'[j].stats.key = health[j].stats.key
    BY <1>4, <1>8 DEF ConnInv, EntryOk
  <2>2. ~g.stats.up => g.cancelled
    BY <1>3, <1>5, <1>6 DEF GoroutineOk
  <2>3. g.stats.good => g.linked
    BY <1>3, <1>5, <1>6 DEF GoroutineOk
  <2>4. g.stats.time <= actual[g.stats.key].time /\ g.stats.key = check[c].stats.key
    BY <1>3, <1>5, <1>6 DEF GoroutineOk
  <2>5. g.step = "down" => g.old # Nowhere /\ g.old.key = g.stats.key
    BY <1>4, <1>6
  <2> QED BY <1>1, <1>2, <1>6, <2>1, <2>2, <2>3, <2>4, <2>5, GoKeeps
<1>10. DiscoveryTypes' /\ WatchInv' /\ MasterInv'
  BY <1>1, <1>7, <1>8, WatchSame, MasterSame DEF DiscoveryTypes
<1>11. ASSUME NEW j \in Addrs \ raced' PROVE CacheKey(j)'
  <2>1. CacheKey(j)
    BY <1>1, <1>11 DEF CacheInv
  <2>2. CASE j # k
    <3>1. \A d \in On(j) : check'[d] = check[d]
      BY <1>3, <1>4, <1>7, <2>2 DEF On, Checking
    <3> QED BY <1>1, <1>7, <1>8, <2>1, <2>2, <3>1, CacheElse
  <2>3. CASE j = k
    <3>1. On(k) = {c} /\ CacheOf(k, c)
      BY <1>5, <2>1, <2>3 DEF CacheKey, CacheOf
    <3>2. Base(c) = IF health[k] # Nowhere THEN health[k].stats.type ELSE s.type
      BY <1>2, <1>3, <1>4 DEF Base
    <3>3. Base(c)' = IF g.step = "down" THEN g.old.type ELSE s.type
      BY <1>6, <1>7 DEF Base
    <3>4. \A type \in {"MASTER", "REPLICA"} : type = Base(c) => type = Base(c)'
      BY <1>6, <3>2, <3>3
    <3>5. \A type \in {"MASTER", "REPLICA"} : all'[type][k] # Nowhere => type = Base(c)'
      BY <1>1, <3>1, <3>4 DEF CacheOf
    <3>6. g.step = "down" => g.old.alias = s.alias
      BY <1>3, <1>6, <3>1 DEF CacheOf
    <3>7. /\ s.alias \in RemoteAliases => all["REPLICA"][k] = Nowhere
          /\ healthy # Nowhere /\ healthy.stats.key = k => healthy.stats.time <= s.time
      BY <1>3, <3>1 DEF CacheOf
    <3>8. CacheOf(k, c)'
      BY <1>1, <1>6, <1>7, <1>8, <3>1, <3>5, <3>6, <3>7 DEF CacheOf
    <3> QED BY <1>7, <2>3, <3>1, <3>8 DEF CacheKey
  <2> QED BY <2>2, <2>3
<1> QED BY <1>9, <1>10, <1>11 DEF CacheInv

\* The event that takes a tablet out of the cache leaves no entry of its key.
LEMMA Emptied ==
  ASSUME DiscoveryTypes, NEW k \in Addrs, NEW c \in On(k), CacheOf(k, c), NEW s \in Stats,
         StatsUpdate(s), s.key = k, s.type = Base(c), s.alias = check[c].stats.alias, ~s.up
  PROVE  all'["MASTER"][k] = Nowhere /\ all'["REPLICA"][k] = Nowhere
<1>1. ASSUME NEW type \in {"MASTER", "REPLICA"} PROVE all'[type][k] = Nowhere
  <2>0. type \in StatsTypes
    BY DEF StatsTypes
  <2>1. CASE type # s.type
    <3>1. all'[type][k] = all[type][k]
      BY <2>0, <2>1, EntryFacts
    <3> QED BY <2>1, <3>1 DEF CacheOf
  <2>2. CASE type = s.type /\ ~Remote(s)
    BY <2>2, EntryFacts
  <2>3. CASE type = s.type /\ Remote(s)
    <3>1. all' = all
      BY <2>3, EntryFacts
    <3>2. type = "REPLICA" /\ all["REPLICA"][k] = Nowhere
      BY <2>3 DEF Remote, CacheOf
    <3> QED BY <3>1, <3>2
  <2> QED BY <2>1, <2>2, <2>3
<1> QED BY <1>1

\* StatsUpdate leaves the other keys alone.
LEMMA CacheOthers ==
  ASSUME DiscoveryTypes, NEW s \in Stats, StatsUpdate(s), health' = health,
         NEW c \in Checking, check[c].stats.key = s.key,
         \A d \in CheckConns \ {c} : check'[d] = check[d],
         NEW k \in Addrs, k # s.key, On(k)' = On(k), CacheKey(k)
  PROVE  CacheKey(k)'
<1>1. \A d \in On(k) : check'[d] = check[d]
  BY DEF On, Checking
<1>2. all'["MASTER"][k] = all["MASTER"][k] /\ all'["REPLICA"][k] = all["REPLICA"][k]
  BY EntryFacts DEF StatsTypes
<1>3. healthy' # Nowhere /\ healthy'.stats.key = k => healthy' = healthy
  <2>1. CASE s.type # "MASTER"
    BY <2>1, HealthyFacts
  <2>2. CASE s.type = "MASTER" /\ s.up
    BY <2>2, HealthyFacts
  <2>3. CASE s.type = "MASTER" /\ ~s.up
    BY <2>3, HealthyFacts
  <2> QED BY <2>1, <2>2, <2>3
<1> QED BY <1>1, <1>2, <1>3, CacheElse

\* The event for the old type.
LEMMA DownKeeps ==
  ASSUME DiscoveryInv, NEW c \in CheckConns, sendDown(c)
  PROVE  DiscoveryInv'
<1> USE DEF DiscoveryInv
<1>1. /\ known' = known /\ loads' = loads /\ tasks' = tasks /\ crossed' = crossed
      /\ health' = health /\ hcClosed' = hcClosed /\ actual' = actual /\ raced' = raced
  BY DEF sendDown, watcherVars
<1>2. /\ check[c].step = "down" /\ c \in Checking /\ check[c] \in Goroutine
      /\ check[c].stats \in Stats
  BY GoroutineFacts DEF sendDown, Checking
<1>3. PICK k \in Addrs : k = check[c].stats.key
  BY <1>2, StatsFacts
<1>4. GoroutineOk(c) /\ c \in On(k)
  BY <1>2, <1>3 DEF ConnInv, On
<1>5. PICK o \in Stats : o = check[c].old
  BY <1>2, <1>4 DEF Goroutine, GoroutineOk
<1>6. PICK s : s = [o EXCEPT !.up = FALSE]
  OBVIOUS
<1>7. s \in Stats /\ s.key = k /\ s.type = o.type /\ s.alias = o.alias /\ ~s.up
  <2>1. s \in Stats /\ s.key = o.key /\ s.type = o.type /\ s.alias = o.alias /\ ~s.up
    BY <1>6 DEF Stats
  <2> QED BY <1>2, <1>3, <1>4, <1>5, <2>1 DEF GoroutineOk
<1>8. StatsUpdate(s)
  BY <1>5, <1>6, SMT DEF sendDown, StatsUpdate, HealthyMaster, Trivial
<1>9. PICK g : g = [check[c] EXCEPT !.step = "send", !.old = Nowhere]
  OBVIOUS
<1>10. /\ g \in Goroutine /\ g.step = "send" /\ g.stats = check[c].stats
       /\ g.linked = check[c].linked /\ g.cancelled = check[c].cancelled
  BY <1>2, <1>9 DEF Goroutine
<1>11. check' = [check EXCEPT ![c] = g]
  BY <1>9 DEF sendDown, DiscoveryTypes
<1>12. /\ check' \in [CheckConns -> Goroutine \cup {Idle}]
       /\ check'[c] = g /\ \A d \in CheckConns \ {c} : check'[d] = check[d]
       /\ Checking' = Checking /\ \A j : On(j)' = On(j)
  BY <1>2, <1>10, <1>11, Goes
<1>13. ConnInv'
  <2>1. /\ ~g.stats.up => g.cancelled
        /\ g.stats.good => g.linked
        /\ g.stats.time <= actual[g.stats.key].time
    BY <1>4, <1>10 DEF GoroutineOk
  <2> QED BY <1>1, <1>2, <1>10, <1>11, <2>1, GoKeeps
<1>14. MasterInv'
  BY <1>1, <1>7, <1>8, MasterKeeps
<1>15. DiscoveryTypes' /\ WatchInv'
  <2>1. all' \in [StatsTypes -> [Addrs -> Stats \cup {Nowhere}]]
    BY <1>7, <1>8, EntryFacts
  <2>2. healthy' \in KeptMaster \cup {Nowhere} /\ reported' \subseteq Addrs
    BY <1>7, <1>8, HealthyFacts
  <2>3. DiscoveryTypes'
    BY <1>1, <1>12, <2>1, <2>2 DEF DiscoveryTypes
  <2> QED BY <1>1, <2>3, WatchSame
<1>16. ASSUME NEW j \in Addrs \ raced' PROVE CacheKey(j)'
  <2>1. CacheKey(j)
    BY <1>1, <1>16 DEF CacheInv
  <2>2. CASE j # k
    BY <1>1, <1>2, <1>3, <1>7, <1>8, <1>12, <2>1, <2>2, CacheOthers
  <2>3. CASE j = k
    <3>1. On(k) = {c} /\ CacheOf(k, c)
      BY <1>4, <2>1, <2>3 DEF CacheKey, CacheOf
    <3>2. Base(c) = s.type /\ s.alias = check[c].stats.alias
      BY <1>2, <1>5, <1>7, <3>1 DEF Base, CacheOf
    <3>3. all'["MASTER"][k] = Nowhere /\ all'["REPLICA"][k] = Nowhere
      BY <1>4, <1>7, <1>8, <3>1, <3>2, Emptied
    <3>4. healthy' # Nowhere /\ healthy'.stats.key = k => FALSE
      BY <1>14, <3>3 DEF MasterInv, MasterIsLatest
    <3>5. /\ health[k] # Nowhere =>
               /\ health[k].stats.alias = check[c].stats.alias
               /\ health[k].stats = check[c].stats /\ health[k].up = check[c].linked
      BY <1>2, <3>1 DEF CacheOf
    <3>6. CacheOf(k, c)'
      BY <1>1, <1>10, <1>12, <3>1, <3>3, <3>4, <3>5 DEF CacheOf
    <3> QED BY <1>12, <2>3, <3>1, <3>6 DEF CacheKey
  <2> QED BY <2>2, <2>3
<1> QED BY <1>13, <1>14, <1>15, <1>16 DEF CacheInv

\* The event with what the tablet said.
LEMMA SendKeeps ==
  ASSUME DiscoveryInv, NEW c \in CheckConns, sendUpdate(c)
  PROVE  DiscoveryInv'
<1> USE DEF DiscoveryInv
<1>1. /\ known' = known /\ loads' = loads /\ tasks' = tasks /\ crossed' = crossed
      /\ health' = health /\ hcClosed' = hcClosed /\ actual' = actual /\ raced' = raced
  BY DEF sendUpdate, watcherVars
<1>2. /\ check[c].step = "send" /\ c \in Checking /\ check[c] \in Goroutine
      /\ check[c].stats \in Stats
  BY GoroutineFacts DEF sendUpdate, Checking
<1>3. PICK s \in Stats : s = check[c].stats
  BY <1>2
<1>4. PICK k \in Addrs : k = s.key
  BY StatsFacts
<1>5. GoroutineOk(c) /\ c \in On(k) /\ s.up \in BOOLEAN /\ s.time \in Nat
  <2>1. GoroutineOk(c) /\ c \in On(k)
    BY <1>2, <1>3, <1>4 DEF ConnInv, On
  <2> QED BY <2>1, StatsFacts
<1>6. StatsUpdate(s)
  BY <1>3 DEF sendUpdate, StatsUpdate, HealthyMaster, Trivial
<1>7. ASSUME k \notin raced PROVE On(k) = {c} /\ CacheOf(k, c) /\ Base(c) = s.type
  BY <1>2, <1>3, <1>5, <1>7 DEF CacheInv, CacheKey, CacheOf, Base
<1>8. MasterInv'
  <2>1. raced = {} /\ s.up /\ healthy # Nowhere /\ healthy.stats.key = s.key =>
          healthy.stats.time <= s.time
    BY <1>3, <1>4, <1>7 DEF CacheOf
  <2> QED BY <1>1, <1>6, <2>1, MasterKeeps
<1>9. /\ all' \in [StatsTypes -> [Addrs -> Stats \cup {Nowhere}]]
      /\ healthy' \in KeptMaster \cup {Nowhere} /\ reported' \subseteq Addrs
  BY <1>6, EntryFacts, HealthyFacts
<1>10. WatchInv'
  BY <1>1, WatchSame
<1>11. CASE ~s.up
  <2>1. check' = [check EXCEPT ![c] = Idle] /\ check[c].cancelled
    BY <1>3, <1>5, <1>11 DEF sendUpdate, GoroutineOk
  <2>2. /\ ConnInv' /\ check' \in [CheckConns -> Goroutine \cup {Idle}]
        /\ \A d \in CheckConns \ {c} : check'[d] = check[d]
        /\ \A j : On(j)' = On(j) \ {c}
    BY <1>1, <1>2, <2>1, EndKeeps
  <2>3. DiscoveryTypes'
    BY <1>1, <1>9, <2>2 DEF DiscoveryTypes
  <2>4. ASSUME NEW j \in Addrs \ raced' PROVE CacheKey(j)'
    <3>1. CacheKey(j)
      BY <1>1, <2>4 DEF CacheInv
    <3>2. CASE j # k
      <4>1. On(j)' = On(j)
        <5>1. c \notin On(j)
          BY <1>3, <1>4, <3>2 DEF On
        <5> QED BY <2>2, <5>1
      <4> QED BY <1>1, <1>2, <1>3, <1>4, <1>6, <2>2, <3>1, <3>2, <4>1, CacheOthers
    <3>3. CASE j = k
      <4>1. On(k)' = {}
        BY <1>1, <1>7, <2>2, <2>4, <3>3
      <4>2. all'["MASTER"][k] = Nowhere /\ all'["REPLICA"][k] = Nowhere
        BY <1>1, <1>3, <1>4, <1>5, <1>6, <1>7, <1>11, <2>4, <3>3, Emptied
      <4> QED BY <3>3, <4>1, <4>2 DEF CacheKey
    <3> QED BY <3>2, <3>3
  <2> QED BY <1>8, <1>10, <2>2, <2>3, <2>4 DEF CacheInv
<1>12. CASE s.up
  <2>0. PICK g : g = [check[c] EXCEPT !.step = "run"]
    OBVIOUS
  <2>1. /\ g \in Goroutine /\ g.step = "run" /\ g.stats = s
        /\ g.linked = check[c].linked /\ g.cancelled = check[c].cancelled
    BY <1>2, <1>3, <2>0 DEF Goroutine
  <2>2. check' = [check EXCEPT ![c] = g]
    BY <1>3, <1>12, <2>0 DEF sendUpdate, DiscoveryTypes
  <2>3. /\ check' \in [CheckConns -> Goroutine \cup {Idle}]
        /\ check'[c] = g /\ \A d \in CheckConns \ {c} : check'[d] = check[d]
        /\ Checking' = Checking /\ \A j : On(j)' = On(j)
    BY <1>2, <1>3, <2>1, <2>2, Goes
  <2>4. ConnInv'
    <3>1. /\ ~g.stats.up => g.cancelled
          /\ g.stats.good => g.linked
          /\ g.stats.time <= actual[g.stats.key].time
      BY <1>3, <1>5, <2>1 DEF GoroutineOk
    <3> QED BY <1>1, <1>2, <1>3, <2>1, <2>2, <3>1, GoKeeps
  <2>5. DiscoveryTypes'
    BY <1>1, <1>9, <2>3 DEF DiscoveryTypes
  <2>6. ASSUME NEW j \in Addrs \ raced' PROVE CacheKey(j)'
    <3>1. CacheKey(j)
      BY <1>1, <2>6 DEF CacheInv
    <3>2. CASE j # k
      BY <1>1, <1>2, <1>3, <1>4, <1>6, <2>3, <3>1, <3>2, CacheOthers
    <3>3. CASE j = k
      <4>1. On(k) = {c} /\ CacheOf(k, c) /\ Base(c) = s.type
        BY <1>1, <1>7, <2>6, <3>3
      <4>2. Base(c)' = s.type
        BY <2>1, <2>3 DEF Base
      <4>3. ASSUME NEW type \in {"MASTER", "REPLICA"}, all'[type][k] # Nowhere PROVE type = s.type
        <5>1. SUFFICES ASSUME type # s.type PROVE FALSE
          OBVIOUS
        <5>2. all'[type][k] = all[type][k]
          BY <1>6, <5>1, EntryFacts DEF StatsTypes
        <5> QED BY <4>1, <4>3, <5>1, <5>2 DEF CacheOf
      <4>4. s.alias \in RemoteAliases => all'["REPLICA"][k] = Nowhere
        <5>1. SUFFICES ASSUME s.alias \in RemoteAliases, s.type = "REPLICA"
              PROVE  all'["REPLICA"][k] = Nowhere
          BY <4>3
        <5>2. all' = all
          BY <1>6, <5>1, EntryFacts DEF Remote
        <5> QED BY <1>3, <4>1, <5>1, <5>2 DEF CacheOf
      <4>5. all'["REPLICA"][k] # Nowhere /\ all'["REPLICA"][k].good => check[c].linked
        <5>1. SUFFICES ASSUME all'["REPLICA"][k] # Nowhere, all'["REPLICA"][k].good
              PROVE  s.good
          BY <1>3, <1>5 DEF GoroutineOk
        <5>2. s.type = "REPLICA" /\ ~Remote(s)
          BY <4>3, <4>4, <5>1 DEF Remote
        <5>3. all'[s.type][s.key] = s \/ s.good
          BY <1>6, <1>12, <5>2, EntryFacts
        <5> QED BY <1>4, <5>1, <5>2, <5>3
      <4>6. healthy' # Nowhere /\ healthy'.stats.key = k => healthy'.stats.time <= s.time
        <5>1. s.time <= s.time
          BY <1>5, SMT
        <5>2. healthy # Nowhere /\ healthy.stats.key = k => healthy.stats.time <= s.time
          BY <1>3, <4>1 DEF CacheOf
        <5>3. CASE s.type # "MASTER"
          BY <1>6, <5>2, <5>3, HealthyFacts
        <5>4. CASE s.type = "MASTER"
          <6>1. healthy'.stats = s \/ healthy' = healthy
            BY <1>6, <1>12, <5>4, HealthyFacts
          <6> QED BY <5>1, <5>2, <6>1
        <5> QED BY <5>3, <5>4
      <4>7. health[k] # Nowhere =>
              /\ health[k].stats.alias = s.alias
              /\ health[k].stats = s /\ health[k].up = check[c].linked
        BY <1>2, <1>3, <4>1 DEF CacheOf
      <4>8. CacheOf(k, c)'
        BY <1>1, <2>1, <2>3, <4>1, <4>2, <4>3, <4>4, <4>5, <4>6, <4>7 DEF CacheOf
      <4> QED BY <2>3, <3>3, <4>1, <4>8 DEF CacheKey
    <3> QED BY <3>2, <3>3
  <2> QED BY <1>8, <1>10, <2>4, <2>5, <2>6 DEF CacheInv
<1> QED BY <1>5, <1>11, <1>12

\* A tablet is promoted or demoted.
LEMMA TabletKeeps ==
  ASSUME DiscoveryInv, NEW k \in Addrs, Promote(k) \/ Demote(k)
  PROVE  DiscoveryInv'
<1> USE DEF DiscoveryInv
<1>1. /\ known' = known /\ loads' = loads /\ tasks' = tasks /\ crossed' = crossed
      /\ health' = health /\ hcClosed' = hcClosed /\ check' = check /\ raced' = raced
      /\ statsCacheVars' = statsCacheVars
      /\ all' = all /\ healthy' = healthy /\ reported' = reported
  BY DEF Promote, Demote, watcherVars, statsCacheVars
<1>2. actual \in [Addrs -> [type : {"MASTER", "REPLICA"}, time : 0..MaxReparent]]
  BY DEF DiscoveryTypes
<1>3. /\ actual' \in [Addrs -> [type : {"MASTER", "REPLICA"}, time : 0..MaxReparent]]
      /\ \A j \in Addrs : actual[j].time <= actual'[j].time
  <2>0. \A j \in Addrs : actual[j].time \in Nat /\ actual[j].time <= actual[j].time
    BY <1>2, TimesAreNat, ActualTimes, SMT
  <2>1. CASE Promote(k)
    <3>1. PICK time \in 1..MaxReparent :
            /\ actual[k].time < time
            /\ actual' = [actual EXCEPT ![k] = [type |-> "MASTER", time |-> time]]
      BY <2>1 DEF Promote
    <3>2. time \in 0..MaxReparent /\ actual[k].time <= time
      BY <2>0, <3>1, DiscoveryAssumption, SMT
    <3>3. PICK a : a = [type |-> "MASTER", time |-> time]
      OBVIOUS
    <3>4. a \in [type : {"MASTER", "REPLICA"}, time : 0..MaxReparent] /\ a.time = time
      BY <3>2, <3>3
    <3>5. actual' = [actual EXCEPT ![k] = a]
      BY <3>1, <3>3
    <3> QED BY <1>2, <2>0, <3>2, <3>4, <3>5
  <2>2. CASE Demote(k)
    <3>3. PICK a : a = [actual[k] EXCEPT !.type = "REPLICA"]
      OBVIOUS
    <3>4. /\ a \in [type : {"MASTER", "REPLICA"}, time : 0..MaxReparent]
          /\ a.time = actual[k].time
      BY <1>2, <3>3
    <3>5. actual' = [actual EXCEPT ![k] = a]
      BY <1>2, <2>2, <3>3 DEF Demote
    <3> QED BY <1>2, <2>0, <3>4, <3>5
  <2> QED BY <2>1, <2>2
<1>4. DiscoveryTypes' /\ WatchInv' /\ MasterInv'
  BY <1>1, <1>3, WatchSame, MasterSame DEF DiscoveryTypes
<1>5. ConnInv'
  <2>1. \A j \in Addrs : actual[j].time \in Nat /\ actual'[j].time \in Nat
    <3>1. \A j \in Addrs : actual[j].time \in 0..MaxReparent /\ actual'[j].time \in 0..MaxReparent
      BY <1>2, <1>3
    <3> QED BY <3>1, TimesAreNat
  <2> QED BY <1>1, <1>3, <2>1, ActualKeeps
<1>6. CacheInv'
  <2>1. \A j : On(j)' = On(j)
    BY <1>1 DEF On, Checking
  <2> QED BY <1>1, <2>1, CacheElse DEF CacheInv
<1> QED BY <1>4, <1>5, <1>6

LEMMA ClosesKeeps ==
  ASSUME DiscoveryInv, HealthCheckCloses
  PROVE  DiscoveryInv'
<1> USE DEF DiscoveryInv
<1>1. /\ known' = known /\ loads' = loads /\ tasks' = tasks /\ crossed' = crossed
      /\ health' = health /\ check' = check /\ raced' = raced /\ actual' = actual
      /\ statsCacheVars' = statsCacheVars /\ hcClosed' = "closed" /\ Checking = {}
      /\ all' = all /\ healthy' = healthy /\ reported' = reported
  BY DEF HealthCheckCloses, watcherVars, statsCacheVars
<1>2. DiscoveryTypes' /\ WatchInv' /\ MasterInv'
  BY <1>1, WatchSame, MasterSame DEF DiscoveryTypes
<1>3. Checking' = Checking /\ \A j : On(j)' = On(j)
  BY <1>1 DEF On, Checking
<1>4. ConnInv'
  BY <1>1, <1>3 DEF ConnInv, EntryOk
<1>5. CacheInv'
  BY <1>1, <1>3, CacheElse DEF CacheInv
<1> QED BY <1>2, <1>4, <1>5

LEMMA DiscoveryStep ==
  ASSUME DiscoveryInv, [DiscoveryNext]_discoveryVars
  PROVE  DiscoveryInv'
<1>1. CASE loadTablets
  BY <1>1, LoadKeeps
<1>2. CASE CloseHealthCheck
  BY <1>2, CloseKeeps
<1>3. CASE HealthCheckCloses
  BY <1>3, ClosesKeeps
<1>4. ASSUME NEW t \in tasks, deleteConn(t) PROVE DiscoveryInv'
  BY <1>4, DeleteKeeps
<1>5. ASSUME NEW t \in tasks, AddTablet(t) PROVE DiscoveryInv'
  BY <1>5, AddKeeps
<1>6. ASSUME NEW k \in Addrs, Promote(k) \/ Demote(k) PROVE DiscoveryInv'
  BY <1>6, TabletKeeps
<1>7. ASSUME NEW c \in CheckConns, processResponse(c) \/ streamFails(c) \/ finalizeConn(c)
      PROVE  DiscoveryInv'
  BY <1>7, UpdatesKeep
<1>8. ASSUME NEW c \in CheckConns, lockHealth(c) PROVE DiscoveryInv'
  BY <1>8, LockKeeps
<1>9. ASSUME NEW c \in CheckConns, sendDown(c) PROVE DiscoveryInv'
  BY <1>9, DownKeeps
<1>10. ASSUME NEW c \in CheckConns, sendUpdate(c) PROVE DiscoveryInv'
  BY <1>10, SendKeeps
<1>11. CASE UNCHANGED discoveryVars
  <2>1. /\ health' = health /\ check' = check /\ hcClosed' = hcClosed /\ actual' = actual
        /\ statsCacheVars' = statsCacheVars /\ raced' = raced /\ known' = known
        /\ loads' = loads /\ tasks' = tasks /\ crossed' = crossed
        /\ all' = all /\ healthy' = healthy /\ reported' = reported
    BY <1>11 DEF discoveryVars, watcherVars, statsCacheVars
  <2>2. ConnInv' /\ CacheInv' /\ MasterInv'
    BY <2>1, RestKeeps
  <2>3. DiscoveryTypes' /\ WatchInv'
    BY <2>1, WatchSame DEF DiscoveryInv, DiscoveryTypes
  <2> QED BY <2>2, <2>3 DEF DiscoveryInv
<1> QED BY <1>1, <1>2, <1>3, <1>4, <1>5, <1>6, <1>7, <1>8, <1>9, <1>10, <1>11 DEF DiscoveryNext

\* The inductive invariant of Discovery: what the calls under way will do with
\* a key, which goroutine an entry has, and what the cache may have of a key at
\* each step of updateHealth.
THEOREM DiscoveryInvariant == DiscoverySpec => []DiscoveryInv
BY DiscoveryStarts, DiscoveryStep, PTL DEF DiscoverySpec

LEMMA DiscoveryInvAgrees ==
  DiscoveryInv => DiscoveryAgrees
<1> SUFFICES ASSUME DiscoveryInv PROVE DiscoveryAgrees
  OBVIOUS
<1> USE DEF DiscoveryInv
<1>1. KnownIsChecked
  <2>1. SUFFICES ASSUME NEW k \in Addrs \ crossed, ~Pending(k), hcClosed = "open"
                 PROVE  SameKey(k) # {} <=> health[k] # Nowhere
    BY DEF KnownIsChecked
  <2>2. CallsOn(k)
    BY <2>1 DEF WatchInv
  <2>3. \A t \in tasks : t.del # k /\ t.key # k
    BY <2>1 DEF Pending
  <2> QED BY <2>2, <2>3 DEF CallsOn, Deletes
<1>2. CacheFollows
  <2>1. SUFFICES ASSUME NEW k \in Addrs \ raced, Settled(k)
                 PROVE  /\ \A type \in {"MASTER", "REPLICA"} : all[type][k] # Nowhere =>
                             health[k] # Nowhere /\ health[k].stats.type = type
                        /\ all["REPLICA"][k] # Nowhere /\ all["REPLICA"][k].good => health[k].up
    BY DEF CacheFollows
  <2>2. CacheKey(k)
    BY DEF CacheInv
  <2>3. CASE On(k) = {}
    BY <2>2, <2>3 DEF CacheKey
  <2>4. CASE On(k) # {}
    <3>1. PICK c \in On(k) : TRUE
      BY <2>4
    <3>2. CacheOf(k, c) /\ check[c].step = "run" /\ health[k] # Nowhere
      BY <2>1, <2>2, <3>1 DEF CacheKey, Settled, CheckedBy
    <3>3. Base(c) = check[c].stats.type
      BY <3>2 DEF Base
    <3> QED BY <3>2, <3>3 DEF CacheOf
  <2> QED BY <2>3, <2>4
<1>3. MasterIsLatest /\ CloseIsFinal
  BY DEF MasterInv, ConnInv, CloseIsFinal
<1> QED BY <1>1, <1>2, <1>3 DEF DiscoveryAgrees

\* Unless calls or updates overlapped, the tablets that are checked are those
\* the watcher knows and the cache has what they last said; the master that is
\* kept is the latest of those that reported since there is one; and nothing
\* follows the return of Close.
THEOREM DiscoveryPromises == DiscoverySpec => []DiscoveryAgrees
BY DiscoveryInvariant, DiscoveryInvAgrees, PTL

-----------------------------------------------------------------------------
(* The replication lag filter.                                             *)

(* The seconds of one tablet.                                              *)
LEMMA OwnSeconds ==
  ASSUME NEW t, NEW n \in Nat
  PROVE  IsFiniteSet({t} \X (1..n)) /\ Cardinality({t} \X (1..n)) = n
<1>1. IsFiniteSet(1..n) /\ Cardinality(1..n) = n
  BY FS_Interval, SMT
<1>2. IsFiniteSet({t}) /\ Cardinality({t}) = 1
  BY FS_Singleton
<1>3. IsFiniteSet({t} \X (1..n)) /\ Cardinality({t} \X (1..n)) = Cardinality({t}) * Cardinality(1..n)
  BY <1>1, <1>2, FS_Product
<1> QED BY <1>1, <1>2, <1>3, SMT

(* The sum of the lags without one of them.                                *)
LEMMA SumWithout ==
  ASSUME NEW S, IsFiniteSet(S), NEW lag, \A u \in S : lag[u] \in Nat, NEW t \in S
  PROVE  sum(lag, S \ {t}) \in Nat /\ sum(lag, S) = sum(lag, S \ {t}) + lag[t]
<1> DEFINE Own == {t} \X (1..lag[t])
           Rest == Seconds(lag, S \ {t})
<1>1. IsFiniteSet(Own) /\ Cardinality(Own) = lag[t]
  BY OwnSeconds
<1>2. IsFiniteSet(Rest)
  <2> DEFINE T == {{u} \X (1..lag[u]) : u \in S \ {t}}
             f == [u \in S \ {t} |-> {u} \X (1..lag[u])]
  <2>1. IsFiniteSet(S \ {t})
    BY FS_RemoveElement
  <2>2. f \in Surjection(S \ {t}, T)
    BY DEF Surjection
  <2>3. IsFiniteSet(T)
    BY <2>1, <2>2, FS_Surjection
  <2>4. ASSUME NEW V \in T PROVE IsFiniteSet(V)
    <3>1. PICK u \in S \ {t} : V = {u} \X (1..lag[u])
      OBVIOUS
    <3> QED BY <3>1, OwnSeconds
  <2>5. IsFiniteSet(UNION T)
    BY <2>3, <2>4, FS_UNION
  <2> QED BY <2>5 DEF Seconds
<1>3. Seconds(lag, S) = Own \cup Rest
  BY SMT DEF Seconds
<1>4. Own \cap Rest = {}
  BY SMT DEF Seconds
<1>5. Cardinality(Own \cup Rest) = Cardinality(Own) + Cardinality(Rest) - Cardinality(Own \cap Rest)
  BY <1>1, <1>2, FS_Union
<1>6. Cardinality(Own \cap Rest) = 0 /\ Cardinality(Rest) \in Nat
  BY <1>2, <1>4, FS_EmptySet, FS_CardinalityType
<1>7. Cardinality(Own \cup Rest) = Cardinality(Rest) + lag[t]
  BY <1>1, <1>5, <1>6, SMT
<1> QED BY <1>3, <1>6, <1>7 DEF sum

LEMMA Division ==
  ASSUME NEW a \in Nat, NEW b \in Nat, NEW n \in Nat \ {0}, a <= b
  PROVE  a \div n \in Nat /\ b \div n \in Nat /\ a \div n <= b \div n
BY SMT

(* Without a tablet of less lag the mean is not less than without one of   *)
(* more.                                                                   *)
LEMMA MeanWithout ==
  ASSUME NEW S, IsFiniteSet(S), NEW lag, \A u \in S : lag[u] \in Nat,
         NEW t \in S, NEW u \in S, lag[u] <= lag[t], Cardinality(S) > 1
  PROVE  /\ mean(lag, S) \in Nat /\ mean(lag, S \ {t}) \in Nat /\ mean(lag, S \ {u}) \in Nat
         /\ mean(lag, S \ {t}) <= mean(lag, S \ {u})
<1> DEFINE n == Cardinality(S) - 1
<1>1. /\ Cardinality(S) \in Nat \ {0} /\ n \in Nat \ {0}
      /\ Cardinality(S \ {t}) = n /\ Cardinality(S \ {u}) = n
  <2>1. Cardinality(S) \in Nat
    BY FS_CardinalityType
  <2>2. Cardinality(S \ {t}) = n /\ Cardinality(S \ {u}) = n
    BY FS_RemoveElement
  <2> QED BY <2>1, <2>2, SMT
<1>2. S # {} /\ S \ {t} # {} /\ S \ {u} # {}
  BY <1>1, FS_EmptySet
<1>3. /\ sum(lag, S \ {t}) \in Nat /\ sum(lag, S) = sum(lag, S \ {t}) + lag[t]
      /\ sum(lag, S \ {u}) \in Nat /\ sum(lag, S) = sum(lag, S \ {u}) + lag[u]
  BY SumWithout
<1>4. sum(lag, S) \in Nat /\ sum(lag, S \ {t}) <= sum(lag, S \ {u})
  BY <1>3, SMT
<1> HIDE DEF n
<1>5. /\ sum(lag, S \ {t}) \div n \in Nat /\ sum(lag, S \ {u}) \div n \in Nat
      /\ sum(lag, S \ {t}) \div n <= sum(lag, S \ {u}) \div n
  BY <1>1, <1>3, <1>4, Division
<1>6. sum(lag, S) \div Cardinality(S) \in Nat
  BY <1>1, <1>4, Division, SMT
<1> QED BY <1>1, <1>2, <1>5, <1>6 DEF mean

(* The tablets of R are among those of S that lag least.                   *)
Lesser(lag, R, S) == R \subseteq S /\ \A t \in R, u \in S \ R : lag[t] <= lag[u]
NotVeryHigh(lag, S) == {t \in S : ~IsReplicationLagVeryHigh(lag, t)}

(* What filterByLag keeps: those of less lag, enough of them, and one.     *)
Kept(lag, R, S) ==
  /\ Lesser(lag, R, S)
  /\ Cardinality(R) >= MinNumTablets \/ NotVeryHigh(lag, S) \subseteq R
  /\ S # {} => R # {}

LEMMA LeastKept ==
  ASSUME NEW S, IsFiniteSet(S), NEW lag, \A u \in S : lag[u] \in Nat, NEW R,
         R \in Least(lag, S, MinNumTablets)
  PROVE  /\ Lesser(lag, R, S) /\ Cardinality(R) <= MinNumTablets
         /\ Cardinality(R) >= MinNumTablets \/ R = S
         /\ S # {} => R # {}
<1> DEFINE n == IF MinNumTablets < Cardinality(S) THEN MinNumTablets ELSE Cardinality(S)
<1>1. /\ R \subseteq S /\ Cardinality(R) = n /\ \A t \in R, u \in S \ R : lag[t] <= lag[u]
  BY DEF Least, kSubset
<1>2. Cardinality(S) \in Nat /\ MinNumTablets \in Nat \ {0}
  BY FS_CardinalityType, LagFilterAssumption
<1>3. Cardinality(R) <= MinNumTablets /\ (Cardinality(R) >= MinNumTablets \/ Cardinality(S) = Cardinality(R))
  BY <1>1, <1>2, SMT
<1>4. Cardinality(S) = Cardinality(R) => R = S
  BY <1>1, FS_Subset
<1>5. S # {} => R # {}
  <2>1. S # {} => Cardinality(S) # 0
    BY FS_EmptySet
  <2>2. S # {} => Cardinality(R) # 0
    BY <1>1, <1>2, <2>1, SMT
  <2> QED BY <2>2, FS_EmptySet
<1> QED BY <1>1, <1>3, <1>4, <1>5 DEF Lesser

LEMMA FilterKeeps ==
  ASSUME NEW S, IsFiniteSet(S), NEW lag, \A u \in S : lag[u] \in Nat, NEW R,
         R \in filterByLag(lag, S)
  PROVE  /\ Kept(lag, R, S)
         /\ Cardinality(R) > MinNumTablets => R \in {S, NearMean(lag, S)}
<1> DEFINE E == NotVeryHigh(lag, S)
<1>1. Cardinality(S) \in Nat /\ MinNumTablets \in Nat \ {0} /\ VeryHighLag \in Nat
  BY FS_CardinalityType, LagFilterAssumption
<1>2. CASE R = S
  BY <1>2 DEF Kept, Lesser, NotVeryHigh
<1>3. CASE ~(Cardinality(S) <= 1) /\ R = NearMean(lag, S) /\ Cardinality(R) >= MinNumTablets
  <2>1. Cardinality(S) > 1
    BY <1>1, <1>3, SMT
  <2>2. ASSUME NEW t \in R, NEW u \in S \ R PROVE lag[t] <= lag[u]
    <3>1. t \in S /\ MoreThanMost(mean(lag, S \ {t}), mean(lag, S))
          /\ ~MoreThanMost(mean(lag, S \ {u}), mean(lag, S))
      BY <1>3, <2>2 DEF NearMean
    <3>2. CASE ~(lag[u] <= lag[t])
      <4>1. lag[u] \in Nat /\ lag[t] \in Nat
        BY <3>1
      <4> QED BY <3>2, <4>1, SMT
    <3>3. CASE lag[u] <= lag[t]
      <4>1. /\ mean(lag, S) \in Nat /\ mean(lag, S \ {t}) \in Nat /\ mean(lag, S \ {u}) \in Nat
            /\ mean(lag, S \ {t}) <= mean(lag, S \ {u})
        BY <2>1, <3>1, <3>3, MeanWithout
      <4>2. mean(lag, S \ {t}) # mean(lag, S \ {u})
        BY <3>1
      <4> QED BY <3>1, <4>1, <4>2, SMT DEF MoreThanMost
    <3> QED BY <3>2, <3>3
  <2>3. R # {}
    <3>1. Cardinality(R) # 0
      <4>1. ~(0 >= MinNumTablets)
        BY <1>1, SMT
      <4> QED BY <1>3, <4>1
    <3> QED BY <3>1, FS_EmptySet
  <2>4. R \subseteq S
    BY <1>3 DEF NearMean
  <2> QED BY <1>3, <2>2, <2>3, <2>4 DEF Kept, Lesser
<1>4. CASE R \in Least(lag, IF E = {} THEN S ELSE E, MinNumTablets)
  <2>1. E \subseteq S /\ IsFiniteSet(E)
    BY FS_Subset DEF NotVeryHigh
  <2>2. CASE E = {}
    <3>1. /\ Lesser(lag, R, S) /\ Cardinality(R) <= MinNumTablets
          /\ Cardinality(R) >= MinNumTablets \/ R = S
          /\ S # {} => R # {}
      BY <1>4, <2>2, LeastKept
    <3>2. IsFiniteSet(R) /\ Cardinality(R) \in Nat
      BY <3>1, FS_Subset, FS_CardinalityType DEF Lesser
    <3>3. ~(Cardinality(R) > MinNumTablets)
      BY <1>1, <3>1, <3>2, SMT
    <3> QED BY <2>1, <2>2, <3>1, <3>3 DEF Kept
  <2>3. CASE E # {}
    <3>1. /\ Lesser(lag, R, E) /\ Cardinality(R) <= MinNumTablets
          /\ Cardinality(R) >= MinNumTablets \/ R = E
          /\ R # {}
      BY <1>4, <2>1, <2>3, LeastKept
    <3>2. \A t \in E, u \in S \ E : lag[t] <= lag[u]
      BY <1>1, <2>1, SMT DEF NotVeryHigh, IsReplicationLagVeryHigh
    <3>3. Lesser(lag, R, S)
      BY <2>1, <3>1, <3>2 DEF Lesser
    <3>4. R \subseteq S /\ IsFiniteSet(R) /\ Cardinality(R) \in Nat
      BY <3>3, FS_Subset, FS_CardinalityType DEF Lesser
    <3>5. ~(Cardinality(R) > MinNumTablets)
      BY <1>1, <3>1, <3>4, SMT
    <3> QED BY <3>1, <3>3, <3>5 DEF Kept
  <2> QED BY <2>2, <2>3
<1> QED BY <1>2, <1>3, <1>4 DEF filterByLag, NotVeryHigh

(* And what is left of it when it runs twice.                              *)
LEMMA FilterTwiceKeeps ==
  ASSUME NEW S, IsFiniteSet(S), NEW lag, \A u \in S : lag[u] \in Nat, NEW listed, NEW Q,
         Q \in FilterByReplicationLag(lag, listed, S)
  PROVE  Kept(lag, Q, S)
<1>1. PICK R \in filterByLag(lag, S) :
        \/ Q = R
        \/ Cardinality(R) > MinNumTablets /\ Q \in filterByLag(lag, R)
  BY DEF FilterByReplicationLag
<1>2. Kept(lag, R, S)
  BY FilterKeeps
<1>3. ASSUME Cardinality(R) > MinNumTablets, Q \in filterByLag(lag, R) PROVE Kept(lag, Q, S)
  <2>1. R \subseteq S /\ IsFiniteSet(R) /\ \A u \in R : lag[u] \in Nat
    BY <1>2, FS_Subset DEF Kept, Lesser
  <2>2. Kept(lag, Q, R)
    BY <1>3, <2>1, FilterKeeps
  <2>3. Lesser(lag, Q, S)
    BY <1>2, <2>2 DEF Kept, Lesser
  <2>4. S # {} => Q # {}
    BY <1>2, <2>2 DEF Kept
  <2>5. ASSUME NotVeryHigh(lag, R) \subseteq Q, NEW u \in NotVeryHigh(lag, S), u \notin Q
        PROVE  Q = R
    <3>1. u \in S \ R
      BY <2>5 DEF NotVeryHigh
    <3>2. ASSUME NEW t \in R PROVE t \in NotVeryHigh(lag, R)
      <4>1. lag[t] <= lag[u] /\ lag[t] \in Nat /\ lag[u] \in Nat
        BY <1>2, <2>1, <3>1 DEF Kept, Lesser
      <4>2. VeryHighLag \in Nat /\ ~(lag[u] > VeryHighLag)
        BY <2>5, LagFilterAssumption DEF NotVeryHigh, IsReplicationLagVeryHigh
      <4>3. ~(lag[t] > VeryHighLag)
        BY <4>1, <4>2, SMT
      <4> QED BY <4>3 DEF NotVeryHigh, IsReplicationLagVeryHigh
    <3> QED BY <2>2, <2>5, <3>2 DEF Kept, Lesser
  <2>6. Q = R => Cardinality(Q) >= MinNumTablets
    <3>1. Cardinality(R) \in Nat /\ MinNumTablets \in Nat
      BY <2>1, FS_CardinalityType, LagFilterAssumption
    <3> QED BY <1>3, <3>1, SMT
  <2>7. Cardinality(Q) >= MinNumTablets \/ NotVeryHigh(lag, S) \subseteq Q
    BY <2>2, <2>5, <2>6 DEF Kept
  <2> QED BY <2>3, <2>4, <2>7 DEF Kept
<1> QED BY <1>1, <1>2, <1>3

(* The list is filtered whenever what is remembered changes, and what was  *)
(* said last differs from it by a trivial update.                          *)
GoodStats == {t \in DOMAIN lagStats : lagStats[t].good}
LagOf == [t \in DOMAIN lagStats |-> lagStats[t].lag]
SaidClose(t) ==
  \/ lagSaid[t] = lagStats[t]
  \/ lagSaid[t].good /\ lagStats[t].good /\ TrivialStatsUpdate(lagStats[t].lag, lagSaid[t].lag)
LagInv ==
  /\ DOMAIN lagStats \subseteq LagTablets /\ DOMAIN lagSaid = DOMAIN lagStats
  /\ \A t \in DOMAIN lagStats : lagStats[t] \in LagStats /\ lagSaid[t] \in LagStats /\ SaidClose(t)
  /\ lagServing \in FilterByReplicationLag(LagOf, DOMAIN lagStats, GoodStats)

LEMMA LagInit == LagFilterInit => LagInv
<1> SUFFICES ASSUME LagFilterInit PROVE LagInv
  OBVIOUS
<1>1. DOMAIN lagStats = {} /\ DOMAIN lagSaid = {} /\ lagServing = {}
  BY SMT DEF LagFilterInit
<1>2. GoodStats = {}
  BY <1>1 DEF GoodStats
<1>3. Cardinality({}) = 0 /\ ~(0 > MinNumTablets) /\ 0 <= 1
  BY FS_EmptySet, LagFilterAssumption, SMT
<1>4. filterByLag(LagOf, {}) = {{}}
  BY <1>3 DEF filterByLag
<1>5. lagServing \in FilterByReplicationLag(LagOf, DOMAIN lagStats, GoodStats)
  BY <1>1, <1>2, <1>3, <1>4 DEF FilterByReplicationLag
<1> QED BY <1>1, <1>5 DEF LagInv

LEMMA LagStep ==
  ASSUME LagInv, LagFilterNext
  PROVE  LagInv'
<1>1. PICK t \in LagTablets : LagDown(t) \/ \E new \in LagStats : LagUpdate(t, new)
  BY DEF LagFilterNext
<1>2. Refilter(lagStats') => lagServing' \in FilterByReplicationLag(LagOf, DOMAIN lagStats, GoodStats)'
  BY DEF Refilter, LagOf, GoodStats
<1>3. CASE LagDown(t)
  <2>1. /\ lagStats' = [u \in DOMAIN lagStats \ {t} |-> lagStats[u]]
        /\ lagSaid' = [u \in DOMAIN lagSaid \ {t} |-> lagSaid[u]]
        /\ Refilter(lagStats')
    BY <1>3 DEF LagDown
  <2>2. DOMAIN lagStats' = DOMAIN lagStats \ {t} /\ DOMAIN lagSaid' = DOMAIN lagStats \ {t}
    BY <2>1 DEF LagInv
  <2>3. \A u \in DOMAIN lagStats' : lagStats'[u] = lagStats[u] /\ lagSaid'[u] = lagSaid[u]
    BY <2>1, <2>2 DEF LagInv
  <2> QED BY <1>2, <2>1, <2>2, <2>3 DEF LagInv, SaidClose
<1>4. ASSUME NEW new \in LagStats, LagUpdate(t, new) PROVE LagInv'
  <2>1. lagSaid' = [u \in DOMAIN lagSaid \cup {t} |-> IF u = t THEN new ELSE lagSaid[u]]
    BY <1>4 DEF LagUpdate
  <2>2. CASE /\ t \in DOMAIN lagStats /\ lagStats[t].good /\ new.good
             /\ TrivialStatsUpdate(lagStats[t].lag, new.lag)
    <3>1. UNCHANGED <<lagStats, lagServing>>
      BY <1>4, <2>2 DEF LagUpdate
    <3>2. DOMAIN lagSaid' = DOMAIN lagStats
      BY <2>1, <2>2 DEF LagInv
    <3>3. \A u \in DOMAIN lagStats : lagSaid'[u] = IF u = t THEN new ELSE lagSaid[u]
      BY <2>1, <2>2 DEF LagInv
    <3>4. lagServing' \in FilterByReplicationLag(LagOf, DOMAIN lagStats, GoodStats)'
      BY <3>1 DEF LagInv, LagOf, GoodStats
    <3> QED BY <1>4, <2>2, <3>1, <3>2, <3>3, <3>4 DEF LagInv, SaidClose
  <2>3. CASE ~ /\ t \in DOMAIN lagStats /\ lagStats[t].good /\ new.good
               /\ TrivialStatsUpdate(lagStats[t].lag, new.lag)
    <3>1. /\ lagStats' = [u \in DOMAIN lagStats \cup {t} |-> IF u = t THEN new ELSE lagStats[u]]
          /\ Refilter(lagStats')
      BY <1>4, <2>3 DEF LagUpdate
    <3>2. DOMAIN lagStats' = DOMAIN lagStats \cup {t} /\ DOMAIN lagSaid' = DOMAIN lagStats \cup {t}
      BY <2>1, <3>1 DEF LagInv
    <3>3. \A u \in DOMAIN lagStats' : /\ lagStats'[u] = IF u = t THEN new ELSE lagStats[u]
                                      /\ lagSaid'[u] = IF u = t THEN new ELSE lagSaid[u]
      BY <2>1, <3>1, <3>2 DEF LagInv
    <3> QED BY <1>2, <1>4, <3>1, <3>2, <3>3 DEF LagInv, SaidClose
  <2> QED BY <2>2, <2>3
<1> QED BY <1>1, <1>3, <1>4

(* LagInv is an invariant of the cache entry and its filter.               *)
THEOREM LagInvariant == LagFilterSpec => []LagInv
<1>1. ASSUME LagInv, [LagFilterNext]_lagVars PROVE LagInv'
  <2>1. CASE UNCHANGED lagVars
    BY <1>1, <2>1 DEF lagVars, LagInv, SaidClose, LagOf, GoodStats
  <2> QED BY <1>1, <2>1, LagStep
<1> QED BY <1>1, LagInit, PTL DEF LagFilterSpec

(* LeastLagServes: the replicas a vtgate routes to are healthy, lag less   *)
(* than the others and are enough, for any tablets, lags and flags and     *)
(* after any sequence of updates.                                          *)
THEOREM LeastLagRouted == LagFilterSpec => []LeastLagServes
<1>1. ASSUME LagInv PROVE LeastLagServes
  <2>1. IsFiniteSet(GoodStats)
    BY <1>1, LagFilterAssumption, FS_Subset DEF LagInv, GoodStats
  <2>2. \A t \in DOMAIN lagStats : lagStats[t].lag \in Nat /\ lagSaid[t].lag \in Nat
    BY <1>1, LagFilterAssumption DEF LagInv, LagStats
  <2>3. \A t \in GoodStats : t \in DOMAIN lagStats /\ LagOf[t] = lagStats[t].lag /\ LagOf[t] \in Nat
    BY <2>2 DEF GoodStats, LagOf
  <2>4. Kept(LagOf, lagServing, GoodStats)
    BY <1>1, <2>1, <2>3, FilterTwiceKeeps DEF LagInv
  <2>5. Good = GoodStats
    BY <1>1 DEF LagInv, SaidClose, Good, GoodStats
  <2>6. ASSUME NEW t \in lagServing, NEW u \in Good \ lagServing
        PROVE  \/ lagSaid[t].lag <= LowLag
               \/ lagSaid[u].lag > LowLag /\ 9 * lagSaid[t].lag <= 11 * lagSaid[u].lag
    <3>1. t \in GoodStats /\ u \in GoodStats /\ LagOf[t] <= LagOf[u]
      BY <2>4, <2>5 DEF Kept, Lesser
    <3>2. lagStats[t].lag <= lagStats[u].lag
      BY <2>3, <3>1
    <3>3. \A v \in {t, u} : \/ lagSaid[v].lag = lagStats[v].lag
                             \/ TrivialStatsUpdate(lagStats[v].lag, lagSaid[v].lag)
      BY <1>1, <2>3, <3>1 DEF LagInv, SaidClose
    <3>4. /\ lagStats[t].lag \in Nat /\ lagSaid[t].lag \in Nat
          /\ lagStats[u].lag \in Nat /\ lagSaid[u].lag \in Nat /\ LowLag \in Nat
      BY <2>2, <2>3, <3>1, LagFilterAssumption
    <3> QED BY <3>2, <3>3, <3>4, SMT DEF TrivialStatsUpdate
  <2>7. Fits = NotVeryHigh(LagOf, GoodStats)
    <3>1. \A t \in GoodStats : lagStats[t].lag <= VeryHighLag <=> ~(LagOf[t] > VeryHighLag)
      BY <2>3, LagFilterAssumption, SMT
    <3> QED BY <2>5, <3>1 DEF Fits, NotVeryHigh, IsReplicationLagVeryHigh
  <2> QED BY <2>4, <2>5, <2>6, <2>7 DEF LeastLagServes, Kept, Lesser
<1> QED BY <1>1, LagInvariant, PTL
=============================================================================
