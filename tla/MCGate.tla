-------------------------------- MODULE MCGate -------------------------------
(***************************************************************************)
(* The components of a vtgate and of the wrangler for TLC, one at a time:  *)
(* see MCParts.                                                            *)
(*   watcher    Discovery, with tablets that never answer                  *)
(*   cache      Discovery, with tablets that stay where they are: one is   *)
(*              promoted and may be demoted, and then the other one        *)
(*   again      Discovery, with a tablet that comes and goes               *)
(*   stopping   Discovery with Close                                       *)
(*   lag        LagFilter, with one replica that may be unhealthy          *)
(*   session    Session                                                    *)
(*   planned    Reparent without crashes, twice                            *)
(*   emergency  Reparent with a crash, once                                *)
(***************************************************************************)
EXTENDS Discovery, LagFilter, Session, Reparent

CONSTANTS
  a1, a2, k1, k2,  \* aliases and addresses
  h1, h2,          \* shards
  y1               \* a replica

\* A DML on two shards, and one with a lookup row to insert, one to delete and
\* a row of its own on the shard of the latter.
GatePlans ==
  LET Part(order, shards) == [order |-> order, shards |-> shards]
  IN  {<<Part("NORMAL", {h1, h2})>>,
       <<Part("PRE", {h1}), Part("POST", {h2}), Part("NORMAL", {h2})>>}

DiscoveryParts == {"watcher", "cache", "again", "stopping"}
ReparentParts == {"planned", "emergency"}

GateTypeOK(p) ==
  /\ p \in DiscoveryParts => DiscoveryTypeOK
  /\ p = "lag" => LagFilterTypeOK
  /\ p = "session" => SessionTypeOK
  /\ p \in ReparentParts => ReparentTypeOK

GateInit(p) ==
  /\ DiscoveryInit /\ LagFilterInit /\ SessionInit /\ ReparentInit
  /\ p # "session" => session.autocommit /\ ~session.single

Scene(p) ==
  /\ p # "stopping" => hcClosed' = "open"
  /\ p \in {"watcher", "stopping"} => UNCHANGED actual
  /\ p = "watcher" => /\ \A c \in CheckConns : check[c].step = "run" =>
                           check'[c].step = "run" \/ ~check'[c].stats.up
                      /\ \A c \in CheckConns : check'[c].step # "free" =>
                           check'[c].stats.type = "UNKNOWN"
                      /\ known'[a2] = Nowhere \/ (known'[a2] = k1 /\ loads' <= 2)
  /\ p = "again" => known'[a1] \in {k1, Nowhere} /\ known'[a2] = Nowhere
                      /\ actual'[k2] = actual[k2] /\ actual'[k1].time <= 1
                      /\ (actual'[k1].time = 1 => actual'[k1].type = "MASTER")
  /\ p \in {"cache", "stopping"} => known'[a1] \in {k1, known[a1]}
                                      /\ known'[a2] \in {k2, known[a2]}
  /\ p = "cache" => loads' <= 1 /\ actual'[k1].time <= 1 /\ actual'[k2].time # 1
                      /\ (actual'[k2].time = 2 => actual'[k2].type = "MASTER"
                                                    /\ actual'[k1].time = 1)

\* Nothing is said of a shard in doubt.  Without a crash an emergency leads
\* there.  The replicas are alike at first, so the first master elect is one
\* of them.
Reparenting(p) ==
  /\ ReparentNext /\ ~doubt
  /\ reparents = 0 /\ reparents' = 1 => op'.elect = CHOOSE t \in Tablets : t # Primary
  /\ reparents = 1 /\ reparents' = 2 => written = 1
  /\ IF p = "planned" THEN dead' = {} /\ op'.step # "stop" ELSE reparents' <= 1

OtherGates(p) ==
  /\ IF p \in DiscoveryParts THEN TRUE ELSE UNCHANGED discoveryVars
  /\ IF p = "lag" THEN TRUE ELSE UNCHANGED lagVars
  /\ IF p = "session" THEN TRUE ELSE UNCHANGED sessionVars
  /\ IF p \in ReparentParts THEN TRUE ELSE UNCHANGED reparentVars

GateNext(p) ==
  \/ p \in DiscoveryParts /\ DiscoveryNext /\ Scene(p)
  \/ p = "lag" /\ LagFilterNext /\ \A t \in DOMAIN lagSaid' : t # y1 => lagSaid'[t].good
  \/ /\ p = "session" /\ SessionNext
     /\ session.single \/ losses' > 0 => Len(made') <= 1 /\ commands' <= 2
  \/ p \in ReparentParts /\ Reparenting(p)

gateVars == <<discoveryVars, lagVars, sessionVars, reparentVars>>
==============================================================================
