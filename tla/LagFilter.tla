------------------------------ MODULE LagFilter ------------------------------
(***************************************************************************)
(* The replicas a vtgate routes to: FilterByReplicationLag, and the entry  *)
(* of the TabletStatsCache that applies it to the updates it does not find *)
(* trivial.  The order of the tablets is that of a map: any.               *)
(***************************************************************************)
EXTENDS Naturals, FiniteSets, FiniteSetsExt

CONSTANTS
  LagTablets,
  Lags,           \* the values of SecondsBehindMaster
  LowLag,         \* discovery_low_replication_lag
  VeryHighLag,    \* discovery_high_replication_lag_minimum_serving
  MinNumTablets,  \* min_number_serving_vttablets
  RoundedDown,    \* the seconds whose product with 0.7 is too small in a float64
  RoundedUp       \* and with 1.1 too great; with 0.9 none is too small

\* At least one tablet is to be kept.
ASSUME LagFilterAssumption ==
  /\ IsFiniteSet(LagTablets) /\ Lags \subseteq Nat
  /\ LowLag \in Nat /\ VeryHighLag \in Nat /\ MinNumTablets \in Nat \ {0}
  /\ RoundedDown \subseteq Nat /\ RoundedUp \subseteq Nat

VARIABLES
  lagStats,   \* tabletStatsCacheEntry.all: what is remembered of each tablet
  lagServing, \* tabletStatsCacheEntry.healthy
  lagSaid     \* the last update of each tablet

lagVars == <<lagStats, lagServing, lagSaid>>

LagStats == [lag : Lags, good : BOOLEAN]
-----------------------------------------------------------------------------
IsReplicationLagHigh(lag, t) == lag[t] > LowLag
IsReplicationLagVeryHigh(lag, t) == lag[t] > VeryHighLag

\* The sum of the lags: every second of every tablet is counted once.
Seconds(lag, S) == UNION {{t} \X (1..lag[t]) : t \in S}
sum(lag, S) == Cardinality(Seconds(lag, S))

\* An integer division; 0 of an empty list.
mean(lag, S) == IF S = {} THEN 0 ELSE sum(lag, S) \div Cardinality(S)

\* Faulty variant: the lag of the tablet is compared with the mean.
NearMeanOwn(lag, S) == {t \in S : 10 * lag[t] > 7 * mean(lag, S)}

\* mi > m * 0.7: where it is exact, or where the product is rounded down.
MoreThanMost(mi, m) == 10 * mi > 7 * m \/ (10 * mi = 7 * m /\ m \in RoundedDown)

\* The mean without the tablet is more than 0.7 of the mean.
NearMean(lag, S) == {t \in S : MoreThanMost(mean(lag, S \ {t}), mean(lag, S))}

\* The n tablets of least lag; ties are broken by the sort.
Least(lag, S, n) ==
  {R \in kSubset(IF n < Cardinality(S) THEN n ELSE Cardinality(S), S) :
     \A t \in R, u \in S \ R : lag[t] <= lag[u]}

(* filterByLag of the serving tablets S: the possible results. *)
filterByLag(lag, S) ==
  LET eligible == {t \in S : ~IsReplicationLagVeryHigh(lag, t)}
  IN  IF Cardinality(S) <= 1 \/ \A t \in S : ~IsReplicationLagHigh(lag, t) THEN {S}
      ELSE IF Cardinality(NearMean(lag, S)) >= MinNumTablets THEN {NearMean(lag, S)}
      ELSE Least(lag, IF eligible = {} THEN S ELSE eligible, MinNumTablets)

(* The filter runs again if it took out exactly one of the listed tablets. *)
FilterByReplicationLag(lag, listed, S) ==
  UNION {IF Cardinality(R) > MinNumTablets /\ Cardinality(R) = Cardinality(listed) - 1
         THEN filterByLag(lag, R) ELSE {R} : R \in filterByLag(lag, S)}

(* Both low, or both high and within a tenth of one another. *)
TrivialStatsUpdate(old, new) ==
  \/ old <= LowLag /\ new <= LowLag
  \/ /\ old > LowLag /\ new > LowLag
     /\ 10 * new < 11 * old \/ (10 * new = 11 * old /\ old \in RoundedUp)
     /\ 10 * new > 9 * old
-----------------------------------------------------------------------------
LagFilterTypeOK ==
  /\ DOMAIN lagStats \subseteq LagTablets
  /\ \A t \in DOMAIN lagStats : lagStats[t] \in LagStats /\ lagSaid[t] \in LagStats
  /\ DOMAIN lagSaid = DOMAIN lagStats
  /\ lagServing \subseteq DOMAIN lagStats

LagFilterInit == lagStats = <<>> /\ lagServing = {} /\ lagSaid = <<>>

Refilter(stats) ==
  LET listed == DOMAIN stats
  IN  lagServing' \in FilterByReplicationLag([t \in listed |-> stats[t].lag], listed,
                                              {t \in listed : stats[t].good})

(* StatsUpdate of a tablet that is up. *)
LagUpdate(t, new) ==
  /\ lagSaid' = [u \in DOMAIN lagSaid \cup {t} |-> IF u = t THEN new ELSE lagSaid[u]]
  /\ IF /\ t \in DOMAIN lagStats /\ lagStats[t].good /\ new.good
        /\ TrivialStatsUpdate(lagStats[t].lag, new.lag)
     THEN UNCHANGED <<lagStats, lagServing>>
     ELSE /\ lagStats' = [u \in DOMAIN lagStats \cup {t} |->
                            IF u = t THEN new ELSE lagStats[u]]
          /\ Refilter(lagStats')

(* StatsUpdate of a tablet that is down. *)
LagDown(t) ==
  /\ t \in DOMAIN lagStats
  /\ lagStats' = [u \in DOMAIN lagStats \ {t} |-> lagStats[u]]
  /\ lagSaid' = [u \in DOMAIN lagSaid \ {t} |-> lagSaid[u]]
  /\ Refilter(lagStats')

LagFilterNext ==
  \E t \in LagTablets : LagDown(t) \/ \E new \in LagStats : LagUpdate(t, new)

LagFilterSpec == LagFilterInit /\ [][LagFilterNext]_lagVars
-----------------------------------------------------------------------------
Good == {t \in DOMAIN lagSaid : lagSaid[t].good}
Fits == {t \in Good : lagStats[t].lag <= VeryHighLag}

\* Of the healthy replicas those that are routed to lag less than the others:
\* the lag that one of them last reported is low, or every healthy replica
\* that is not routed to reported a high one, of 9/11 of it at least, although
\* trivial updates are not remembered and the means are rounded.  There are
\* always MinNumTablets of them, or all that are not very far behind, and at
\* least one if any replica is healthy.
LeastLagServes ==
  /\ lagServing \subseteq Good
  /\ \A t \in lagServing, u \in Good \ lagServing :
       \/ lagSaid[t].lag <= LowLag
       \/ lagSaid[u].lag > LowLag /\ 9 * lagSaid[t].lag <= 11 * lagSaid[u].lag
  /\ Cardinality(lagServing) >= MinNumTablets \/ Fits \subseteq lagServing
  /\ Good # {} => lagServing # {}
=============================================================================
