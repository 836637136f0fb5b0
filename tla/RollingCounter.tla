--------------------------- MODULE RollingCounter ---------------------------
(***************************************************************************)
(* The lock-free counter of an endpoint's requests or errors               *)
(* (metrics/rolling_counter.rs): a ring of buckets, each an atomic count   *)
(* and the atomic lap it belongs to.  The first increment of a lap         *)
(* exchanges the bucket's lap and then clears its count; total() adds up   *)
(* the buckets of the current lap for the health monitor.  Every access to *)
(* an atomic is a step of its own (a stale relaxed read is one made        *)
(* earlier).  Time is counted in bucket durations.                         *)
(***************************************************************************)
EXTENDS Integers, FiniteSets

CONSTANTS
    CountThreads,   \* the threads that count requests
    Buckets,        \* how many buckets the window has
    MaxBuckets,     \* bound: durations that pass after the start
    MaxIncrs        \* bound: increments

ASSUME CounterAssumption ==
    /\ IsFiniteSet(CountThreads) /\ CountThreads # {}
    /\ Buckets \in Nat \ {0} /\ MaxBuckets \in Nat /\ MaxIncrs \in Nat

VARIABLES
    elapsed,    \* bucket durations since start
    counters,   \* counters[b]
    laps,       \* laps[b]
    incr,       \* the locals of each thread in incr(), and where it is
    sum,        \* the locals of total(), where it is, what it has added up, bucket by
                \* bucket, and what it should find at least
    begun,      \* how many increments have begun
    landed,     \* history: landed[b][l], the increments of lap l whose fetch_add hit b
    counted,    \* history: those of them since the count was last cleared
    raced       \* history: the buckets where an increment met a change of lap

counterVars == <<elapsed, counters, laps, incr, sum, begun, landed, counted, raced>>

BucketIds == 0..Buckets - 1
LapIds == 0..MaxBuckets \div Buckets

(* get_index_and_lap, for the exact time: f64 resolves nanoseconds for     *)
(* months.                                                                 *)
Index(now) == now % Buckets
LapOf(now) == now \div Buckets

CounterTypeOK ==
    /\ elapsed \in 0..MaxBuckets
    /\ counters \in [BucketIds -> 0..MaxIncrs]
    /\ laps \in [BucketIds -> LapIds]
    /\ incr \in [CountThreads -> [at : {"idle", "load", "exchange", "store", "add"},
                                  idx : BucketIds, lap : LapIds, last : LapIds]]
    /\ sum \in [at : {"idle", "lap", "count", "done"}, now : 0..MaxBuckets, next : 0..Buckets,
                parts : [BucketIds -> 0..MaxIncrs], calm : BOOLEAN,
                least : [BucketIds -> 0..MaxIncrs]]
    /\ begun \in 0..MaxIncrs
    /\ landed \in [BucketIds -> [LapIds -> 0..MaxIncrs]]
    /\ counted \in [BucketIds -> [LapIds -> 0..MaxIncrs]]
    /\ raced \subseteq BucketIds

CounterInit ==
    /\ elapsed = 0
    /\ counters = [b \in BucketIds |-> 0] /\ laps = [b \in BucketIds |-> 0]
    /\ incr = [t \in CountThreads |-> [at |-> "idle", idx |-> 0, lap |-> 0, last |-> 0]]
    /\ sum = [at |-> "idle", now |-> 0, next |-> 0, parts |-> counters, calm |-> TRUE,
              least |-> counters]
    /\ begun = 0
    /\ landed = [b \in BucketIds |-> [l \in LapIds |-> 0]] /\ counted = landed
    /\ raced = {}

-----------------------------------------------------------------------------
(* incr                                                                    *)

(* The threads that have exchanged the lap of b and not yet cleared it.    *)
Clearing(b) == {t \in CountThreads : incr[t].at = "store" /\ incr[t].idx = b}

ReadClock(t) ==
    /\ incr[t].at = "idle" /\ begun < MaxIncrs /\ begun' = begun + 1
    /\ incr' = [incr EXCEPT ![t] = [at |-> "load", idx |-> Index(elapsed),
                                    lap |-> LapOf(elapsed), last |-> 0]]
    /\ UNCHANGED <<elapsed, counters, laps, sum, landed, counted, raced>>

LoadLap(t) ==
    /\ incr[t].at = "load"
    /\ LET b == incr[t].idx  l == incr[t].lap IN
       incr' = [incr EXCEPT ![t] = [at |-> IF laps[b] # l THEN "exchange" ELSE "add",
                                    idx |-> b, lap |-> l, last |-> laps[b]]]
    /\ UNCHANGED <<elapsed, counters, laps, sum, begun, landed, counted, raced>>

(* compare_exchange: the bucket belongs to the lap of this increment from  *)
(* now on, while its count is still that of the lap before.                *)
Exchange(t) ==
    LET b == incr[t].idx IN
    /\ incr[t].at = "exchange"
    /\ \/ /\ laps[b] = incr[t].last
          /\ laps' = [laps EXCEPT ![b] = incr[t].lap]
          /\ incr' = [incr EXCEPT ![t].at = "store"]
          /\ sum' = [sum EXCEPT !.calm = @ /\ ~(sum.at = "count" /\ sum.next = b)]
          /\ raced' = IF \/ Clearing(b) # {} \/ incr[t].lap < incr[t].last
                         \/ \E l \in LapIds : l >= incr[t].lap /\ landed[b][l] > 0
                      THEN raced \cup {b} ELSE raced \ {b}
       \/ /\ laps[b] # incr[t].last
          /\ incr' = [incr EXCEPT ![t].at = "add"]
          /\ UNCHANGED <<laps, sum, raced>>
    /\ UNCHANGED <<elapsed, counters, begun, landed, counted>>

(* Fault: the count of the lap before is kept.                             *)
StoreZero_Keeps(t) ==
    /\ incr[t].at = "store"
    /\ incr' = [incr EXCEPT ![t].at = "add"]
    /\ UNCHANGED <<elapsed, counters, laps, sum, begun, landed, counted, raced>>

StoreZero(t) ==
    LET b == incr[t].idx IN
    /\ incr[t].at = "store"
    /\ counters' = [counters EXCEPT ![b] = 0]
    /\ counted' = [counted EXCEPT ![b] = [l \in LapIds |-> 0]]
    /\ incr' = [incr EXCEPT ![t].at = "add"]
    /\ UNCHANGED <<elapsed, laps, sum, begun, landed, raced>>

FetchAdd(t) ==
    LET b == incr[t].idx  l == incr[t].lap IN
    /\ incr[t].at = "add"
    /\ counters' = [counters EXCEPT ![b] = @ + 1]
    /\ landed' = [landed EXCEPT ![b][l] = @ + 1]
    /\ counted' = [counted EXCEPT ![b][l] = @ + 1]
    /\ raced' = IF Clearing(b) # {} \/ laps[b] # l THEN raced \cup {b} ELSE raced
    /\ incr' = [incr EXCEPT ![t].at = "idle"]
    /\ UNCHANGED <<elapsed, laps, sum, begun>>

-----------------------------------------------------------------------------
(* total, called once at any time: it writes nothing.                      *)

(* b holds what the increments of its lap added, and nothing else.         *)
Calm(b) == Clearing(b) = {} /\ b \notin raced

StartTotal ==
    /\ sum.at = "idle"
    /\ sum' = [at |-> "lap", now |-> elapsed, next |-> 0, parts |-> [b \in BucketIds |-> 0],
               calm |-> TRUE, least |-> [b \in BucketIds |-> landed[b][LapOf(elapsed)]]]
    /\ UNCHANGED <<elapsed, counters, laps, incr, begun, landed, counted, raced>>

(* The next bucket, or the end of the iteration.                           *)
After(next) == IF next = Buckets THEN "done" ELSE "lap"

TotalLoadLap ==
    /\ sum.at = "lap"
    /\ \/ /\ laps[sum.next] = LapOf(sum.now)
          /\ sum' = [sum EXCEPT !.at = "count", !.calm = @ /\ Calm(sum.next)]
       \/ /\ laps[sum.next] # LapOf(sum.now)
          /\ sum' = [sum EXCEPT !.at = After(sum.next + 1), !.next = @ + 1,
                                !.calm = @ /\ Calm(sum.next)]
    /\ UNCHANGED <<elapsed, counters, laps, incr, begun, landed, counted, raced>>

TotalLoadCount ==
    /\ sum.at = "count"
    /\ sum' = [sum EXCEPT !.at = After(sum.next + 1), !.next = @ + 1,
                          !.parts[sum.next] = counters[sum.next],
                          !.calm = @ /\ Calm(sum.next)]
    /\ UNCHANGED <<elapsed, counters, laps, incr, begun, landed, counted, raced>>

-----------------------------------------------------------------------------
(* Time passes, also while a thread is suspended.                          *)
Elapse ==
    /\ elapsed < MaxBuckets
    /\ elapsed' = elapsed + 1
    /\ UNCHANGED <<counters, laps, incr, sum, begun, landed, counted, raced>>

CounterNext ==
    \/ \E t \in CountThreads :
          ReadClock(t) \/ LoadLap(t) \/ Exchange(t) \/ StoreZero(t) \/ FetchAdd(t)
    \/ StartTotal \/ TotalLoadLap \/ TotalLoadCount
    \/ Elapse

CounterSpec == CounterInit /\ [][CounterNext]_counterVars

-----------------------------------------------------------------------------
(* Properties                                                              *)

\* A bucket whose count is not about to be cleared holds at most one event of another
\* lap for each thread but the one that gave it its lap: the traffic of an earlier window
\* is forgotten (the order of exchange, store and fetch_add in incr).
OldEventsForgotten ==
    \A b \in BucketIds :
        Clearing(b) = {} => counters[b] - counted[b][laps[b]] < Cardinality(CountThreads)

\* An event is lost or counted in a later lap only if its increment overlaps the change
\* of its bucket's lap: every other count is exactly the number of increments.
CountsExact ==
    \A b \in BucketIds : Calm(b) => counters[b] = landed[b][laps[b]]

\* What total() adds for a bucket counts no event of another lap and none twice, and none
\* less than had been counted when it began, unless a change of lap interfered.
TotalIsOfItsLap ==
    sum.at = "done" /\ sum.calm =>
        \A b \in BucketIds :
            /\ sum.parts[b] <= landed[b][LapOf(sum.now)]
            /\ LapOf(elapsed) = LapOf(sum.now) => sum.parts[b] >= sum.least[b]

\* What the health monitor measures is what happened: an event is lost, or counted in
\* another lap, only where an increment or a total meets a change of lap.
CountsTrue == OldEventsForgotten /\ CountsExact /\ TotalIsOfItsLap
=============================================================================
