-------------------------- MODULE ProtocolTracker --------------------------
(***************************************************************************)
(* The telemetry of one protocol (internal/metrics/metrics.go): a window   *)
(* of the last latencies and the times of recent messages.  Record and     *)
(* Snapshot each hold the mutex from beginning to end, so each is one      *)
(* step.  Both read the clock, Record twice: it may advance in between.    *)
(*                                                                         *)
(* Times and latencies are whole units.  The conversion to milliseconds    *)
(* and the division of the throughput by ten are left out: a snapshot has  *)
(* the latencies and the number of messages that they start from.          *)
(***************************************************************************)
EXTENDS Integers, Sequences, FiniteSets, FiniteSetsExt, Functions

CONSTANTS
  maxLatencyWindow,  \* 1000 in the code
  Period,            \* the throughput's ten seconds
  Latencies,         \* latencies that are measured
  MaxTime,           \* bound: the clock stops there
  MaxRecords         \* bound: number of Record calls

ASSUME WindowAssumption == maxLatencyWindow \in Nat \ {0}
ASSUME PeriodAssumption == Period \in Nat \ {0}
ASSUME LatencyAssumption == Latencies \subseteq Nat
ASSUME BoundAssumption == MaxTime \in Nat /\ MaxRecords \in Nat

VARIABLES
  now,           \* time.Now(): the monotonic clock
  latencies,     \* the sliding window
  messageTimes,  \* when recent messages were recorded
  snap,          \* the last snapshot
  recorded,      \* history: latency and time of every Record
  taken          \* history: the time of the last snapshot and the number of
                 \* Record calls before it

trackerVars == <<now, latencies, messageTimes, snap, recorded, taken>>

NewProtocolTracker ==
  /\ latencies = <<>>
  /\ messageTimes = <<>>

TrackerInit ==
  /\ now = 0
  /\ NewProtocolTracker
  /\ snap = [p50 |-> 0, p99 |-> 0, messages |-> 0]
  /\ recorded = <<>>
  /\ taken = [at |-> 0, records |-> 0]

-----------------------------------------------------------------------------
(* Record                                                                  *)

\* The oldest latency makes room for the new one.
Slide(s, l) ==
  Append(IF Len(s) >= maxLatencyWindow THEN Tail(s) ELSE s, l)

\* The loop stops at the first time that is not Before(cutoff).
Prune(ts, t) ==
  LET idx == Max({ n \in 0..Len(ts) : \A i \in 1..n : ts[i] < t - Period })
  IN  SubSeq(ts, idx + 1, Len(ts))

\* later is the time of the second time.Now(), the cutoff's.
Record(l, later) ==
  /\ Len(recorded) < MaxRecords
  /\ now <= later
  /\ now' = later
  /\ latencies' = Slide(latencies, l)
  /\ messageTimes' = Prune(Append(messageTimes, now), later)
  /\ recorded' = Append(recorded, [latency |-> l, time |-> now])
  /\ UNCHANGED <<snap, taken>>

-----------------------------------------------------------------------------
(* Snapshot                                                                *)

\* Mutant: 99 percent of the last index.
P99IdxLow(n) == ((n - 1) * 99) \div 100

\* Indices into the sorted window, from 0.  The float product is exact enough:
\* its integer part is this quotient for every n up to 1000.
P50Idx(n) == n \div 2
P99Idx(n) ==
  LET idx == (n * 99) \div 100 IN IF idx >= n THEN n - 1 ELSE idx

\* slices.Sort: the elements of s, in an order in which none is smaller than one
\* before it.
Sorted(s) ==
  { t \in { [i \in DOMAIN s |-> s[p[i]]] : p \in Bijection(DOMAIN s, DOMAIN s) } :
      \A i, j \in DOMAIN t : i < j => t[i] <= t[j] }

Snapshot == \E sorted \in Sorted(latencies) :
  LET n == Len(sorted)
  IN  /\ messageTimes' = Prune(messageTimes, now)
      /\ snap' = [p50 |-> IF n > 0 THEN sorted[P50Idx(n) + 1] ELSE 0,
                  p99 |-> IF n > 0 THEN sorted[P99Idx(n) + 1] ELSE 0,
                  messages |-> Len(messageTimes')]
      /\ taken' = [at |-> now, records |-> Len(recorded)]
      /\ UNCHANGED <<now, latencies, recorded>>

Tick ==
  /\ now < MaxTime
  /\ now' = now + 1
  /\ UNCHANGED <<latencies, messageTimes, snap, recorded, taken>>

TrackerNext ==
  \/ Tick
  \/ \E l \in Latencies, later \in 0..MaxTime : Record(l, later)
  \/ Snapshot

TrackerSpec == TrackerInit /\ [][TrackerNext]_trackerVars

-----------------------------------------------------------------------------
(* Properties                                                              *)

\* Types; the window is never longer than maxLatencyWindow.
TrackerTypeOK ==
  /\ now \in Nat
  /\ latencies \in Seq(Latencies)
  /\ Len(latencies) <= maxLatencyWindow
  /\ messageTimes \in Seq(Nat)
  /\ snap \in [p50 : Latencies \cup {0}, p99 : Latencies \cup {0}, messages : Nat]
  /\ recorded \in Seq([latency : Latencies, time : Nat])
  /\ taken \in [at : Nat, records : Nat]

\* The latencies that the first n Record calls leave in the window.
WindowAfter(n) == { i \in 1..n : i > n - maxLatencyWindow }

\* How many of them are at most, or at least, v.
AtMost(v, n) == Cardinality({ i \in WindowAfter(n) : recorded[i].latency <= v })
AtLeast(v, n) == Cardinality({ i \in WindowAfter(n) : recorded[i].latency >= v })

\* v divides the window at pct percent: at least so many latencies are at most v,
\* and at least the rest are at least v.
IsPercentile(v, pct, n) ==
  /\ 100 * AtMost(v, n) >= pct * Cardinality(WindowAfter(n))
  /\ 100 * AtLeast(v, n) >= (100 - pct) * Cardinality(WindowAfter(n))

\* A snapshot's p50 and p99 are percentiles of the latest latencies, at every
\* length of the window: neither its sliding nor the index arithmetic (line 97)
\* is off by one.
PercentilesOfWindow ==
  LET n == taken.records
  IN  n > 0 => IsPercentile(snap.p50, 50, n) /\ IsPercentile(snap.p99, 99, n)

\* A snapshot's throughput counts exactly the messages of the Period before it,
\* although both Record and Snapshot throw times away, from the front only.
ThroughputExact ==
  snap.messages =
    Cardinality({ i \in 1..taken.records : recorded[i].time >= taken.at - Period })

\* Both: what a snapshot reports is what was recorded.
SnapshotExact == PercentilesOfWindow /\ ThroughputExact
=============================================================================
