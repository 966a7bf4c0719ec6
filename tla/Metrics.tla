------------------------------- MODULE Metrics -------------------------------
(* The figures of the dashboards: calculate_percentile and _compute_metrics of *)
(* monitoring/views.py, over the prediction logs that the gateway writes.      *)
(* Latencies are small numbers, percentiles are in hundredths of their unit,   *)
(* a mean is a sum with a count, and ratios and rounding are left out.         *)
EXTENDS Naturals, Sequences, FiniteSets, Functions

CONSTANTS
    LogKinds,    \* the rows that may be written
    MaxLogs,     \* bound on rows
    SampleSize,  \* values fetched for a percentile (5000 in the code)
    Null         \* an absent value

\* The gateway writes its latency into the historical column too.
ASSUME LogAssumption ==
    /\ Null \notin Nat /\ SampleSize \in Nat
    /\ LogKinds \subseteq
         [gateway : Nat \cup {Null}, latency : Nat \cup {Null}, compute : Nat \cup {Null},
          hit : BOOLEAN, status : {"SUCCESS", "ERROR"}]
    /\ \A r \in LogKinds : r.gateway # Null => r.latency = r.gateway

VARIABLE logs    \* the rows, the newest first

MetricsInit == logs = <<>>

WriteLog ==
    /\ Len(logs) < MaxLogs
    /\ \E row \in LogKinds : logs' = <<row>> \o logs

MetricsNext == WriteLog
MetricsSpec == MetricsInit /\ [][MetricsNext]_logs
----------------------------------------------------------------------------
\* The values at the indices in S, the first of them in the order `before` first
\* (a set of pairs of indices), ...
Arranged(values, S, before) ==
    LET rank(i) == Cardinality({j \in S : <<j, i>> \in before})
    IN  [k \in 1..Cardinality(S) |-> values[CHOOSE i \in S : rank(i) = k - 1]]

\* ... in the order of the list, or in the order of their size.
Kept(values, S) == Arranged(values, S, {ij \in S \X S : ij[1] < ij[2]})
Sorted(values) == LET S == DOMAIN values IN
    Arranged(values, S, {ij \in S \X S :
        \/ values[ij[1]] < values[ij[2]]
        \/ values[ij[1]] = values[ij[2]] /\ ij[1] < ij[2]})

Present(values) == Kept(values, {i \in DOMAIN values : values[i] # Null})
Misses(rows)    == Kept(rows, {i \in DOMAIN rows : ~rows[i].hit})
Total(values)   == FoldFunction(+, 0, values)
Mean(values)    == <<Total(values), Len(values)>>
Count(rows, f, v) == Cardinality({i \in DOMAIN rows : rows[i][f] = v})
Sample(values)  == IF Len(values) <= SampleSize THEN values ELSE SubSeq(values, 1, SampleSize)
Field(rows, f)  == [i \in DOMAIN rows |-> rows[i][f]]

PercentileOfCount(s, p) ==
    IF s = <<>> THEN 0
    ELSE LET k == Len(s) * p
             f == k \div 100
         IN  IF f + 1 < Len(s) THEN 100 * s[f + 1] + (k % 100) * (s[f + 2] - s[f + 1])
             ELSE 100 * s[Len(s)]

\* calculate_percentile of a sorted list, p in hundredths: between two values the
\* result is interpolated.
Percentile(s, p) ==
    IF s = <<>> THEN 0
    ELSE LET k == (Len(s) - 1) * p
             f == k \div 100
         IN  IF f + 1 < Len(s) THEN 100 * s[f + 1] + (k % 100) * (s[f + 2] - s[f + 1])
             ELSE 100 * s[f + 1]

Figures(rows, gateway, avgGateway, compute, avgCompute) ==
    [total     |-> Len(rows),
     successes |-> Count(rows, "status", "SUCCESS"),
     errors    |-> Count(rows, "status", "ERROR"),
     hits      |-> Count(rows, "hit", TRUE),
     avg       |-> avgGateway,
     p95       |-> Percentile(Sorted(gateway), 95),
     avgComp   |-> avgCompute,
     p95Comp   |-> Percentile(Sorted(compute), 95)]

\* What the database computes: percentiles from a sample of the newest rows, and
\* the historical latencies only if no row has a gateway latency.
OfQuery(rows) ==
    LET new     == Present(Field(rows, "gateway"))
        gateway == IF new # <<>> THEN Sample(new)
                   ELSE Sample(Present(Field(rows, "latency")))
        compute == Present(Field(Misses(rows), "compute"))
    IN  Figures(rows,
                gateway, IF Total(new) # 0 THEN Mean(new) ELSE Mean(gateway),
                Sample(compute),
                IF Total(compute) # 0 THEN Mean(compute) ELSE Mean(Sample(compute)))

\* What is computed of a list of rows: each row's gateway latency, or its
\* historical one in its place, or nought.
OfList(rows) ==
    LET gateway == [i \in DOMAIN rows |->
                      IF rows[i].gateway \notin {Null, 0} THEN rows[i].gateway
                      ELSE IF rows[i].latency # Null THEN rows[i].latency ELSE 0]
        compute == Present(Field(Misses(rows), "compute"))
    IN  Figures(rows, gateway, Mean(gateway), compute, Mean(compute))
----------------------------------------------------------------------------
\* Definition of a percentile without interpolation: no more values lie below it
\* than its rank rounded up, and no more above it than are left.
IsPercentile(r, s, p) ==
    LET k == (Len(s) - 1) * p IN
    /\ Cardinality({i \in DOMAIN s : 100 * s[i] < r}) <= (k + 99) \div 100
    /\ Cardinality({i \in DOMAIN s : 100 * s[i] > r}) <= Len(s) - 1 - k \div 100

\* Every row is counted as a success or as an error; percentiles are percentiles,
\* of lists of every length; and the two ways to compute the figures agree on
\* rows of today's gateway that fit the sample.
MetricsAreSound ==
    LET query == OfQuery(logs) IN
    /\ query.successes + query.errors = query.total
    /\ \A f \in {"gateway", "compute"}, p \in {50, 95} :
          LET s == Sorted(Present(Field(logs, f))) IN
          s # <<>> => IsPercentile(Percentile(s, p), s, p)
    /\ (Len(logs) <= SampleSize /\ \A i \in DOMAIN logs : logs[i].gateway # Null) =>
          query = OfList(logs)
=============================================================================
