--------------------------- MODULE AnomalyDetection ---------------------------
(***************************************************************************)
(* One anomaly report: anomaly_service.run and anomaly/engine.             *)
(* detect_anomalies.  The rows become one value per calendar period; each  *)
(* period is judged, in order, against the periods before it.              *)
(***************************************************************************)
EXTENDS Periods, Fractions, Listings

CONSTANTS
    Histories,         \* the reports asked for
    MinBaseline,       \* MIN_BASELINE_OBSERVATIONS
    MinForFit,         \* MIN_PERIODS_FOR_FIT_DIAGNOSTICS
    MinDriftHalf       \* MIN_DRIFT_HALF

\* A row of the relation: a moment (-1 cannot be read) and a number or none.
Sample == [at : Int, cell : SUBSET Int]
SeriesAggregation ==
    {"SUM", "COUNT", "COUNT_DISTINCT", "AVG", "MIN", "MAX", "MEDIAN", "unsupported"}

\* The request, the definition it resolves to, and the file; of the file, the rows that the
\* filters of the definition keep, if they can be applied.
History ==
    [ready : BOOLEAN, defined : BOOLEAN,
     grain : Grain \cup {"none", "equal_span"}, frequency : Frequency,
     aggregation : SeriesAggregation, method : {"robust_zscore", "iqr", "unsupported"},
     hasTime : BOOLEAN, timeType : {"missing", "numeric", "temporal"},
     measureType : {"missing", "numeric", "temporal"}, filterable : BOOLEAN,
     window : Nat, maxPeriods : Nat, samples : Seq(Sample)]

ASSUME AnomalyAssumption ==
    /\ \A h \in Histories : h \in History /\ h.maxPeriods > 1 /\ h.window > 0
          /\ \A i \in DOMAIN h.samples :
                /\ h.samples[i].at = -1 \/ Covered(h.samples[i].at)
                /\ Cardinality(h.samples[i].cell) <= 1
    /\ {MinBaseline, MinDriftHalf} \subseteq Nat \ {0}
    /\ MinForFit \in Nat \ {0}

VARIABLES
    seriesStage,       \* the next step of run
    history,           \* {} or the report asked for
    seriesGrain,       \* the grain it is built at
    raw,               \* rows of the series query
    partial,           \* [head, tail]: boundary periods still being filled
    grid,              \* a period for every bucket
    cutShort,          \* was the grid capped?
    judged,            \* the periods judged so far
    remarks,           \* notices
    seriesState        \* ReportStatus, or the error
seriesVars == <<seriesStage, history, seriesGrain, raw, partial, grid, cutShort, judged,
                remarks, seriesState>>

Asked == CHOOSE h \in history : TRUE

-----------------------------------------------------------------------------
(***************************************************************************)
(* The series: anomaly_service._resolve_grain, anomaly/series.py.          *)
(***************************************************************************)

\* grain_for and _resolve_grain: the request, the arrival frequency, or a default
\* that is owned up to.
GrainFor(h) == IF h.grain # "none" THEN h.grain ELSE h.frequency
ResolvedGrain(h) ==
    IF GrainFor(h) = "unknown" THEN [grain |-> "month", assumed |-> TRUE]
    ELSE [grain |-> GrainFor(h), assumed |-> FALSE]

DatedIn(samples) == {i \in DOMAIN samples : samples[i].at >= 0}
CountedIn(samples) == {i \in DOMAIN samples : samples[i].cell # {}}
Earliest(samples) == Oldest({samples[i].at : i \in DatedIn(samples)})
Latest(samples) == Newest({samples[i].at : i \in DatedIn(samples)})

\* The k-th smallest of the values of a function, counting repeats.
Nth(of, k) ==
    CHOOSE v \in {u \in {of[i] : i \in DOMAIN of} :
                     /\ Cardinality({i \in DOMAIN of : Less(of[i], u)}) < k
                     /\ k <= Cardinality({i \in DOMAIN of : AtMost(of[i], u)})} : TRUE
MedianOf(of) ==
    LET n == Cardinality(DOMAIN of)
    IN  Halve(Plus(Nth(of, (n + 1) \div 2), Nth(of, (n + 2) \div 2)))

\* aggregate_expression over the numbers in the rows of a bucket: {} is NULL.
Aggregate(of, aggregation) ==
    LET n == Cardinality(DOMAIN of)
        total == Summed(of)
    IN  CASE aggregation = "COUNT" -> {Whole(n)}
          [] aggregation = "COUNT_DISTINCT" -> {Whole(Cardinality({of[i] : i \in DOMAIN of}))}
          [] aggregation \notin {"COUNT", "COUNT_DISTINCT"} /\ n = 0 -> {}
          [] aggregation = "SUM" /\ n # 0 -> {total}
          [] aggregation = "AVG" /\ n # 0 -> {Over(total, Whole(n))}
          [] aggregation = "MIN" /\ n # 0 -> {Nth(of, 1)}
          [] aggregation = "MAX" /\ n # 0 -> {Nth(of, n)}
          [] aggregation = "MEDIAN" /\ n # 0 -> {MedianOf(of)}
Aggregated(S, samples, aggregation) ==
    Aggregate([i \in S \cap CountedIn(samples) |-> Whole(CHOOSE v \in samples[i].cell : TRUE)],
              aggregation)

\* build_series_sql: the occupied buckets, the most recent ones, oldest first.
MostRecent(starts, n) == {b \in starts : Cardinality({c \in starts : b < c}) < n}
Bucketed(bucket, rows, samples, h) ==
    [bucket |-> bucket, value |-> Aggregated(rows, samples, h.aggregation),
     count |-> Cardinality(rows)]
BucketRows(buckets, samples, grain, h) ==
    [k \in DOMAIN buckets |->
        Bucketed(buckets[k],
                 {i \in DatedIn(samples) : BucketStart(samples[i].at, grain) = buckets[k]},
                 samples, h)]
SeriesQuery(samples, grain, h) ==
    BucketRows(InOrder(MostRecent({BucketStart(samples[i].at, grain) : i \in DatedIn(samples)},
                                  h.maxPeriods)),
               samples, grain, h)

\* The cursor of grid_bounds and _reindex: it is shifted until it is at the last bucket.
Cursor(first, last, grain, most) ==
    LET cursor[n \in 0..most] ==
            IF n = 0 THEN first
            ELSE LET at == cursor[n - 1] IN IF at < last THEN Shift(at, grain, 1) ELSE at
    IN  cursor

\* grid_bounds: the cursor stops after maxPeriods shifts.
\* Mutant: only the query's rows are capped, never the span.
GridUncapped(first, last, grain, most) == [start |-> first, cut |-> FALSE]
GridBounds(first, last, grain, most) ==
    IF Cursor(first, last, grain, most)[most] < last
    THEN [start |-> Shift(last, grain, -(most - 1)), cut |-> TRUE]
    ELSE [start |-> first, cut |-> FALSE]

\* partial_boundaries: could one more observation, at the data's own step, have
\* fallen into the first or the last bucket?
\* Mutant: the step is taken to be the reporting grain.
BoundariesOfGrain(first, last, oldest, newest, grain, frequency) ==
    [tail |-> ~BucketIsComplete(newest, BucketEnd(last, grain), grain),
     head |-> Shift(oldest, grain, -1) >= first]
Boundaries(first, last, oldest, newest, grain, frequency) ==
    [tail |-> ~BucketIsComplete(newest, BucketEnd(last, grain), frequency),
     head |-> frequency # "unknown" /\ Shift(oldest, frequency, -1) >= first]

BoundariesOf(rows, samples, grain, frequency) ==
    Boundaries(rows[1].bucket, rows[Len(rows)].bucket, Earliest(samples), Latest(samples),
               grain, frequency)

\* A yearly step to or from the 29th of February.
BoundariesRaise(oldest, newest, frequency) ==
    frequency = "year" /\ (ShiftRaises(newest, "year", 1) \/ ShiftRaises(oldest, "year", -1))

\* _reindex: every bucket between the bounds, those without a value MISSING.
Period(b, grain, found, unfinished) ==
    [start |-> b, end |-> BucketEnd(b, grain), value |-> UNION {r.value : r \in found},
     rows |-> IF found = {} THEN 0 ELSE (CHOOSE r \in found : TRUE).count,
     score |-> Zero, severity |-> "NORMAL",
     status |-> IF \A r \in found : r.value = {} THEN "MISSING"
                ELSE IF unfinished THEN "PARTIAL" ELSE "INSUFFICIENT_HISTORY"]
GridOf(rows, grain, sides, bounds, last) ==
    LET start == Cursor(bounds.start, last, grain, Absolute(last - bounds.start))
        size == CHOOSE n \in DOMAIN start : start[n] = last /\ \A m \in 0..(n - 1) : start[m] # last
        Unfinished(b) ==
            \/ sides.head /\ b = bounds.start /\ ~bounds.cut
            \/ sides.tail /\ b = last
        At(b) == Period(b, grain, {rows[i] : i \in {j \in DOMAIN rows : rows[j].bucket = b}}, Unfinished(b))
    IN  [periods |-> [k \in 1..(size + 1) |-> At(start[k - 1])], cut |-> bounds.cut]
Reindexed(rows, grain, sides, most) ==
    LET last == rows[Len(rows)].bucket
    IN  GridOf(rows, grain, sides, GridBounds(rows[1].bucket, last, grain, most), last)

-----------------------------------------------------------------------------
(***************************************************************************)
(* The verdict: baseline.py, scoring.py, detectors.py.                     *)
(***************************************************************************)

Scoreable(p) == p.value # {} /\ p.status # "PARTIAL"
ValueOfPeriod(p) == CHOOSE v \in p.value : TRUE

\* _percentile, by quarters: linear between order statistics.
Between(of, n, lower, weight) ==
    Plus(Times(Nth(of, lower + 1), Minus(One, weight)),
         Times(Nth(of, IF lower + 1 < n THEN lower + 2 ELSE n), weight))
Quarter(of, q) ==
    LET position == q * (Cardinality(DOMAIN of) - 1)
    IN  Between(of, Cardinality(DOMAIN of), position \div 4, Frac(position % 4, 4))

\* trailing_window: the scoreable periods among the last ones before k.
\* Mutant: the period judged and the one after it are in the window as well.
WindowAround(periods, k, window) ==
    {j \in DOMAIN periods : k - window <= j /\ j <= k + 1 /\ Scoreable(periods[j])}
TrailingWindow(periods, k, window) ==
    {j \in DOMAIN periods : k - window <= j /\ j < k /\ Scoreable(periods[j])}

Cap == Whole(1000)
Clamped(x) ==
    IF Less(Cap, x) THEN Cap ELSE IF Less(x, Minus(Zero, Cap)) THEN Minus(Zero, Cap) ELSE x
Threshold == Frac(7, 2)

\* Against a history that never moved any movement is as unusual as can be.
FlatScore(deviation) ==
    IF deviation = Zero THEN Zero
    ELSE IF Less(Zero, deviation) THEN Cap ELSE Minus(Zero, Cap)

\* baseline.build and scoring.score: the median, and the median or else the mean
\* absolute deviation, each with its own constant.
ScoreFrom(deviation, mad, mean) ==
    IF mad # Zero THEN Clamped(Over(Times(Frac(6745, 10000), deviation), mad))
    ELSE IF mean # Zero THEN Clamped(Over(Times(Frac(7979, 10000), deviation), mean))
    ELSE FlatScore(deviation)
ZScoreAround(center, value, of) ==
    LET away == [i \in DOMAIN of |-> Abs(Minus(of[i], center))]
    IN  ScoreFrom(Minus(value, center), MedianOf(away),
                Over(SumOver(DOMAIN of, LAMBDA i : away[i]), Whole(Cardinality(DOMAIN of))))
ZScore(value, of) == ZScoreAround(MedianOf(of), value, of)

\* IQRDetector and _iqr_score: the distance past the nearer fence.
Beyond(over, under, iqr) ==
    LET Scaled(excess) == Clamped(Times(Plus(Over(excess, iqr), One), Threshold))
    IN  IF Less(Zero, over) THEN Scaled(over)
        ELSE IF Less(Zero, under) THEN Minus(Zero, Scaled(under)) ELSE Zero
Fenced(value, p25, p75, iqr, median) ==
    LET reach == Times(Frac(3, 2), iqr)
    IN  IF iqr = Zero THEN FlatScore(Minus(value, median))
        ELSE Beyond(Minus(value, Plus(p75, reach)), Minus(Minus(p25, reach), value), iqr)
Quartered(value, p25, p75, median) == Fenced(value, p25, p75, Minus(p75, p25), median)
IqrScore(value, of) == Quartered(value, Quarter(of, 1), Quarter(of, 3), MedianOf(of))

\* severity, by the magnitude of the score.
Severity(score) ==
    LET Reaches(bound) == AtMost(bound, Abs(score))
    IN  IF Reaches(Whole(12)) THEN "CRITICAL"
        ELSE IF Reaches(Whole(8)) THEN "HIGH"
        ELSE IF Reaches(Whole(5)) THEN "MEDIUM"
        ELSE IF Reaches(Threshold) THEN "LOW" ELSE "NORMAL"

\* Detector.evaluate, for one period: unscored without a value or enough priors.
Evaluate(p, score) ==
    [p EXCEPT !.status = "EVALUATED", !.score = score, !.severity = Severity(score)]
Values(periods, which) == [j \in which |-> ValueOfPeriod(periods[j])]
Judge(p, periods, priors, method) ==
    IF ~Scoreable(p) \/ Cardinality(priors) < MinBaseline THEN p
    ELSE IF method = "iqr" THEN Evaluate(p, IqrScore(ValueOfPeriod(p), Values(periods, priors)))
    ELSE Evaluate(p, ZScore(ValueOfPeriod(p), Values(periods, priors)))
Verdict(periods, k, h) ==
    Judge(periods[k], periods, TrailingWindow(periods, k, h.window), h.method)

\* _baseline_drift: does the later half of the series lie apart from the earlier?
Trending(periods) ==
    LET S == {j \in DOMAIN periods : Scoreable(periods[j])}
        Rank(j) == Cardinality({i \in S : i <= j})
        half == Cardinality(S) \div 2
        window == {j \in S : Rank(j) > Cardinality(S) - 2 * half}
        earlier == {j \in window : Rank(j) <= Cardinality(S) - half}
        drift == Abs(Minus(MedianOf(Values(periods, window \ earlier)),
                           MedianOf(Values(periods, earlier))))
        center == MedianOf(Values(periods, window))
        spread == MedianOf([j \in window |-> Abs(Minus(ValueOfPeriod(periods[j]), center))])
    IN  /\ Cardinality(S) >= 2 * MinDriftHalf
        /\ spread # Zero /\ AtMost(Times(Whole(2), spread), drift)

-----------------------------------------------------------------------------
(***************************************************************************)
(* The call.                                                               *)
(***************************************************************************)

SeriesInit ==
    /\ seriesStage = "idle" /\ history = {} /\ seriesGrain = "none"
    /\ raw = <<>> /\ partial = [head |-> FALSE, tail |-> FALSE]
    /\ grid = <<>> /\ cutShort = FALSE /\ judged = <<>>
    /\ remarks = {} /\ seriesState = "none"

Report(state) == seriesStage' = "done" /\ seriesState' = state
Proceed(stage) == seriesStage' = stage /\ UNCHANGED seriesState

\* The service: readiness, the definition, the grain, then what the definition says.
AskReport(h) ==
    /\ seriesStage = "idle"
    /\ history' = {h}
    /\ CASE ~h.ready -> Report("DATASET_NOT_ANALYSIS_READY")
         [] h.ready /\ ~h.defined -> Report("KPI_DEFINITION_NOT_FOUND")
         [] h.ready /\ h.defined ->
              IF GrainFor(h) = "equal_span" THEN Report("ANOMALY_GRAIN_UNSUPPORTED")
              ELSE IF h.aggregation = "unsupported" THEN Report("ANOMALY_AGGREGATION_UNSUPPORTED")
              ELSE IF h.method = "unsupported" THEN Report("ANOMALY_METHOD_UNSUPPORTED")
              ELSE IF ~h.hasTime THEN Report("KPI_TIME_COLUMN_REQUIRED")
              ELSE Proceed("describe")
    /\ seriesGrain' = IF seriesStage' = "describe" THEN ResolvedGrain(h).grain ELSE "none"
    /\ remarks' = IF seriesStage' = "describe" /\ ResolvedGrain(h).assumed
                  THEN {"GRAIN_ASSUMED"} ELSE {}
    /\ UNCHANGED <<raw, partial, grid, cutShort, judged>>

DescribeSeries ==
    /\ seriesStage = "describe"
    /\ IF Asked.timeType = "missing" THEN Report("ANOMALY_COLUMN_MISSING")
       ELSE IF Asked.timeType = "numeric" THEN Report("ANOMALY_TIME_COLUMN_NOT_TEMPORAL")
       ELSE IF Asked.measureType = "missing" THEN Report("ANOMALY_COLUMN_MISSING")
       ELSE IF Asked.measureType = "temporal" /\ Asked.aggregation \notin {"COUNT", "COUNT_DISTINCT"}
       THEN Report("ANOMALY_MEASURE_NOT_NUMERIC")
       ELSE IF ~Asked.filterable THEN Report("KPI_FILTER_INVALID")
       ELSE Proceed("load")
    /\ UNCHANGED <<history, seriesGrain, raw, partial, grid, cutShort, judged, remarks>>

\* The base table and its bounds.
LoadSeries ==
    /\ seriesStage = "load"
    /\ LET all == DOMAIN Asked.samples
       IN  /\ remarks' = remarks
                 \cup (IF DatedIn(Asked.samples) # all THEN {"UNPARSED_TIME_ROWS"} ELSE {})
                 \cup (IF CountedIn(Asked.samples) # all THEN {"UNPARSED_MEASURE_ROWS"} ELSE {})
           /\ IF DatedIn(Asked.samples) = {} THEN Report("NO_DATA") ELSE Proceed("aggregate")
    /\ UNCHANGED <<history, seriesGrain, raw, partial, grid, cutShort, judged>>

\* The notice about a series that was cut: by its span, or by the query's rows.
\* Mutant: the rows the query left out go unmentioned.
CutBySpan(rows, cut, most) == cut
Cut(rows, cut, most) == cut \/ Len(rows) >= most

\* The series query, the boundaries and the calendar grid.
BuildSeries ==
    /\ seriesStage = "aggregate"
    /\ raw' = SeriesQuery(Asked.samples, seriesGrain, Asked)
    /\ IF BoundariesRaise(Earliest(Asked.samples), Latest(Asked.samples), Asked.frequency)
       THEN Report("ValueError") /\ UNCHANGED <<partial, grid, cutShort, remarks>>
       ELSE /\ partial' = BoundariesOf(raw', Asked.samples, seriesGrain, Asked.frequency)
            /\ \E whole \in {Reindexed(raw', seriesGrain, partial', Asked.maxPeriods)} :
                  grid' = whole.periods /\ cutShort' = whole.cut
            /\ remarks' = remarks
                 \cup (IF \E i \in DOMAIN raw' : raw'[i].value = {}
                       THEN {"NON_FINITE_PERIODS"} ELSE {})
                 \cup (IF Cut(raw', cutShort', Asked.maxPeriods)
                       THEN {"SERIES_TRUNCATED"} ELSE {})
                 \cup (IF partial'.head \/ partial'.tail
                       THEN {"PARTIAL_BOUNDARY_PERIODS"} ELSE {})
            /\ Proceed("judge")
    /\ UNCHANGED <<history, seriesGrain, judged>>

\* One period of the detector's walk.
JudgePeriod ==
    /\ seriesStage = "judge" /\ Len(judged) < Len(grid)
    /\ judged' = Append(judged, Verdict(grid, Len(judged) + 1, Asked))
    /\ UNCHANGED <<seriesStage, history, seriesGrain, raw, partial, grid, cutShort, remarks,
                   seriesState>>

Evaluated == {k \in DOMAIN judged : judged[k].status = "EVALUATED"}
Anomalous == {k \in Evaluated : AtMost(Threshold, Abs(judged[k].score))}

ReportSeries ==
    /\ seriesStage = "judge" /\ Len(judged) = Len(grid)
    /\ LET fit == Cardinality(Evaluated) >= MinForFit
       IN  remarks' = remarks
             \cup (IF Evaluated = {} THEN {"INSUFFICIENT_HISTORY"} ELSE {})
             \cup (IF \E k \in DOMAIN judged : judged[k].status = "MISSING"
                   THEN {"MISSING_PERIODS"} ELSE {})
             \cup (IF fit /\ 100 * Cardinality(Anomalous) > 15 * Cardinality(Evaluated)
                   THEN {"HIGH_ANOMALY_RATE"} ELSE {})
             \cup (IF fit /\ Trending(judged) THEN {"TRENDING_BASELINE"} ELSE {})
    /\ Report(IF Evaluated = {} THEN "INSUFFICIENT_HISTORY" ELSE "OK")
    /\ UNCHANGED <<history, seriesGrain, raw, partial, grid, cutShort, judged>>

SeriesStep == DescribeSeries \/ LoadSeries \/ BuildSeries \/ JudgePeriod \/ ReportSeries
SeriesNext == (\E h \in Histories : AskReport(h)) \/ SeriesStep
SeriesSpec == SeriesInit /\ [][SeriesNext]_seriesVars /\ WF_seriesVars(SeriesStep)

-----------------------------------------------------------------------------
(***************************************************************************)
(* What must hold.                                                         *)
(***************************************************************************)

Reported == seriesState \in {"OK", "INSUFFICIENT_HISTORY"}

\* The report as it would have been over earlier rows.
SameVerdicts(then) ==
    \A j \in 1..(Len(then) - 1) : Verdict(then, j, Asked) = judged[j]
SeenThen(rows, samples) ==
    Reindexed(rows, seriesGrain, BoundariesOf(rows, samples, seriesGrain, Asked.frequency),
              Asked.maxPeriods).periods
Stands(earlier) ==
    SameVerdicts(SeenThen(SeriesQuery(earlier, seriesGrain, Asked), earlier))

\* A verdict once given stands: the rows that arrive after a period never change
\* what is said of the whole periods before it, so a baseline neither peeks at the
\* period it judges nor beyond it, whatever is missing or still being filled.
HistoryStands ==
    Reported /\ ~cutShort /\ Len(raw) < Asked.maxPeriods =>
        \A k \in 2..Len(raw) :
            Stands(Chosen(Asked.samples, LAMBDA s : s.at >= 0 /\ s.at < raw[k].bucket))

\* Every row left by the filters of the definition is behind a period of the series or is
\* reported as left out: it has no date, or the report says that the series was cut.
RowsAccountedFor ==
    Reported =>
        \/ "SERIES_TRUNCATED" \in remarks
        \/ SumOver(DOMAIN judged, LAMBDA k : Whole(judged[k].rows))
             = Whole(Cardinality(DatedIn(Asked.samples)))

\* A period that the next observation could still fall into, or that began before
\* the data did, is neither judged nor part of a baseline.
UnfinishedNotJudged ==
    Reported /\ Asked.frequency # "unknown" =>
        LET Open(p) ==
                \/ Shift(Latest(Asked.samples), Asked.frequency, 1) < p.end
                \/ Shift(Earliest(Asked.samples), Asked.frequency, -1) >= p.start
        IN  \A k \in DOMAIN judged : Open(judged[k]) =>
               /\ judged[k].status # "EVALUATED"
               /\ \A j \in DOMAIN judged : k \notin TrailingWindow(judged, j, Asked.window)

\* However far apart the moments of a file are, the series is bounded, has no holes
\* and ends with the newest row.
GridBounded ==
    Reported =>
        /\ Len(judged) <= Asked.maxPeriods + 1
        /\ In(Latest(Asked.samples), Window(judged[Len(judged)].start, judged[Len(judged)].end))
        /\ \A k \in 2..Len(judged) : judged[k].start = judged[k - 1].end
=============================================================================
