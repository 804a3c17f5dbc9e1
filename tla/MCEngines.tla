------------------------------ MODULE MCEngines ------------------------------
(***************************************************************************)
(* Small instances of the engines and of the streams that feed them.  They *)
(* share no state, so a behaviour runs one of them: the state spaces are   *)
(* added, not multiplied.                                                  *)
(***************************************************************************)
EXTENDS InvestigationEngine, AnomalyDetection, UploadBody, RowStreams, TLC

-----------------------------------------------------------------------------
\* Root cause: rows of June and July 2024, the odd one unreadable.
On(y, m, d) == FirstOf(y, m) + (d - 1) * TicksPerDay
Number(v) == [kind |-> "number", is |-> v]
Cells(a, b, c) == [x \in Dimension |-> CASE x = "region" -> a [] x = "product" -> b [] x = "channel" -> c]
At(t, v, a, b, c) == [at |-> t, measure |-> Number(v), segment |-> Cells(a, b, c)]
June == On(2024, 6, 15)
July == On(2024, 7, 15) + 1
Pair(before, after, a, b, c) == <<At(June, before, a, b, c), At(July, after, a, b, c)>>

\* Falls everywhere but in one cell; NULL is a region.
Fall == Pair(90, 40, "N", "A", "x") \o Pair(60, 20, "S", "A", "y") \o Pair(20, 15, "NULL", "B", "x")
            \o Pair(10, 30, "S", "B", "y")
\* One product falls in three regions, the other grows: a level below is cut too.
Wide == Pair(60, 30, "N", "A", "x") \o Pair(60, 38, "S", "A", "x") \o Pair(60, 45, "NULL", "A", "x")
            \o Pair(50, 52, "N", "B", "x") \o Pair(50, 53, "S", "B", "x")
            \o Pair(50, 52, "NULL", "B", "x")
\* What falls has no region.
Unnamed == Pair(90, 20, "NULL", "A", "x") \o Pair(60, 55, "NULL", "B", "y")
            \o Pair(40, 41, "N", "A", "y") \o Pair(50, 51, "N", "B", "x")
\* Moves that cancel: a small net change under large movements.
Cancel == Pair(100, 40, "N", "A", "x") \o Pair(40, 99, "S", "A", "x") \o Pair(40, 40, "NULL", "B", "y")
\* They cancel exactly, within a single product.
Swap == Pair(100, 40, "N", "A", "x") \o Pair(40, 100, "S", "A", "y")
\* Grows in proportion.
Grow == Pair(100, 110, "N", "A", "x") \o Pair(50, 55, "S", "B", "x") \o Pair(20, 22, "NULL", "A", "x")
\* A region arrives, another goes; one cell is no number, one moment none.
Shift2 == <<At(June, 80, "N", "A", "x"), At(July, 30, "S", "A", "x"), At(July, 40, "S", "B", "y"),
            [At(July, 1, "S", "B", "x") EXCEPT !.measure = [kind |-> "garbled", is |-> 7]],
            [At(July, 1, "N", "B", "x") EXCEPT !.measure = [kind |-> "sentinel", is |-> 0]],
            At(-1, 5, "N", "A", "x")>>
\* Every way of splitting it shows two halves that fall.
Even == Pair(50, 30, "N", "A", "x") \o Pair(50, 31, "N", "A", "y") \o Pair(50, 22, "N", "B", "x")
          \o Pair(50, 33, "N", "B", "y") \o Pair(50, 24, "S", "A", "x") \o Pair(50, 25, "S", "B", "x")
          \o Pair(50, 36, "S", "B", "y") \o Pair(5, 17, "S", "A", "y")
\* Averages that nearly cancel: one region falls in both products, the other rises.
Trade == Pair(100, 40, "N", "A", "x") \o Pair(60, 20, "N", "B", "x")
          \o Pair(40, 91, "S", "A", "y") \o Pair(20, 71, "S", "B", "y")
\* What is counted keeps to one region, not to one product.
Buyers == <<At(June, 1, "N", "A", "x"), At(June, 2, "N", "B", "y"), At(June, 3, "S", "A", "x"),
            At(July, 1, "N", "A", "x"), At(July, 1, "N", "B", "y"), At(July, 3, "S", "A", "x"),
            At(July, 4, "S", "B", "x"), At(July, 5, "S", "A", "y"), At(July, 6, "S", "B", "x")>>
\* One month only.
Once == <<At(July, 5, "N", "A", "x")>>

NoConfig == [currentStart |-> -1, currentEnd |-> -1, previousStart |-> -1, previousEnd |-> -1]
Plain ==
    [rows |-> Fall, aggregation |-> "SUM", hasTime |-> TRUE, timeType |-> "temporal",
     measureType |-> "numeric", dimensions |-> <<"region", "product", "channel">>,
     present |-> Dimension,
     filter |-> [op |-> "none", dimension |-> "region", value |-> "N"],
     comparison |-> "period", config |-> NoConfig, frequency |-> "month",
     limit |-> 5, maxDrivers |-> 5, maxDepth |-> 3]

MCAnalyses ==
    LET Each(rows, aggregations, limits) ==
            {[Plain EXCEPT !.rows = rows, !.aggregation = g, !.limit = n]
                : g \in aggregations, n \in limits}
    IN  UNION {
         Each(Fall, {"SUM", "AVG", "COUNT", "COUNT_DISTINCT", "MAX"}, {1, 2, 5}),
         Each(Wide, {"SUM"}, {2, 5}), Each(Unnamed, {"SUM"}, {5}),
         Each(Cancel, {"SUM", "AVG"}, {2, 5}),
         Each(Swap, {"SUM", "AVG"}, {1, 5}),
         Each(Grow, {"SUM", "AVG", "MEDIAN"}, {5}),
         Each(Shift2, {"SUM", "AVG", "COUNT", "COUNT_DISTINCT", "MIN"}, {1, 5}),
         Each(Even, {"SUM"}, {5}),
         Each(Trade, {"AVG"}, {5}), Each(Buyers, {"COUNT_DISTINCT"}, {5}),
         Each(Once, {"SUM"}, {5}),
         {[Plain EXCEPT !.rows = <<>>], [Plain EXCEPT !.hasTime = FALSE],
          [Plain EXCEPT !.measureType = "missing"], [Plain EXCEPT !.measureType = "temporal"],
          [Plain EXCEPT !.timeType = "numeric"], [Plain EXCEPT !.timeType = "missing"],
          [Plain EXCEPT !.present = {"region"}], [Plain EXCEPT !.present = {}],
          [Plain EXCEPT !.filter.op = "unsupported"], [Plain EXCEPT !.maxDrivers = 1],
          [Plain EXCEPT !.maxDepth = 1]},
         {[Plain EXCEPT !.filter.op = op] : op \in {"eq", "ne", "is_null"}},
         {[Plain EXCEPT !.comparison = c, !.frequency = f] :
             c \in Grain \cup {"period"}, f \in Frequency},
         {[Plain EXCEPT !.comparison = "custom",
             !.config = [currentStart |-> On(2024, 7, 1), currentEnd |-> On(2024, 7, 31),
                         previousStart |-> p, previousEnd |-> p + 10]]
            : p \in {-1, On(2024, 6, 10), On(2024, 6, 29)}},
         {[Plain EXCEPT !.comparison = "year", !.frequency = "year",
             !.rows = <<At(On(2023, 2, 28), 5, "N", "A", "x"), At(On(2024, 2, 29), 9, "N", "A", "x")>>]}}

MCOrder == <<"(other)", "A", "B", "N", "NULL", "S", "x", "y">>
MCBranching == <<2, 1, 1>>
-----------------------------------------------------------------------------
\* Anomaly detection: monthly figures, with and without gaps, and files whose
\* moments are too many, too far apart or too few.
Monthly(values) == [m \in DOMAIN values |->
    [at |-> On(2023 + (m - 1) \div 12, ((m - 1) % 12) + 1, 10), cell |-> values[m]]]
Spike == Monthly(<<{10}, {12}, {11}, {60}, {10}, {}, {12}, {70}, {11}>>)
Rising == Monthly(<<{10}, {11}, {12}, {13}, {40}, {41}, {42}, {43}>>)
Still == Monthly(<<{10}, {10}, {10}, {10}, {11}, {10}, {10}>>)
\* Every eleventh day from the middle of January, the last month half collected.
Often == [n \in 1..12 |-> [at |-> On(2023, 1, 12) + 11 * (n - 1) * TicksPerDay, cell |-> {5}]]
FarApart == <<[at |-> On(2024, 1, 9), cell |-> {5}], [at |-> On(2024, 2, 20), cell |-> {6}]>>
InARow(n) == [d \in 1..n |-> [at |-> On(2024, 2, 25) + (d - 1) * TicksPerDay, cell |-> {d}]]
Sparse == <<[at |-> On(2024, 2, 27), cell |-> {5}], [at |-> On(2024, 3, 2), cell |-> {6}]>>
\* Three rows a month, a number among them sometimes twice; one month without a number.
Basket ==
    [n \in 1..21 |->
        LET m == (n + 2) \div 3
        IN  [at |-> On(2023, m, 3 + (n % 3)),
             cell |-> IF m = 4 THEN {} ELSE {IF n % 3 = 1 THEN 5 ELSE (n * m) % 7}]]
Holes == SelectSeq(Spike, LAMBDA s : MonthOf(s.at) \notin {3, 8}) \o <<[at |-> -1, cell |-> {4}]>>

Regular ==
    [ready |-> TRUE, defined |-> TRUE, grain |-> "none", frequency |-> "month",
     aggregation |-> "SUM", method |-> "robust_zscore", hasTime |-> TRUE,
     timeType |-> "temporal", measureType |-> "numeric", filterable |-> TRUE,
     window |-> 4, maxPeriods |-> 12,
     samples |-> Spike]
MCHistories ==
    LET Each(samples) ==
            {[Regular EXCEPT !.samples = samples, !.method = method, !.window = w]
                : method \in {"robust_zscore", "iqr"}, w \in {2, 4}}
    IN  UNION {
         Each(Spike), Each(Holes), Each(Rising), Each(Still),
         {[Regular EXCEPT !.samples = Often, !.frequency = f, !.grain = g, !.aggregation = a]
            : f \in {"week", "day", "unknown", "quarter"}, g \in {"month", "none"},
              a \in {"SUM", "COUNT", "AVG"}},
         {[Regular EXCEPT !.samples = samples, !.frequency = "day", !.grain = "day",
                          !.maxPeriods = n]
            : samples \in {FarApart, Sparse, InARow(4), InARow(5)}, n \in {3, 4, 5}},
         {[Regular EXCEPT !.samples = Spike, !.frequency = f, !.maxPeriods = 3,
                          !.grain = "quarter"] : f \in {"month", "year"}},
         {[Regular EXCEPT !.frequency = "year",
             !.samples = <<[at |-> On(2023, 2, 28), cell |-> {5}],
                           [at |-> On(2024, 2, 29), cell |-> {9}]>>],
          [Regular EXCEPT !.ready = FALSE], [Regular EXCEPT !.defined = FALSE],
          [Regular EXCEPT !.grain = "equal_span"], [Regular EXCEPT !.hasTime = FALSE],
          [Regular EXCEPT !.aggregation = "unsupported"],
          [Regular EXCEPT !.method = "unsupported"],
          [Regular EXCEPT !.timeType = "missing"], [Regular EXCEPT !.timeType = "numeric"],
          [Regular EXCEPT !.measureType = "missing"],
          [Regular EXCEPT !.measureType = "temporal"], [Regular EXCEPT !.filterable = FALSE],
          [Regular EXCEPT !.samples = <<[at |-> -1, cell |-> {4}]>>]},
         {[Regular EXCEPT !.samples = Basket, !.aggregation = a, !.method = m]
            : a \in {"COUNT_DISTINCT", "MIN", "MAX", "MEDIAN"}, m \in {"robust_zscore", "iqr"}}}

-----------------------------------------------------------------------------
\* Bodies of up to three messages around the two limits, declared or chunked, whole or
\* broken off; a form adds two bytes.
MCUploads ==
    {u \in {[route |-> route, declared |-> IF tells THEN {SumOfSizes(sizes) + rest} ELSE {},
             messages |-> sizes, envelope |-> IF route = "form" THEN 2 ELSE 0,
             breaksOff |-> rest > 0, format |-> format]
              : route \in {"form", "raw"}, tells \in BOOLEAN, rest \in {0, 3},
                sizes \in UNION {[1..n -> {0, 1, 3}] : n \in 0..3},
                format \in {"csv", "xlsx", "unsupported"}}
        : u.breaksOff \/ FileSize(u) >= 0}

\* Results around every cap and every batch; a column that is NULL for a while.
MCTransfers ==
    LET Columns(n) == UNION {[1..k -> BOOLEAN] : k \in 0..n}
        Filled(n) == {[i \in 1..k |-> TRUE] : k \in 0..n}
        Each(kind, limits, cells) ==
            {[kind |-> kind, allowed |-> TRUE, limit |-> n, cells |-> c]
                : n \in limits, c \in cells}
    IN  UNION {Each("execute", 0..5, Filled(7)), Each("save", {0, 2, 4, 9}, Columns(5)),
               Each("save", {0}, Filled(7)), Each("sheet", {0}, Columns(6)),
               {[kind |-> k, allowed |-> FALSE, limit |-> 0, cells |-> <<>>]
                  : k \in {"execute", "save"}}}

-----------------------------------------------------------------------------
EnginesInit == InvestigationInit /\ SeriesInit /\ BodyInit /\ RowsInit
InvestigationRuns ==
    /\ seriesStage = "idle" /\ wire = "idle" /\ phase = "idle"
    /\ InvestigationNext
    /\ UNCHANGED <<seriesVars, bodyVars, rowVars>>
AnomaliesRun ==
    /\ rcaStage = "idle" /\ wire = "idle" /\ phase = "idle"
    /\ SeriesNext
    /\ UNCHANGED <<invVars, bodyVars, rowVars>>
UploadsRun ==
    /\ rcaStage = "idle" /\ seriesStage = "idle" /\ phase = "idle"
    /\ BodyNext
    /\ UNCHANGED <<invVars, seriesVars, rowVars>>
TransfersRun ==
    /\ rcaStage = "idle" /\ seriesStage = "idle" /\ wire = "idle"
    /\ RowsNext
    /\ UNCHANGED <<invVars, seriesVars, bodyVars>>
EnginesNext == InvestigationRuns \/ AnomaliesRun \/ UploadsRun \/ TransfersRun
EnginesSpec == EnginesInit /\ [][EnginesNext]_<<invVars, seriesVars, bodyVars, rowVars>>
=============================================================================
