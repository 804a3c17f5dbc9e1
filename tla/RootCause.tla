------------------------------ MODULE RootCause ------------------------------
(***************************************************************************)
(* One run of the root cause engine, rca/engine.run_investigation: project *)
(* the rows, resolve two windows, total them, break the change down by     *)
(* every dimension, and descend into the dimension that explains most.     *)
(* Ratios and averages are exact fractions.                                *)
(***************************************************************************)
EXTENDS Periods, Fractions, Listings

CONSTANTS
    Dimension,         \* columns a KPI may be broken down by
    Segment,           \* the values of them; NULL is one
    SegmentOrder,      \* their alphabetical order, a sequence
    Analyses,          \* the analyses asked for
    MinRowsForMean,    \* MIN_ROWS_FOR_MEAN_STABILITY
    MinRowsToDrill,    \* MIN_ROWS_TO_DRILL
    Branching          \* BRANCHING_BY_DEPTH

Aggregation == {"SUM", "AVG", "COUNT", "COUNT_DISTINCT", "MIN", "MAX", "MEDIAN"}
Counting == {"COUNT", "COUNT_DISTINCT"}
MeanLike == {"AVG", "MEDIAN"}
OtherBucket == "(other)"
ColumnType == {"missing", "numeric", "temporal", "text"}

\* A cell of the measure column: a number, text that is none, or a null sentinel.
\* A moment of -1 is one that cannot be read.
Row == [at : Int, measure : [kind : {"number", "garbled", "sentinel"}, is : Int],
        segment : [Dimension -> Segment]]

\* RcaSpec, the file it is about, and the physical types DESCRIBE finds there.
Analysis ==
    [rows : Seq(Row), aggregation : Aggregation, hasTime : BOOLEAN,
     timeType : ColumnType, measureType : ColumnType,
     dimensions : Seq(Dimension), present : SUBSET Dimension,
     filter : [op : {"none", "eq", "ne", "is_null", "unsupported"},
               dimension : Dimension, value : Segment],
     comparison : Grain \cup {"period", "custom"},
     config : [currentStart : Int, currentEnd : Int, previousStart : Int, previousEnd : Int],
     frequency : Frequency, limit : Nat, maxDrivers : Nat, maxDepth : Nat]

ASSUME RootCauseAssumption ==
    /\ {"NULL", OtherBucket} \subseteq Segment
    /\ \A s \in Segment : \E i \in DOMAIN SegmentOrder : SegmentOrder[i] = s
    /\ {MinRowsForMean, MinRowsToDrill} \subseteq Nat
    /\ Branching \in Seq(Nat) /\ Branching # <<>>
    /\ \A a \in Analyses :
         /\ a \in Analysis /\ a.limit > 0 /\ a.maxDrivers > 0
         /\ \A i, j \in DOMAIN a.dimensions : a.dimensions[i] = a.dimensions[j] => i = j
         /\ \A i \in DOMAIN a.rows : a.rows[i].at = -1 \/ Covered(a.rows[i].at)

VARIABLES
    rcaStage,      \* the next statement of run_investigation
    task,          \* {} or the analysis
    windows,       \* PeriodResolution
    totals,        \* the KPI in both windows
    gap,           \* rows of the overlap check: {} or what it found
    basis,         \* AttributionBasis
    level,         \* nodes of every dimension at depth 1
    truncated,     \* dimensions whose values were cut
    tree,          \* nodes below the root
    queue,         \* nodes still to expand
    drivers,       \* [primary, secondary, offsetting]: paths
    notices,
    trace,         \* QueryTracer: the statements executed, each with its purpose
    rcaState       \* AnalysisState, or the error that ended the run

rcaResult == <<rcaStage, task, windows, totals, gap, basis, level, truncated, tree, queue,
               drivers, notices, rcaState>>
rcaVars == <<rcaResult, trace>>

The == CHOOSE a \in task : TRUE
Usable == Chosen(The.dimensions, LAMBDA d : d \in The.present)
UsableSet == {Usable[i] : i \in DOMAIN Usable}

-----------------------------------------------------------------------------
(***************************************************************************)
(* The SQL: casting.py, dimension_analysis.py.                             *)
(***************************************************************************)

\* measure_expression: a sentinel is null; text that is no number only counts.
CellValue(cell) ==
    IF cell.kind = "sentinel" \/ (cell.kind = "garbled" /\ The.aggregation \notin Counting)
    THEN {} ELSE {cell.is}

\* build_filter_clause, with SQL's three-valued logic: NULL passes is_null only.
Passes(row) ==
    LET value == row.segment[The.filter.dimension]
    IN  CASE The.filter.op = "eq" -> value # "NULL" /\ value = The.filter.value
          [] The.filter.op = "ne" -> value # "NULL" /\ value # The.filter.value
          [] The.filter.op = "is_null" -> value = "NULL"
          [] OTHER -> TRUE

\* The base table, as row numbers.
Base == {i \in DOMAIN The.rows : Passes(The.rows[i])}
Dated == {i \in Base : The.rows[i].at >= 0}
Measured(S) == {i \in S : CellValue(The.rows[i].measure) # {}}
ValueOf(i) == CHOOSE v \in CellValue(The.rows[i].measure) : TRUE
Within(S, window) == {i \in S : The.rows[i].at >= 0 /\ In(The.rows[i].at, window)}

\* aggregate_expression over a set of rows; {} is NULL.
TotalOf(M) == SumOver(M, LAMBDA i : Whole(ValueOf(i)))
\* The k-th smallest value, counting repeats.
Ranking(M, k) ==
    CHOOSE v \in {ValueOf(i) : i \in M} :
        /\ Cardinality({i \in M : ValueOf(i) < v}) < k
        /\ k <= Cardinality({i \in M : ValueOf(i) <= v})
AggregateOf(M, n) ==
    CASE The.aggregation = "COUNT" -> {Whole(n)}
      [] The.aggregation = "COUNT_DISTINCT" -> {Whole(Cardinality({ValueOf(i) : i \in M}))}
      [] The.aggregation \notin Counting /\ M = {} -> {}
      [] The.aggregation = "SUM" /\ M # {} -> {TotalOf(M)}
      [] The.aggregation = "AVG" /\ M # {} -> {Over(TotalOf(M), Whole(n))}
      [] The.aggregation = "MIN" /\ M # {} -> {Whole(Ranking(M, 1))}
      [] The.aggregation = "MAX" /\ M # {} -> {Whole(Ranking(M, n))}
      [] The.aggregation = "MEDIAN" /\ M # {} ->
            {Halve(Whole(Ranking(M, (n + 1) \div 2) + Ranking(M, (n + 2) \div 2)))}

\* Both windows at once, for the whole table or for one group of it.
Side(rows, M) == [rows |-> Cardinality(rows), count |-> Cardinality(M),
                  value |-> AggregateOf(M, Cardinality(M))]
InWindow(rows) == Side(rows, Measured(rows))
Both(current, previous) ==
    [current |-> current.value, previous |-> previous.value,
     currentCount |-> current.count, previousCount |-> previous.count,
     currentRows |-> current.rows, previousRows |-> previous.rows]
Totalled(S) ==
    Both(InWindow(Within(S, windows.current)), InWindow(Within(S, windows.previous)))
NoTotals == [current |-> {}, previous |-> {}, currentCount |-> 0, previousCount |-> 0,
             currentRows |-> 0, previousRows |-> 0]

OrZero(value) == IF value = {} THEN Zero ELSE CHOOSE v \in value : TRUE
ChangeOf(t) == Minus(OrZero(t.current), OrZero(t.previous))
HasChange == totals.current # {} \/ totals.previous # {}
GlobalChange == ChangeOf(totals)

Position(s) == CHOOSE i \in DOMAIN SegmentOrder : SegmentOrder[i] = s

Labelled(d, s, t) ==
    [dimension |-> d, segment |-> s, current |-> t.current, previous |-> t.previous,
     currentCount |-> t.currentCount, previousCount |-> t.previousCount,
     currentRows |-> t.currentRows, previousRows |-> t.previousRows]

\* One row of the breakdown: NULL is a group of its own, and sorts last.
Group(d, s, S) ==
    Labelled(d, s, Totalled({i \in S : The.rows[i].segment[d] = s}))
Alphabetic(r, s) == r # "NULL" /\ (s = "NULL" \/ Position(r) < Position(s))
Before(a, x, b, y) == Less(y, x) \/ (x = y /\ Alphabetic(a.segment, b.segment))
MovesMore(a, b) == Before(a, Abs(ChangeOf(a)), b, Abs(ChangeOf(b)))

\* build_breakdown_sql: one group per value with a row in either window, the ones
\* that moved most first, the limit applied per dimension.
Breakdown(d, S) ==
    LET inside == Within(S, windows.current) \cup Within(S, windows.previous)
    IN  Firsts(SortedBy({Group(d, s, S) : s \in {The.rows[i].segment[d] : i \in inside}}, MovesMore),
               The.limit)

\* build_distinct_overlap_sql, per window: the groups' distinct values over the total.
OverlapGap(d, window) ==
    LET S == Within(Base, window)
        Values(T) == Cardinality({ValueOf(i) : i \in Measured(T)})
    IN  SumOver({The.rows[i].segment[d] : i \in S},
            LAMBDA s : Whole(Values({i \in S : The.rows[i].segment[d] = s}))).num
        - Values(S)

-----------------------------------------------------------------------------
(***************************************************************************)
(* The arithmetic: contribution.py.                                        *)
(***************************************************************************)

GrossMovement(groups) == SumOver(DOMAIN groups, LAMBDA i : Abs(ChangeOf(groups[i])))

\* basis_for.  The groups are those of the first dimension.
NetToGrossMinRatio == Frac(5, 100)
NetIsSmall(gross) == gross # Zero /\ Less(Over(Abs(GlobalChange), gross), NetToGrossMinRatio)
BasisFor(groups, overlap) ==
    CASE The.aggregation = "COUNT_DISTINCT" ->
            IF overlap = {<<0, 0>>} THEN "net_change" ELSE "unattributable"
      [] The.aggregation \in {"MIN", "MAX", "MEDIAN"} -> "unattributable"
      [] The.aggregation \in {"SUM", "COUNT", "AVG"} ->
            IF ~HasChange THEN "unattributable"
            ELSE IF NetIsSmall(GrossMovement(groups)) THEN "gross_movement"
            ELSE IF The.aggregation = "AVG" THEN "mix_rate" ELSE "net_change"

\* _avg_effects: rate and mix, centred on the overall average.
AverageEffect(g) ==
    LET Weight(n, all) == IF all = 0 THEN Zero ELSE Frac(n, all)
        Mean(n, own, other) == IF n = 0 THEN OrZero(other) ELSE OrZero(own)
        center == Halve(Plus(OrZero(totals.previous), OrZero(totals.current)))
        Effect(w0, w1, m0, m1) ==
            Plus(Times(Halve(Plus(w0, w1)), Minus(m1, m0)),
                 Times(Minus(Halve(Plus(m0, m1)), center), Minus(w1, w0)))
    IN  Effect(Weight(g.previousCount, totals.previousCount),
               Weight(g.currentCount, totals.currentCount),
               Mean(g.previousCount, g.previous, g.current),
               Mean(g.currentCount, g.current, g.previous))

\* A share of the change asked about, at every depth; {} is None.
Contribution(g, gross) ==
    LET Part(whole) ==
            IF whole = Zero THEN {}
            ELSE {Over(IF basis = "mix_rate" THEN AverageEffect(g) ELSE ChangeOf(g), whole)}
    IN  IF basis = "unattributable" THEN {}
        ELSE Part(IF basis = "gross_movement" THEN gross ELSE GlobalChange)

\* What the group did beyond its share of the baseline.
Excess(g) ==
    IF OrZero(totals.previous) = Zero \/ ~HasChange THEN {}
    ELSE {Minus(ChangeOf(g),
                Times(GlobalChange, Over(OrZero(g.previous), OrZero(totals.previous))))}

\* build_nodes, for one group below a path.
Node(g, path, gross) ==
    [path |-> Append(path, <<g.dimension, g.segment>>), change |-> ChangeOf(g),
     contribution |-> Contribution(g, gross), excess |-> Excess(g),
     rows |-> g.currentRows + g.previousRows,
     born |-> g.previousRows = 0 /\ g.currentRows > 0,
     gone |-> g.currentRows = 0 /\ g.previousRows > 0,
     other |-> path = <<>> /\ g.segment = OtherBucket,
     thin |-> The.aggregation \in MeanLike /\ g.currentRows + g.previousRows < MinRowsForMean,
     class |-> IF path = <<>> /\ g.segment = OtherBucket THEN "residual" ELSE "immaterial",
     ranked |-> FALSE, stop |-> "no", child |-> "none", split |-> "no"]
Nodes(groups, path, gross) == [i \in DOMAIN groups |-> Node(groups[i], path, gross)]

\* _residual_segment: what the listed groups leave of the totals.
\* Mutant: the rest of the rows is not looked at.
NoResidual(d, kept) == {}
ResidualSegment(d, kept) ==
    LET Left(of) == Minus(OrZero(totals[of]), SumOver(DOMAIN kept, LAMBDA i : OrZero(kept[i][of])))
        Rest == [of \in {"currentCount", "previousCount", "currentRows", "previousRows"} |->
            totals[of] - SumOver(DOMAIN kept, LAMBDA i : Whole(kept[i][of])).num]
        Residual(rest) ==
            IF rest["currentRows"] <= 0 /\ rest["previousRows"] <= 0 THEN {}
            ELSE {Labelled(d, OtherBucket,
                    [of \in DOMAIN totals |->
                        IF of \notin DOMAIN rest THEN {Left(of)}
                        ELSE IF rest[of] < 0 THEN 0 ELSE rest[of]])}
    IN  Residual(Rest)

\* The groups of one dimension at depth 1, the residual among them.
WithResidual(d, groups) ==
    groups \o (IF Len(groups) < The.limit THEN <<>> ELSE SetToSeq(ResidualSegment(d, groups)))
LevelNodes(groups) == Nodes(groups, <<>>, GrossMovement(groups))

\* explanatory_power; {} is None.
Power(nodes, change) ==
    IF change = Zero THEN {}
    ELSE {Over(SumOver({i \in DOMAIN nodes : ~nodes[i].other},
                       LAMBDA i : Abs(OrZero(nodes[i].excess))), Abs(change))}

-----------------------------------------------------------------------------
(***************************************************************************)
(* The choices: ranking.py, tree.py.                                       *)
(***************************************************************************)

ParetoTarget == Frac(80, 100)
MinMaterial == Frac(5, 100)
MinPower == Frac(10, 100)

Share(node) == OrZero(node.contribution)
Scored(nodes) == {n \in nodes : n.contribution # {} /\ ~n.other}

\* Biggest first; ties by node_id, where NULL reads "(none)" and comes first.
Label(node) == LET s == node.path[Len(node.path)][2] IN IF s = "NULL" THEN 0 ELSE Position(s)
Heavier(a, b) ==
    \/ Less(Abs(Share(b)), Abs(Share(a)))
    \/ Abs(Share(a)) = Abs(Share(b)) /\ Label(a) < Label(b)
Ranked(S) == SortedBy(S, Heavier)

\* The shortest prefix that reaches the Pareto target, if that is within the cap.
\* Mutant: the segment that reaches the target is left out.
ParetoShort(seq) ==
    LET Sum(k) == SumOver(1..k, LAMBDA i : Share(seq[i]))
        reach == {k \in DOMAIN seq : AtMost(ParetoTarget, Sum(k))}
        first == IF reach = {} THEN Len(seq)
                 ELSE (CHOOSE k \in reach : \A j \in reach : k <= j) - 1
    IN  Firsts(seq, IF first < The.maxDrivers THEN first ELSE The.maxDrivers)
Pareto(seq) ==
    LET Sum(k) == SumOver(1..k, LAMBDA i : Share(seq[i]))
        reach == {k \in DOMAIN seq : AtMost(ParetoTarget, Sum(k))}
        first == IF reach = {} THEN Len(seq) ELSE CHOOSE k \in reach : \A j \in reach : k <= j
    IN  Firsts(seq, IF first < The.maxDrivers THEN first ELSE The.maxDrivers)

\* classify: material segments that move with the KPI, and against it.
Supported(material) ==
    IF \A n \in material : n.thin THEN material ELSE {n \in material : ~n.thin}
Classes(primary, material, against) ==
    [primary |-> primary,
     secondary |-> Firsts(Ranked(material \ ToSet(primary)), The.maxDrivers),
     offsetting |-> Firsts(Ranked(against), The.maxDrivers)]
Classified(nodes) ==
    LET material == {n \in Scored(nodes) : AtMost(MinMaterial, Share(n))}
        against == {n \in Scored(nodes) : AtMost(MinMaterial, Minus(Zero, Share(n)))}
    IN  Classes(Pareto(Ranked(Supported(material))), material, against)
ClassIn(node, c) ==
    IF node \in ToSet(c.primary) THEN "primary"
    ELSE IF node \in ToSet(c.secondary) THEN "secondary"
    ELSE IF node \in ToSet(c.offsetting) THEN "offsetting" ELSE node.class

\* rank_dimensions: the best informative dimension, or else the first pure one.
Populated(nodes) == {n \in ToSet(nodes) : n.rows > 0}
Strongest(shares) == CHOOSE x \in shares : \A y \in shares : AtMost(y, x)
Rank(at, nodes, change) ==
    [at |-> at, power |-> Power(nodes, change), size |-> Len(nodes),
     populated |-> Cardinality(Populated(nodes)),
     top |-> IF nodes = <<>> THEN Zero ELSE Strongest({Abs(Share(n)) : n \in ToSet(nodes)})]
Informative(rank) == rank.populated > 1 /\ \E p \in rank.power : AtMost(MinPower, p)
Better(a, b) ==
    \/ Less(OrZero(b.power), OrZero(a.power))
    \/ /\ a.power = b.power
       /\ \/ Less(b.top, a.top)
          \/ a.top = b.top /\ (a.size < b.size \/ (a.size = b.size /\ a.at < b.at))
Choice(informative, pure, order) ==
    IF informative # {}
    THEN {[dimension |-> order[SortedBy(informative, Better)[1].at], split |-> "partition"]}
    ELSE {[dimension |-> order[r.at], split |-> "pure"]
            : r \in {r \in pure : \A q \in pure : r.at <= q.at}}
BestOf(ranks, order) ==
    Choice({r \in ranks : Informative(r)}, {r \in ranks : r.populated = 1}, order)
Choose(candidates, order, change) ==
    BestOf({Rank(i, candidates[order[i]], change) : i \in DOMAIN order}, order)
ChosenNodes(choice, candidates) ==
    IF choice.split = "pure" THEN Populated(candidates[choice.dimension])
    ELSE ToSet(candidates[choice.dimension])

\* frontier_for: the strongest primaries, the rest marked.
\* Mutant: every depth branches like the first.
BranchingFirst(depth) == Branching[1]
BranchingAt(depth) == Branching[IF depth < Len(Branching) THEN depth ELSE Len(Branching)]
Placed(node, nodes, c) ==
    [node EXCEPT !.class = ClassIn(node, c), !.ranked = node \in Scored(nodes)]
Settled(nodes, c, best) ==
    {[Placed(n, nodes, c) EXCEPT
        !.stop = IF n \in ToSet(c.primary) \ ToSet(best) THEN "branching_limit" ELSE "no"]
     : n \in nodes}

\* The strongest go on; where two are as strong, in the order the statement listed them.
InOrderOf(node) == [segment |-> node.path[Len(node.path)][2]]
GoesFirst(a, b) ==
    \/ Less(Abs(Share(b)), Abs(Share(a)))
    \/ /\ Abs(Share(a)) = Abs(Share(b))
       /\ Before(InOrderOf(a), Abs(a.change), InOrderOf(b), Abs(b.change))
Foremost(primary, depth) == Firsts(SortedBy(ToSet(primary), GoesFirst), BranchingAt(depth))

\* What a choice adds below a node; at most one, as the choice itself.
Expansion(choice, nodes, c, best) ==
    [dimension |-> choice.dimension, split |-> choice.split, from |-> nodes, classes |-> c,
     nodes |-> Settled(nodes, c, best), frontier |-> [i \in DOMAIN best |-> best[i].path]]
Branched(choice, nodes, c, depth) ==
    Expansion(choice, nodes, c, Foremost(c.primary, depth))
ExpandedBy(choice, nodes, depth) == Branched(choice, nodes, Classified(nodes), depth)
Expansions(choices, candidates, depth) ==
    {ExpandedBy(c, ChosenNodes(c, candidates), depth) : c \in choices}

\* drillable: "no", or why the node is not expanded.
StopReason(node, remaining) ==
    CASE Len(node.path) >= The.maxDepth -> "max_depth_reached"
      [] Len(node.path) < The.maxDepth /\ remaining = <<>> -> "no_dimensions_left"
      [] OTHER ->
           IF node.other THEN "residual_bucket"
           ELSE IF node.contribution = {} \/ Less(Abs(Share(node)), MinMaterial)
           THEN "contribution_immaterial"
           ELSE IF The.aggregation \in MeanLike /\ node.rows < MinRowsToDrill
           THEN "insufficient_rows" ELSE "no"

\* gross_denominator: the movement of depth 1, at every depth.
\* Mutant: every level is shared out among its own segments.
LocalDenominator(path, groups) == GrossMovement(groups)
Denominator(path, groups) ==
    SumOver(DOMAIN level[path[1][1]], LAMBDA i : Abs(level[path[1][1]][i].change))

-----------------------------------------------------------------------------
(***************************************************************************)
(* The run.                                                                *)
(***************************************************************************)

NoDrivers == [primary |-> <<>>, secondary |-> <<>>, offsetting |-> <<>>]

RcaInit ==
    /\ rcaStage = "idle" /\ task = {}
    /\ windows = Failed("no") /\ totals = NoTotals /\ gap = {}
    /\ basis = "none" /\ level = <<>> /\ truncated = {}
    /\ tree = {} /\ queue = <<>> /\ drivers = NoDrivers
    /\ notices = {} /\ trace = <<>> /\ rcaState = "none"

Finish(state) == rcaStage' = "done" /\ rcaState' = state
Go(stage) == rcaStage' = stage /\ UNCHANGED rcaState

\* QueryTracer.execute: recorded before it can fail; a drill-down names the node it
\* expands, the others none.
Statement(purpose, path) == [purpose |-> purpose, node |-> path]
Executed(purposes) ==
    trace' = trace \o [i \in DOMAIN purposes |-> Statement(purposes[i], <<>>)]
Drilled(path) == trace' = Append(trace, Statement("drilldown_breakdown", path))

StartAnalysis(a) ==
    /\ rcaStage = "idle"
    /\ task' = {a}
    /\ Go("describe")
    /\ UNCHANGED <<windows, totals, gap, basis, level, truncated, tree, queue, drivers,
                   notices, trace>>

\* DESCRIBE, and what can be decided from it: columns, casts, the filter.
Describe ==
    /\ rcaStage = "describe"
    /\ Executed(<<"describe_relation">>)
    /\ CASE The.measureType = "missing" -> Finish("RCA_COLUMN_MISSING")
         [] The.measureType # "missing" /\ ~The.hasTime -> Finish("no_time_column")
         [] The.measureType # "missing" /\ The.hasTime ->
              IF The.timeType = "missing" THEN Finish("RCA_COLUMN_MISSING")
              ELSE IF The.timeType = "numeric" THEN Finish("RCA_TIME_COLUMN_NOT_TEMPORAL")
              ELSE IF The.measureType = "temporal" /\ The.aggregation \notin Counting
              THEN Finish("RCA_MEASURE_NOT_NUMERIC")
              ELSE IF \/ The.filter.op = "unsupported"
                      \/ The.filter.op # "none" /\ The.filter.dimension \notin The.present
              THEN Finish("KPI_FILTER_INVALID")
              ELSE Go("bounds")
    /\ UNCHANGED <<task, windows, totals, gap, basis, level, truncated, tree, queue,
                   drivers, notices>>

Moments == {The.rows[i].at : i \in Dated}
Resolved(moments) ==
    ResolvePeriods(The.comparison, The.config, The.frequency, Oldest(moments), Newest(moments))

\* The base table and its bounds, and from them the windows.
Bounds ==
    /\ rcaStage = "bounds"
    /\ Executed(<<"project_base_table", "resolve_period_bounds">>)
    /\ IF Dated = {}
       THEN /\ Finish(IF Base = {} THEN "no_data" ELSE "no_time_column")
            /\ UNCHANGED <<windows, notices>>
       ELSE IF The.aggregation \notin Counting /\ Measured(Base) = {}
       THEN Finish("RCA_MEASURE_NOT_NUMERIC") /\ UNCHANGED <<windows, notices>>
       ELSE \E found \in {Resolved(Moments)} :
                /\ windows' = found
                /\ notices' =
                     (IF Dated # Base THEN {"UNPARSED_TIME_ROWS"} ELSE {})
                     \cup (IF Measured(Base) # Base /\ The.aggregation \notin Counting
                           THEN {"UNPARSED_MEASURE_ROWS"} ELSE {})
                     \cup (IF found.excluded # Nothing THEN {"PARTIAL_CURRENT_PERIOD"} ELSE {})
                     \cup (IF The.comparison = "period" /\ The.frequency = "unknown"
                           THEN {"FREQUENCY_UNKNOWN_EQUAL_SPAN"} ELSE {})
                /\ IF found.failed # "no" THEN Finish(found.failed) ELSE Go("totals")
    /\ UNCHANGED <<task, totals, gap, basis, level, truncated, tree, queue, drivers>>

Total ==
    /\ rcaStage = "totals"
    /\ Executed(<<"kpi_period_totals">>)
    /\ totals' = Totalled(Base)
    /\ LET without == IF totals'.previousRows = 0 THEN "NO_PREVIOUS_PERIOD"
                      ELSE "NO_DIMENSIONS_CONFIGURED"
       IN  IF totals'.currentRows = 0 /\ totals'.previousRows = 0
           THEN Finish("no_data") /\ UNCHANGED notices
           ELSE IF totals'.previousRows = 0 \/ Usable = <<>>
           THEN /\ notices' = notices \cup {without}
                /\ Finish(IF totals'.previousRows = 0 THEN "no_previous_period" ELSE "ok")
           ELSE Go("breakdown") /\ UNCHANGED notices
    /\ UNCHANGED <<task, windows, gap, basis, level, truncated, tree, queue, drivers>>

\* Level 1: one statement for all dimensions, for COUNT_DISTINCT a second one that
\* looks for overlap over the first dimension; then the basis.
BreakDown ==
    /\ rcaStage = "breakdown"
    /\ gap' = IF The.aggregation # "COUNT_DISTINCT" THEN {}
              ELSE {<<OverlapGap(Usable[1], windows.previous),
                      OverlapGap(Usable[1], windows.current)>>}
    /\ Executed(<<"dimension_breakdown">>
                   \o (IF gap' = {} THEN <<>> ELSE <<"distinct_overlap_check">>))
    /\ basis' = BasisFor(Breakdown(Usable[1], Base), gap')
    /\ LET cannot == basis' = "unattributable"
           still == HasChange /\ GlobalChange = Zero /\ basis' # "gross_movement"
       IN  /\ notices' = notices
                 \cup (IF cannot THEN {"AGGREGATION_NOT_ATTRIBUTABLE"} ELSE {})
                 \cup (IF still THEN {"NO_CHANGE_DETECTED"} ELSE {})
           /\ IF still THEN Finish("no_change") ELSE Go("nodes")
    /\ UNCHANGED <<task, windows, totals, level, truncated, tree, queue, drivers>>

TheOne(S) == CHOOSE x \in S : TRUE
InLevel(node, d, found) ==
    IF \A e \in found : e.dimension # d THEN node
    ELSE Placed(node, TheOne(found).from, TheOne(found).classes)

\* The nodes of every dimension, and the dimension the tree starts with.
BuildLevel ==
    /\ rcaStage = "nodes"
    /\ \E groups \in {[d \in UsableSet |-> Breakdown(d, Base)]} :
          /\ truncated' = {d \in UsableSet : Len(groups[d]) >= The.limit}
          /\ \E nodes \in {[d \in UsableSet |-> LevelNodes(WithResidual(d, groups[d]))]} :
                LET choices == IF basis = "unattributable" THEN {}
                               ELSE Choose(nodes, Usable, GlobalChange)
                IN  \E found \in {Expansions(choices, nodes, 1)} :
                       /\ level' = [d \in UsableSet |-> [i \in DOMAIN nodes[d] |->
                                       InLevel(nodes[d][i], d, found)]]
                       /\ tree' = UNION {e.nodes : e \in found}
                       /\ queue' = IF found = {} THEN <<>> ELSE TheOne(found).frontier
                       /\ drivers' = IF found = {} THEN NoDrivers ELSE TheOne(found).classes
    /\ notices' = notices \cup (IF truncated' # {} THEN {"DIMENSION_TRUNCATED"} ELSE {})
    /\ IF basis = "unattributable" THEN Finish("unattributable") ELSE Go("drill")
    /\ UNCHANGED <<task, windows, totals, gap, basis, trace>>

\* The next node to expand, and the dimensions its path has not used.
Expanding == CHOOSE n \in tree : n.path = queue[1]
Remaining(path) ==
    Chosen(Usable, LAMBDA d : d \notin {path[i][1] : i \in DOMAIN path})

\* What one statement over the remaining dimensions finds under a node.
Under(path) ==
    {i \in Base : \A k \in DOMAIN path : The.rows[i].segment[path[k][1]] = path[k][2]}
NodesUnder(path, groups) == Nodes(groups, path, Denominator(path, groups))
Descended(node, remaining, candidates) ==
    Expansions(Choose(candidates, remaining, node.change), candidates, Len(node.path) + 1)
Descend(node, remaining) ==
    Descended(node, remaining,
              [d \in ToSet(remaining) |-> NodesUnder(node.path, Breakdown(d, Under(node.path)))])
Expanded(node, found) ==
    IF found = {} THEN [node EXCEPT !.stop = "uniform_within_segment"]
    ELSE [node EXCEPT !.child = TheOne(found).dimension, !.split = TheOne(found).split]

\* _drill, one node of the level: one statement over what remains, with the denominator
\* of depth 1.
DrillNode ==
    /\ rcaStage = "drill" /\ queue # <<>>
    /\ \E node \in {Expanding}, remaining \in {Remaining(queue[1])} :
       \E stop \in {StopReason(node, remaining)} :
          IF stop # "no"
          THEN /\ tree' = (tree \ {node}) \cup {[node EXCEPT !.stop = stop]}
               /\ queue' = Tail(queue)
               /\ UNCHANGED trace
          ELSE \E found \in {Descend(node, remaining)} :
               /\ tree' = (tree \ {node}) \cup {Expanded(node, found)}
                             \cup UNION {e.nodes : e \in found}
               /\ queue' = Tail(queue) \o (IF found = {} THEN <<>> ELSE TheOne(found).frontier)
               /\ Drilled(node.path)
    /\ UNCHANGED <<rcaStage, task, windows, totals, gap, basis, level, truncated, drivers,
                   notices, rcaState>>

\* change_pattern and the result: a change no dimension concentrates has no drivers.
Conclude ==
    /\ rcaStage = "drill" /\ queue = <<>>
    /\ LET powers == UNION {Power(level[d], GlobalChange) : d \in UsableSet}
           broad == powers # {} /\ \A p \in powers : Less(p, MinPower)
           allThin == drivers.primary # <<>> /\ \A n \in ToSet(drivers.primary) : n.thin
       IN  /\ notices' = notices
                \cup (IF allThin THEN {"LOW_SUPPORT_DRIVERS"} ELSE {})
                \cup (IF broad THEN {"BROAD_BASED_CHANGE"} ELSE {})
           /\ IF broad THEN drivers' = NoDrivers /\ tree' = {} ELSE UNCHANGED <<drivers, tree>>
    /\ Finish("ok")
    /\ UNCHANGED <<task, windows, totals, gap, basis, level, truncated, queue, trace>>

\* A statement DuckDB refuses, of the two of a step either, ends the run; it is traced
\* all the same.
StatementFails ==
    /\ \/ rcaStage = "describe" /\ Executed(<<"describe_relation">>)
       \/ rcaStage = "bounds" /\ Executed(<<"project_base_table">>)
       \/ rcaStage = "bounds" /\ Executed(<<"project_base_table", "resolve_period_bounds">>)
       \/ rcaStage = "totals" /\ Executed(<<"kpi_period_totals">>)
       \/ rcaStage = "breakdown" /\ Executed(<<"dimension_breakdown">>)
       \/ /\ rcaStage = "breakdown" /\ The.aggregation = "COUNT_DISTINCT"
          /\ Executed(<<"dimension_breakdown", "distinct_overlap_check">>)
       \/ /\ rcaStage = "drill" /\ queue # <<>>
          /\ StopReason(Expanding, Remaining(queue[1])) = "no"
          /\ Drilled(queue[1])
    /\ Finish("statement failed")
    /\ UNCHANGED <<task, windows, totals, gap, basis, level, truncated, tree, queue,
                   drivers, notices>>

RcaStep ==
    \/ Describe \/ Bounds \/ Total \/ BreakDown \/ BuildLevel
    \/ DrillNode \/ Conclude \/ StatementFails
RcaNext == (\E a \in Analyses : StartAnalysis(a)) \/ RcaStep
RcaSpec == RcaInit /\ [][RcaNext]_rcaVars /\ WF_rcaVars(RcaStep)
-----------------------------------------------------------------------------
(***************************************************************************)
(* What must hold.                                                         *)
(***************************************************************************)

\* The windows never lose the newest row: it is in the current one, or in the
\* unfinished period that is set aside and disclosed, and then older rows remain.
\* The windows share no row, and a row outside both is in neither total.
NewestAccountedFor ==
    task # {} /\ windows.failed = "no" /\ windows.current # Nothing =>
        /\ \A t \in Moments : ~(In(t, windows.current) /\ In(t, windows.previous))
        /\ The.comparison # "custom" =>
             /\ windows.previous.end = windows.current.start
             /\ \/ In(Newest(Moments), windows.current)
                \/ /\ In(Newest(Moments), windows.excluded)
                   /\ windows.excluded.start = windows.current.end
                   /\ \E t \in Moments : t < windows.excluded.start

\* Where contributions are shares of a whole.
Additive(d) ==
    \/ The.aggregation \in {"SUM", "COUNT"}
    \/ The.aggregation = "AVG" /\ d \notin truncated
         /\ totals.currentCount > 0 /\ totals.previousCount > 0
    \/ The.aggregation = "COUNT_DISTINCT" /\ d = Usable[1]

\* Contributions add up to the whole change over every dimension, whatever is NULL,
\* new, gone or beyond the limit: engine and evidence rely on it.  For an average
\* only where nothing was cut and both windows hold a value; for a distinct count
\* over the dimension that was checked.  A dimension in which nothing moved, when the
\* movements of another cancel exactly, has no shares.
ContributionsSumToOne ==
    rcaState = "ok" /\ level # <<>> =>
        \A d \in UsableSet :
            Additive(d) /\ (\E i \in DOMAIN level[d] : level[d][i].contribution # {}) =>
                One = SumOver(DOMAIN level[d], LAMBDA i :
                         IF basis = "gross_movement" THEN Abs(Share(level[d][i]))
                         ELSE Share(level[d][i]))

\* ranking.py: a node id "is always a string and unique within a sibling set", which ties
\* and the ids of the evidence rest on.
SiblingsDistinct ==
    level # <<>> =>
        \A d \in UsableSet : \A i, j \in DOMAIN level[d] :
            level[d][i].path = level[d][j].path => i = j

Children(node) == {n \in tree : Len(n.path) = Len(node.path) + 1
    /\ SubSeq(n.path, 1, Len(node.path)) = node.path}

\* The children of a node account for exactly its share, at every depth and under
\* every basis, unless its values were cut.  The changes of averages do not add up:
\* theirs are shares only through the effects on the whole, the basis mix_rate.
TreeReconciles ==
    rcaState = "ok" =>
        \A node \in tree :
            node.child # "none" /\ Cardinality(Children(node)) < The.limit
                /\ Additive(node.child) /\ (The.aggregation = "AVG" => basis = "mix_rate") =>
                Share(node) = SumOver(Children(node), Share)

\* The drivers named reach the Pareto target, or nothing that could be trusted is
\* left to name, or the list is full.
PrimaryReachTarget ==
    rcaState = "ok" /\ tree # {} =>
        LET named == ToSet(drivers.primary)
            top == {n \in tree : Len(n.path) = 1}
            left == {n \in top : ~n.other /\ AtMost(MinMaterial, Share(n))
                        /\ n.path \notin {m.path : m \in named}}
        IN  \/ AtMost(ParetoTarget, SumOver(named, Share))
            \/ Cardinality(named) = The.maxDrivers
            \/ left = {}
            \/ named # {} /\ \A n \in left : n.thin

\* An analysis costs at most one drill-down per node that may go on, however wide the
\* file, and no node twice.  The documentation says less: one per level (below).
StatementsBounded ==
    LET below == Branching[IF Len(Branching) > 1 THEN 2 ELSE 1]
        expanded == <<0, Branching[1], Branching[1] * (1 + below)>>
        drills == {i \in DOMAIN trace : trace[i].purpose = "drilldown_breakdown"}
    IN  /\ task # {} /\ The.maxDepth \in 1..3 => Cardinality(drills) <= expanded[The.maxDepth]
        /\ \A i, j \in drills : trace[i].node = trace[j].node => i = j

-----------------------------------------------------------------------------
(***************************************************************************)
(* What the documentation says.                                            *)
(***************************************************************************)

\* engine.py: "each tree level costs one statement rather than one per node", "the whole
\* investigation stays around eight statements".  The loop of _drill issues one for every
\* node it expands.
LevelCostsOneStatement ==
    \A i, j \in DOMAIN trace :
        /\ trace[i].purpose = "drilldown_breakdown" /\ trace[j].purpose = "drilldown_breakdown"
        /\ Len(trace[i].node) = Len(trace[j].node) => i = j
=============================================================================
