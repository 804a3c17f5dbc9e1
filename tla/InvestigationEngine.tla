------------------------- MODULE InvestigationEngine -------------------------
(***************************************************************************)
(* investigation/engine.investigate: a root cause analysis, an attempt at  *)
(* anomaly detection, then what makes the answer auditable: a verdict on   *)
(* the arithmetic, evidence records that cite the statements they were     *)
(* read from, six quality checks, the reasons for each choice, and a       *)
(* status.  The engine itself is RootCause; the series one appears by its  *)
(* outcomes (AnomalyDetection has its steps).                              *)
(***************************************************************************)
EXTENDS RootCause

VARIABLES
    step,          \* the next statement of investigate
    anomalies,     \* AnomalyReport: did it run, and what of it bears on the change
    reconciled,    \* Reconciliation
    records,       \* EvidenceRecords
    quality,       \* EvidenceQualitySummary
    decisions,     \* DecisionRecords
    audit,         \* AuditLog: event types
    limitations,
    outcome        \* InvestigationStatus, or how the run failed

auditVars == <<step, anomalies, reconciled, records, quality, decisions, audit, limitations,
               outcome>>
invVars == <<rcaVars, auditVars>>

-----------------------------------------------------------------------------
(***************************************************************************)
(* The result, as the evidence layer reads it.                             *)
(***************************************************************************)

Results == {"ok", "no_change", "no_data", "no_time_column", "no_previous_period",
            "unattributable"}
\* NO_ANALYSIS_STATES; in them no periods are on the result either.
Unanalysed == rcaState \in {"no_data", "no_time_column"}
HasLevel == level # <<>>
BroadBased == "BROAD_BASED_CHANGE" \in notices
TopDimension == (CHOOSE n \in tree : Len(n.path) = 1).path[1][1]

\* dimension_results, in the order of the definition.
Ordered == IF HasLevel THEN FlattenSeq([i \in DOMAIN Usable |-> level[Usable[i]]]) ELSE <<>>

\* QueryTracer.find: the latest statement of a purpose, for a node if one is given; 0
\* is none.
\* Mutant: whichever drill-down came last.
FoundAny(purpose, nodes) ==
    LET hits == {i \in DOMAIN trace : trace[i].purpose = purpose}
    IN  IF hits = {} THEN 0 ELSE CHOOSE i \in hits : \A j \in hits : j <= i
Found(purpose, nodes) ==
    LET hits == {i \in DOMAIN trace : trace[i].purpose = purpose /\ trace[i].node \in nodes}
    IN  IF hits = {} THEN 0 ELSE CHOOSE i \in hits : \A j \in hits : j <= i

\* _node_query.  The id of the parent is put together again from the path, and a NULL in
\* it comes out as "None", where the statement has "(none)".
NodeQuery(path) ==
    LET parent == SubSeq(path, 1, Len(path) - 1)
        readable == \A i \in DOMAIN parent : parent[i][2] # "NULL"
    IN  IF Len(path) <= 1 THEN Found("dimension_breakdown", {<<>>})
        ELSE Found("drilldown_breakdown", IF readable THEN {parent} ELSE {})

-----------------------------------------------------------------------------
(***************************************************************************)
(* validation.reconcile, tree.tree_drift.                                  *)
(***************************************************************************)

Below(path) == {n \in tree : Len(n.path) = Len(path) + 1 /\ SubSeq(n.path, 1, Len(path)) = path}

\* The nodes that were split, the synthetic root (empty path) first among them: what each
\* holds, by which dimension it was split, and whether into one segment only.
Split(path, share, dimension, pure) ==
    [path |-> path, share |-> share, dimension |-> dimension, pure |-> pure]
RootShare ==
    IF GlobalChange = Zero \/ ~HasChange THEN {}
    ELSE IF basis = "gross_movement" THEN {SumOver(Below(<<>>), Share)} ELSE {One}
Splits ==
    (IF tree = {} THEN {}
     ELSE {Split(<<>>, RootShare, TopDimension, Cardinality(Below(<<>>)) = 1)})
    \cup {Split(n.path, n.contribution, n.child, n.split = "pure")
            : n \in {n \in tree : n.child # "none"}}
Drifting(s) ==
    s.share # {} /\ SumOver(Below(s.path), Share) # (CHOOSE x \in s.share : TRUE)

\* _classify_drift: one segment only, or values cut, explain it.
\* Mutant: values cut do not.
ExplainedByPurity(s) == s.pure
Explained(s) == s.pure \/ s.dimension \in truncated
DriftStatus ==
    LET drifts == {s \in Splits : Drifting(s)}
    IN  IF drifts = {} THEN "passed"
        ELSE IF \A s \in drifts : Explained(s) THEN "drift_explained" ELSE "drift_unexplained"

\* contribution_sum over the dimension of the tree, or else the first one.
ContributionSum ==
    LET d == IF tree # {} THEN TopDimension ELSE Usable[1]
        known == {i \in DOMAIN level[d] : level[d][i].contribution # {}}
        Part(i) == IF basis = "gross_movement" THEN Abs(Share(level[d][i]))
                   ELSE Share(level[d][i])
    IN  IF ~HasLevel THEN {} ELSE IF known = {} THEN {} ELSE {SumOver(known, Part)}
Reconciliation ==
    [status |-> IF ContributionSum = {} THEN "not_applicable"
                ELSE IF ContributionSum = {One} THEN "passed" ELSE "failed",
     drift |-> DriftStatus]
ReconciliationPassed(v) == v.status = "passed" /\ v.drift # "drift_unexplained"

-----------------------------------------------------------------------------
(***************************************************************************)
(* evidence.build.                                                         *)
(***************************************************************************)

\* The id of a record is a hash of its kind and this key: what it is about, and a tag
\* that tells records about the same node apart.  A query of 0 is none.
Record(kind, tag, path, query) ==
    [kind |-> kind, tag |-> tag, path |-> path, query |-> query, class |-> "none",
     derived |-> FALSE, status |-> "unverified"]
About(kind, node) ==
    [Record(kind, "node", node.path, NodeQuery(node.path)) EXCEPT !.class = node.class]
AboutEach(kind, nodes) == [i \in DOMAIN nodes |-> About(kind, nodes[i])]
OnlyIf(condition, record) == IF condition THEN <<record>> ELSE <<>>

MeasuredKinds == {"kpi_change", "dimension_change", "contribution", "drill_down",
    "new_segment", "gone_segment", "offsetting_factor", "anomaly"}

\* _is_material: whatever was ranked, and the residual.
\* Mutant: offsetting factors are not.
MaterialDriver(node) == node.class \in {"primary", "secondary", "residual"}
Material(node) == node.ranked \/ node.class # "immaterial"

\* The stop of a node is a record of its own.
\* Mutant: under the same key.
StopTagShared == "node"
StopTag == "stop"
Stops(nodes) ==
    [i \in DOMAIN nodes |->
        [Record("drill_down", StopTag, nodes[i].path, 0) EXCEPT
            !.class = nodes[i].class, !.derived = TRUE]]

\* The methods of _Builder, and build, which calls them in order.
KpiChangeEvidence == <<Record("kpi_change", "root", <<>>, Found("kpi_period_totals", {<<>>}))>>
ComparisonEvidence ==
    OnlyIf(~Unanalysed,
           Record("comparison", "periods", <<>>, Found("resolve_period_bounds", {<<>>})))
DimensionEvidence == AboutEach("dimension_change", Chosen(Ordered, Material))
ContributionEvidence ==
    AboutEach("contribution",
              Chosen(Ordered, LAMBDA n : Material(n) /\ n.contribution # {}))
LifecycleEvidence ==
    LET mentioned == {i \in DOMAIN Ordered : Ordered[i].born \/ Ordered[i].gone}
        first == {i \in mentioned :
                    \A j \in mentioned : Ordered[j].path = Ordered[i].path => i <= j}
        Lifecycle(node) == About(IF node.gone THEN "gone_segment" ELSE "new_segment", node)
        nodes == Picked(Ordered, first)
    IN  [k \in DOMAIN nodes |-> Lifecycle(nodes[k])]
OffsettingEvidence == AboutEach("offsetting_factor", drivers.offsetting)
DrillDownEvidence ==
    AboutEach("drill_down", SetToSeq({n \in tree : Len(n.path) >= 2}))
    \o Stops(SetToSeq({n \in tree : n.stop # "no"}))
AnomalyEvidence ==
    OnlyIf(anomalies.inside,
           Record("anomaly", "series", <<>>, Found("series_aggregate", {<<>>})))
    \o OnlyIf(anomalies.trend, Record("trend", "baseline", <<>>, 0))
RunEvidence ==
    [i \in 1..3 |-> Record(<<"execution", "coverage", "reconciliation">>[i], "run", <<>>, 0)]
Evidence ==
    KpiChangeEvidence \o ComparisonEvidence \o DimensionEvidence \o ContributionEvidence
    \o LifecycleEvidence \o OffsettingEvidence \o DrillDownEvidence \o AnomalyEvidence
    \o RunEvidence

-----------------------------------------------------------------------------
(***************************************************************************)
(* validation.assess and apply_verdict.                                    *)
(***************************************************************************)

CheckOrder == <<"data_period_coverage", "numerical_consistency",
    "contribution_reconciliation", "query_provenance", "source_traceability",
    "required_metadata">>
Check == {CheckOrder[i] : i \in 1..6}
MaxRowsOutside == Frac(1, 2)

CheckCoverage ==
    LET inside == Within(Base, windows.current) \cup Within(Base, windows.previous)
        Ends(w) == w.start < w.end
        caveats ==
            \/ windows.previous.end # windows.current.start
            \/ Base # {} /\ Less(MaxRowsOutside,
                                 Frac(Cardinality(Base \ inside), Cardinality(Base)))
            \/ Dated # Base \/ Measured(Base) # Base
    IN  IF Unanalysed THEN "not_applicable"
        ELSE IF \/ ~Ends(windows.current) \/ ~Ends(windows.previous)
                \/ rcaState # "no_previous_period" /\ totals.previousRows = 0
        THEN "failed" ELSE IF caveats THEN "warning" ELSE "passed"

\* The identities of one node hold in exact arithmetic.  That the segments of the first
\* dimension that was not cut move as much as the KPI is looked at for averages too.
CheckConsistency ==
    LET whole == Chosen(Usable, LAMBDA d : level[d] # <<>> /\ d \notin truncated)
        moved == SumOver(DOMAIN level[whole[1]], LAMBDA i : level[whole[1]][i].change)
    IN  IF HasLevel /\ basis \in {"net_change", "mix_rate"} /\ HasChange
        THEN IF whole # <<>> /\ moved # GlobalChange THEN "failed" ELSE "passed"
        ELSE IF HasChange \/ HasLevel THEN "passed" ELSE "not_applicable"

CheckReconciliation ==
    CASE reconciled.status = "not_applicable" -> "not_applicable"
      [] ReconciliationPassed(reconciled) -> "passed"
      [] reconciled.status = "passed" /\ ~ReconciliationPassed(reconciled) -> "warning"
      [] reconciled.status = "failed" -> "failed"

\* Every record with a statement has it verbatim; a measured one without is a caveat.
CheckProvenance ==
    IF \E i \in DOMAIN records :
            records[i].query = 0 /\ records[i].kind \in MeasuredKinds /\ ~records[i].derived
    THEN "warning" ELSE "passed"

CheckTraceability ==
    IF \A i \in DOMAIN records : \A k \in DOMAIN records[i].path :
            records[i].path[k][1] \in The.present
    THEN "passed" ELSE "failed"

\* kpi_change has to name both periods.
CheckMetadata == IF Unanalysed THEN "failed" ELSE "passed"

Checks ==
    [data_period_coverage |-> CheckCoverage, numerical_consistency |-> CheckConsistency,
     contribution_reconciliation |-> CheckReconciliation,
     query_provenance |-> CheckProvenance, source_traceability |-> CheckTraceability,
     required_metadata |-> CheckMetadata]
With(checks, status) == {c \in Check : checks[c] = status}
QualityOf(checks) ==
    IF Unanalysed THEN "not_applicable"
    ELSE IF With(checks, "failed") # {} THEN "failed"
    ELSE IF With(checks, "warning") \ {"data_period_coverage"} # {} THEN "warning"
    ELSE "validated"

\* apply_verdict.
Stamped(record, checks) ==
    LET Broken(cs) == cs \cap With(checks, "failed") # {}
    IN  [record EXCEPT !.status =
            IF \/ Broken({"numerical_consistency", "required_metadata"})
               \/ Broken({"query_provenance", "source_traceability"})
                    /\ record.kind \in MeasuredKinds
            THEN "failed" ELSE IF Unanalysed THEN "not_applicable" ELSE "validated"]
ValidationRecord(check, checks) ==
    [Record("validation", check, <<>>, 0) EXCEPT !.status =
        IF checks[check] \in {"failed", "not_applicable"} THEN checks[check] ELSE "validated"]

-----------------------------------------------------------------------------
(***************************************************************************)
(* decisions.record_all, stamped with the evidence about their nodes.      *)
(***************************************************************************)

Decision(kind, path) ==
    [kind |-> kind, path |-> path,
     evidence |-> {i \in DOMAIN records : path # <<>> /\ records[i].path = path}]
DecisionEach(kind, nodes) == [i \in DOMAIN nodes |-> Decision(kind, nodes[i].path)]

\* Material all the same, but thin; outside the dimension of the tree nothing is ranked, so
\* every thin segment there counts as passed over.
PassedOver(node) ==
    node.thin /\ node.class = "immaterial" /\ node.contribution # {}
        /\ AtMost(MinMaterial, Abs(Share(node)))

RecordPeriods == OnlyIf(~Unanalysed, Decision("period_resolved", <<>>))
RecordBasis == <<Decision("basis_selected", <<>>)>>
RecordPattern ==
    <<Decision("pattern_classified", <<>>)>>
    \o OnlyIf(BroadBased, Decision("driver_suppressed", <<>>))
RecordSelection ==
    DecisionEach("segment_selected",
                 drivers.primary \o drivers.secondary \o drivers.offsetting)
RecordSuppression == DecisionEach("driver_suppressed", Chosen(Ordered, PassedOver))
RecordStops == DecisionEach("drilldown_stopped", SetToSeq({n \in tree : n.stop # "no"}))
Reasons ==
    RecordPeriods \o RecordBasis \o RecordPattern \o RecordSelection \o RecordSuppression
    \o RecordStops

\* _analytical_limitations.
\* Mutant: a dimension that was cut is no limitation.
LimitationsUncut ==
    {<<"excluded", d>> : d \in {d \in ToSet(The.dimensions) \ The.present : HasLevel}}
    \cup (IF reconciled.drift = "drift_unexplained" THEN {<<"drift", "tree">>} ELSE {})
    \cup (IF quality.verdict = "failed" THEN {<<"quality", "failed">>} ELSE {})
    \cup (IF Unanalysed THEN {<<"quality", "nothing">>}
          ELSE {<<"caveat", c>> : c \in With(quality.checks, "warning")})
Limitations ==
    {<<"excluded", d>> : d \in {d \in ToSet(The.dimensions) \ The.present : HasLevel}}
    \cup {<<"truncated", d>> : d \in truncated}
    \cup (IF reconciled.drift = "drift_unexplained" THEN {<<"drift", "tree">>} ELSE {})
    \cup (IF quality.verdict = "failed" THEN {<<"quality", "failed">>} ELSE {})
    \cup (IF Unanalysed THEN {<<"quality", "nothing">>}
          ELSE {<<"caveat", c>> : c \in With(quality.checks, "warning")})

-----------------------------------------------------------------------------
(***************************************************************************)
(* The run.                                                                *)
(***************************************************************************)

NotRun == [ran |-> FALSE, inside |-> FALSE, trend |-> FALSE]

InvestigationInit ==
    /\ RcaInit
    /\ step = "analyse" /\ anomalies = NotRun
    /\ reconciled = [status |-> "none", drift |-> "none"]
    /\ records = <<>> /\ quality = [checks |-> [c \in Check |-> "none"], verdict |-> "none"]
    /\ decisions = <<>> /\ audit = <<"INVESTIGATION_STARTED">>
    /\ limitations = {} /\ outcome = "none"

Analyse == step = "analyse" /\ RcaNext /\ UNCHANGED auditVars

\* record_analysis; an error of the engine ends the investigation.
RecordAnalysis ==
    /\ step = "analyse" /\ rcaStage = "done"
    /\ IF rcaState \notin Results
       THEN step' = "over" /\ outcome' = "error" /\ UNCHANGED audit
       ELSE /\ step' = "detect"
            /\ audit' = audit
                 \o (IF Unanalysed THEN <<>> ELSE <<"PERIODS_RESOLVED">>)
                 \o <<"KPI_CALCULATED">>
                 \o (IF HasLevel THEN <<"DIMENSION_ANALYSIS_EXECUTED">> ELSE <<>>)
                 \o [i \in DOMAIN drivers.primary |-> "CONTRIBUTOR_SELECTED"]
                 \o (IF tree = {} THEN <<>> ELSE <<"DRILLDOWN_EXECUTED">>)
                 \o [i \in 1..Cardinality({n \in tree : n.stop # "no"}) |-> "DRILLDOWN_STOPPED"]
            /\ UNCHANGED outcome
    /\ UNCHANGED <<rcaVars, anomalies, reconciled, records, quality, decisions, limitations>>

\* _detect: left out on request, or where there is nothing to detect on.
SkipDetection ==
    /\ step = "detect"
    /\ step' = "reconcile"
    /\ UNCHANGED <<rcaVars, anomalies, reconciled, records, quality, decisions, audit,
                   limitations, outcome>>

Detectable == step = "detect" /\ The.hasTime /\ ~Unanalysed
NoGrain ==
    /\ Detectable /\ The.frequency = "unknown"
    /\ step' = "reconcile"
    /\ audit' = Append(audit, "ANOMALY_DETECTION_SKIPPED")
    /\ limitations' = limitations \cup {<<"anomalies", "no frequency">>}
    /\ UNCHANGED <<rcaVars, anomalies, reconciled, records, quality, decisions, outcome>>

\* detect_anomalies on the same trace, with its three outcomes: a report, an AppError after
\* some of its statements, which is a limitation, or another error, which escapes.
SeriesStatements ==
    <<"describe_relation", "series_base_table", "series_bounds", "series_aggregate">>
Detected ==
    /\ Detectable /\ The.frequency # "unknown"
    /\ Executed(SeriesStatements)
    /\ \E inside, trend \in BOOLEAN :
          anomalies' = [ran |-> TRUE, inside |-> inside, trend |-> trend]
    /\ audit' = Append(audit, "ANOMALY_DETECTION_EXECUTED")
    /\ step' = "reconcile"
    /\ UNCHANGED <<rcaResult, reconciled, records, quality, decisions, limitations, outcome>>
DetectionRefused ==
    /\ Detectable /\ The.frequency # "unknown"
    /\ \E k \in {0, 1, 3} : Executed(SubSeq(SeriesStatements, 1, k))
    /\ audit' = Append(audit, "ANOMALY_DETECTION_SKIPPED")
    /\ limitations' = limitations \cup {<<"anomalies", "refused">>}
    /\ step' = "reconcile"
    /\ UNCHANGED <<rcaResult, anomalies, reconciled, records, quality, decisions, outcome>>
DetectionEscapes ==
    /\ Detectable /\ The.frequency # "unknown"
    /\ \E k \in 1..4 : Executed(SubSeq(SeriesStatements, 1, k))
    /\ step' = "over" /\ outcome' = "error"
    /\ UNCHANGED <<rcaResult, anomalies, reconciled, records, quality, decisions, audit,
                   limitations>>

Reconcile ==
    /\ step = "reconcile"
    /\ reconciled' = Reconciliation
    /\ audit' = Append(audit,
            IF Reconciliation.status = "not_applicable" \/ ReconciliationPassed(Reconciliation)
            THEN "RECONCILIATION_PASSED" ELSE "RECONCILIATION_FAILED")
    /\ step' = "build"
    /\ UNCHANGED <<rcaVars, anomalies, records, quality, decisions, limitations, outcome>>

BuildEvidence ==
    /\ step = "build"
    /\ records' = Evidence
    /\ audit' = Append(audit, "EVIDENCE_BUILT")
    /\ step' = "assess"
    /\ UNCHANGED <<rcaVars, anomalies, reconciled, quality, decisions, limitations, outcome>>

Assess ==
    /\ step = "assess"
    /\ LET checks == Checks
       IN  /\ quality' = [checks |-> checks, verdict |-> QualityOf(checks)]
           /\ records' = [i \in DOMAIN records |-> Stamped(records[i], checks)]
                \o [i \in 1..6 |-> ValidationRecord(CheckOrder[i], checks)]
    /\ audit' = Append(audit, "EVIDENCE_VALIDATED")
    /\ step' = "conclude"
    /\ UNCHANGED <<rcaVars, anomalies, reconciled, decisions, limitations, outcome>>

ConcludeInvestigation ==
    /\ step = "conclude"
    /\ decisions' = Reasons
    /\ limitations' = limitations \cup Limitations
    /\ LET degraded == limitations' # {} \/ quality.verdict = "failed"
                          \/ reconciled.drift = "drift_unexplained"
       IN  /\ outcome' = IF degraded THEN "partial" ELSE "completed"
           /\ audit' = Append(audit, IF degraded THEN "INVESTIGATION_PARTIAL"
                                     ELSE "INVESTIGATION_COMPLETED")
    /\ step' = "over"
    /\ UNCHANGED <<rcaVars, anomalies, reconciled, records, quality>>

InvestigationNext ==
    \/ Analyse \/ RecordAnalysis
    \/ SkipDetection \/ NoGrain \/ Detected \/ DetectionRefused \/ DetectionEscapes
    \/ Reconcile \/ BuildEvidence \/ Assess \/ ConcludeInvestigation
InvestigationSpec == InvestigationInit /\ [][InvestigationNext]_invVars

-----------------------------------------------------------------------------
(***************************************************************************)
(* What must hold.                                                         *)
(***************************************************************************)

\* A number cites the very statement it was read from: the breakdown for a segment of the
\* first level, the drill-down into its own parent below.  It cites none only below a
\* segment that has no value.
CitesOwnStatement ==
    \A i \in DOMAIN records :
        LET r == records[i]
            parent == SubSeq(r.path, 1, Len(r.path) - 1)
        IN  r.tag = "node" =>
              IF r.query # 0
              THEN trace[r.query] = IF Len(r.path) = 1 THEN Statement("dimension_breakdown", <<>>)
                                    ELSE Statement("drilldown_breakdown", parent)
              ELSE \E k \in DOMAIN parent : parent[k][2] = "NULL"

\* No two records share an id, which is the primary key they are stored under.
EvidenceIdsUnique ==
    \A i, j \in DOMAIN records :
        <<records[i].kind, records[i].tag, records[i].path>>
            = <<records[j].kind, records[j].tag, records[j].path>> => i = j

\* Nothing is said without a number behind it: every segment in the hierarchy that has a
\* share, or is the rest, or was found by a drill-down, has evidence, and so has each
\* choice and each stop, of the class it was chosen for.
FindingsRestOnEvidence ==
    outcome \in {"completed", "partial"} =>
        /\ \A n \in tree :
             n.contribution # {} \/ n.other \/ Len(n.path) >= 2 =>
                 \E i \in DOMAIN records : records[i].path = n.path
        /\ \A k \in DOMAIN decisions :
             /\ decisions[k].kind = "segment_selected" =>
                   \E i \in decisions[k].evidence : records[i].kind = "contribution"
             /\ decisions[k].kind = "drilldown_stopped" =>
                   \E i \in decisions[k].evidence : records[i].derived

\* "Completed" is said of whole answers only: no check failed, every record stands, no
\* dimension was cut and no row was unreadable.
CompletedIsWhole ==
    outcome = "completed" =>
        /\ truncated = {}
        /\ \A i \in DOMAIN records : records[i].status # "failed"
        /\ reconciled.status # "failed" /\ reconciled.drift # "drift_unexplained"
        /\ Dated = Base /\ Measured(Base) = Base

\* A sum or a count always reconciles, whatever is NULL, arrives, goes or is cut: what
\* drifts in its hierarchy is explained, and no check fails.
AdditiveRunsPass ==
    quality.verdict # "none" /\ The.aggregation \in {"SUM", "COUNT"} /\ ~Unanalysed =>
        reconciled.drift # "drift_unexplained" /\ quality.verdict # "failed"

\* validation.py: "segments of one dimension must reproduce the whole movement.  Skipped
\* where the engine already says it cannot."  If the contributions reconcile, the
\* numbers do not contradict each other.
ReconciledIsConsistent ==
    quality.verdict # "none" /\ reconciled.status = "passed" =>
        quality.checks["numerical_consistency"] # "failed"
=============================================================================
