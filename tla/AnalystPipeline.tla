--------------------------- MODULE AnalystPipeline ---------------------------
(***************************************************************************)
(* One question to the AI analyst: ai_analyst_service.analyze and the      *)
(* package ai/.  A language model that may fail, ignore its schema, invent *)
(* hints or figures is asked twice; everything between is deterministic.   *)
(* Other requests replace and delete KPI definitions meanwhile.            *)
(*                                                                         *)
(* A hint, a name or a period is what the code can tell about it: whether  *)
(* the question contains it, and how it matches what is configured.        *)
(***************************************************************************)
EXTENDS Integers, Sequences, FiniteSets

CONSTANTS
    Kpi, NoKpi,        \* KPI definitions of the dataset; "null"
    Dim, NoDim,        \* dimension names; "null"
    DimsOf,            \* the dimensions a definition lists
    Figure,            \* the numbers an analysis or a text may contain
    Month,             \* months a window may cover: [month, quarter, year]
    Configured,        \* what kpi_definitions may hold at first
    Questions,         \* the requests clients send
    Readings,          \* the hints the model may return for one
    Contents,          \* what an investigation may turn out to hold
    MaxToolCalls,      \* settings.ai_max_tool_calls
    MaxPlanSteps,      \* settings.ai_max_plan_steps
    IntentRetries,     \* settings.ai_intent_retries
    Scores,            \* the figures an anomaly report adds
    MaxEdits           \* bound: definitions changed while a question is open

IntentKind == {"KPI_ANALYSIS", "ROOT_CAUSE_ANALYSIS", "ANOMALY_ANALYSIS",
    "DIMENSION_ANALYSIS", "CONTRIBUTION_ANALYSIS", "DRILL_DOWN",
    "INVESTIGATION_SUMMARY", "FOLLOW_UP_ANALYSIS"}
Tool == {"get_kpi_result", "detect_anomaly", "dimension_analysis",
    "contribution_analysis", "drill_down", "get_investigation", "get_evidence"}
Cue == {"anomaly", "summary", "dimension", "contribution", "cause", "value"}
Tier == {"exact", "partial", "overlap", "none"}
RawHint == {"null", "asked", "invented", "echoed"}
RawHints == [kpi : RawHint, period : RawHint, dimension : RawHint, segment : RawHint]
TokensOf(m) == {m.month, m.quarter, m.year}
PeriodToken == (UNION {TokensOf(m) : m \in Month}) \cup {"last month"}

\* previous is {} or the investigation the client names.
Question ==
    [cues : SUBSET Cue, kpi : BOOLEAN, period : SUBSET PeriodToken,
     dimension : BOOLEAN, segment : BOOLEAN,
     tier : [Kpi -> Tier], dimTier : [Dim -> Tier],
     kpiParam : Kpi \cup {NoKpi}, previous : SUBSET Contents]

\* A persisted investigation, as far as the tools read it.
Investigation ==
    [dataset : {"this", "other"}, kpi : Kpi \cup {NoKpi},
     analysed : BOOLEAN,                \* does the row hold a result?
     compared : BOOLEAN,                \* with an absolute change?
     kpiFigures : SUBSET Figure, driverFigures : SUBSET Figure,
     rows : SUBSET Figure, window : SUBSET Month, dims : SUBSET Dim,
     tree : {"none", "bare", "lacks", "holds"}]  \* the segment asked about

KpiChoices == [known : SUBSET Kpi, active : Kpi \cup {NoKpi}]
Intent == [kind : IntentKind, kpi : BOOLEAN, period : SUBSET PeriodToken,
           dimension : BOOLEAN, segment : BOOLEAN]
\* said: is the definition named as an assumption?
ResolvedContext ==
    [kpi : Kpi \cup {NoKpi}, dimension : Dim \cup {NoDim},
     origin : {"question", "active_default", "carried_over"},
     segment : BOOLEAN, period : SUBSET PeriodToken, said : BOOLEAN,
     blocked : {"no", "NO_KPI_CONFIGURED", "AMBIGUOUS_KPI", "NO_ACTIVE_KPI"}]
ToolResult == [tool : Tool, ok : BOOLEAN, denied : BOOLEAN]
Answer == [text : {"none", "generated", "template"}, figures : SUBSET Figure,
           causal : BOOLEAN, headline : {"none", "movement", "not compared"},
           noDrivers : BOOLEAN, note : BOOLEAN]

ASSUME AnalystAssumption ==
    /\ IsFiniteSet(Kpi) /\ NoKpi \notin Kpi /\ NoDim \notin Dim
    /\ DimsOf \in [Kpi -> SUBSET Dim]
    /\ Figure \in SUBSET Int /\ Scores \in SUBSET Figure
    /\ Month \in SUBSET [month : STRING, quarter : STRING, year : STRING]
    /\ Configured \in SUBSET {d \in [Kpi -> {"absent", "active", "superseded"}] :
          Cardinality({k \in Kpi : d[k] = "active"}) <= 1}
    /\ Questions \in SUBSET Question
    /\ Readings \in SUBSET RawHints
    /\ Contents \in SUBSET Investigation
    /\ \A inv \in Contents : inv.compared => inv.analysed
    /\ {MaxToolCalls, MaxPlanSteps, MaxEdits} \in SUBSET Nat
    /\ IntentRetries \in Int

VARIABLES
    defs, edits,       \* kpi_definitions, and how often others changed them
    stage,             \* where the call to analyze is
    question,          \* the request
    choices,           \* the definitions _kpi_choices read
    dims,              \* the names _dimensions read
    attempts,          \* calls to the model so far
    raw,               \* history: were the dimension's words in the question?
    intent, context, plan,
    source,            \* the investigation in hand: {} or one
    left,              \* rows this call has added to investigations
    anomaly,           \* the report of anomaly_service: "unasked", "none", "ran"
    late,              \* has ai_max_execution_seconds passed?
    steps,             \* results of the tools run
    cut,               \* did a cap or the deadline stop the plan?
    answer,            \* the text of the outcome
    outcome            \* AnalystOutcome.status, or how the request failed

request == <<question, choices, dims, raw, intent, context, plan>>
working == <<source, left, anomaly, late, steps, cut>>
result == <<answer, outcome>>
analystVars == <<defs, edits, stage, request, attempts, working, result>>

NoQuestion == [cues |-> {}, kpi |-> FALSE, period |-> {}, dimension |-> FALSE,
    segment |-> FALSE, tier |-> [k \in Kpi |-> "none"],
    dimTier |-> [d \in Dim |-> "none"], kpiParam |-> NoKpi, previous |-> {}]
NoIntent == [kind |-> "KPI_ANALYSIS", kpi |-> FALSE, period |-> {},
    dimension |-> FALSE, segment |-> FALSE]
NoContext == [kpi |-> NoKpi, origin |-> "active_default", dimension |-> NoDim,
    segment |-> FALSE, period |-> {}, said |-> FALSE, blocked |-> "no"]
NoAnswer == [text |-> "none", figures |-> {}, causal |-> FALSE, headline |-> "none",
    noDrivers |-> FALSE, note |-> FALSE]

AnalystTypeOK ==
    /\ defs \in [Kpi -> {"absent", "active", "superseded"}]
    /\ edits \in 0..MaxEdits
    /\ stage \in {"idle", "choices", "dimensions", "intent", "resolve", "plan",
                  "investigate", "anomaly", "execute", "explain", "ended"}
    /\ question \in Questions \cup {NoQuestion}
    /\ choices \in KpiChoices /\ dims \in SUBSET Dim
    /\ attempts \in 0..(2 + (IF IntentRetries > 0 THEN IntentRetries ELSE 0))
    /\ raw \in BOOLEAN /\ intent \in Intent /\ context \in ResolvedContext
    /\ plan \in Seq(Tool)
    /\ source \in SUBSET Contents
    /\ left \in {"nothing", "run", "failed run"}
    /\ anomaly \in {"unasked", "none", "ran"}
    /\ late \in BOOLEAN /\ cut \in BOOLEAN
    /\ steps \in Seq(ToolResult)
    /\ answer \in Answer
    /\ outcome \in {"none", "completed", "partial", "clarification",
                    "refused", "run failed", "model failed"}

-----------------------------------------------------------------------------
(***************************************************************************)
(* Step 1: understand (ai/intent.py, ai/keywords.py).                      *)
(***************************************************************************)

\* What the rules read from the words alone.  The order of the cues is their
\* precedence; some readings drop hints that another one would keep.
Classify(q) ==
    LET kind == IF "anomaly" \in q.cues THEN "ANOMALY_ANALYSIS"
                ELSE IF "summary" \in q.cues THEN "INVESTIGATION_SUMMARY"
                ELSE IF q.dimension \/ "dimension" \in q.cues THEN "DIMENSION_ANALYSIS"
                ELSE IF "contribution" \in q.cues THEN "CONTRIBUTION_ANALYSIS"
                ELSE IF q.segment THEN "DRILL_DOWN"
                ELSE IF "cause" \in q.cues THEN "ROOT_CAUSE_ANALYSIS"
                ELSE IF "value" \in q.cues THEN "KPI_ANALYSIS"
                ELSE "ROOT_CAUSE_ANALYSIS"
    IN  [kind |-> kind,
         kpi |-> q.kpi /\ kind \notin {"INVESTIGATION_SUMMARY", "DRILL_DOWN"},
         period |-> IF kind = "INVESTIGATION_SUMMARY" THEN {} ELSE q.period,
         dimension |-> q.dimension /\ kind = "DIMENSION_ANALYSIS",
         segment |-> q.segment /\ kind = "DRILL_DOWN"]

\* clean_hint: null-like words and echoes of the question go, and so does a hint
\* with a word the question does not have.
\* Mutant: the words are not looked up in the question.
CleanAnything(hint) == hint \in {"asked", "invented"}
Clean(hint) == hint = "asked"

\* The model's reading, kept where it can be trusted.  A period need not be in the
\* question: one the model has normalised is kept too.
Understood(kind, hints, q) ==
    LET guess == Classify(q)
    IN  [kind |-> IF kind \in IntentKind THEN kind ELSE guess.kind,
         kpi |-> Clean(hints.kpi) \/ guess.kpi,
         period |-> IF hints.period = "invented" THEN {"last month"} ELSE guess.period,
         dimension |-> Clean(hints.dimension),
         segment |-> Clean(hints.segment) \/ guess.segment]

\* Every way the model, or the way to it, fails is one of these, all UpstreamError.
ProviderFailure == {"LLM_TIMEOUT", "LLM_UNAVAILABLE", "LLM_REQUEST_REJECTED",
    "LLM_INVALID_OUTPUT"}

\* Mutants: one attempt more than the setting says; failed ones do not count.
IntentAttemptsOneMore == 2 + (IF IntentRetries > 0 THEN IntentRetries ELSE 0)
IntentAttempts == 1 + (IF IntentRetries > 0 THEN IntentRetries ELSE 0)

-----------------------------------------------------------------------------
(***************************************************************************)
(* Step 2: resolve (ai/resolve.py).                                        *)
(***************************************************************************)

\* match_kpis: the best tier that matches anything, tiers never mixed.
MatchKpis(q, known) ==
    LET At(tier) == {k \in known : q.tier[k] = tier}
    IN  IF At("exact") # {} THEN At("exact")
        ELSE IF At("partial") # {} THEN At("partial")
        ELSE At("overlap")

\* match_dimension: the first exact match or else the first partial one, in the
\* order of a query without ORDER BY.
MatchDimension(q, names) ==
    LET At(tier) == {d \in names : q.dimTier[d] = tier}
    IN  IF At("exact") # {} THEN At("exact")
        ELSE IF At("partial") # {} THEN At("partial")
        ELSE {NoDim}

\* A definition carried over from the request or from the earlier investigation.
CarriedKpi(q) ==
    IF q.kpiParam # NoKpi THEN {q.kpiParam} ELSE {p.kpi : p \in q.previous} \ {NoKpi}

\* A question that names something no definition matches falls back to the active one.
\* Mutant: only one that has nothing carried over does.
FallbackLast(in, matched, read) ==
    in.kpi /\ matched = {} /\ read.active # NoKpi /\ CarriedKpi(question) \cap read.known = {}
Fallback(in, matched, read) == in.kpi /\ matched = {} /\ read.active # NoKpi

\* What the intent means here: a definition and a dimension, or why not.
Resolved(in, read, dimension) ==
    LET matched == IF in.kpi THEN MatchKpis(question, read.known) ELSE {}
        carried == CarriedKpi(question) \cap read.known
        fallback == Fallback(in, matched, read)
        chosen == IF matched # {} THEN matched
                  ELSE IF fallback THEN {read.active}
                  ELSE IF carried # {} THEN carried
                  ELSE {read.active} \ {NoKpi}
        blocked == IF read.known = {} THEN "NO_KPI_CONFIGURED"
                   ELSE IF Cardinality(matched) > 1 THEN "AMBIGUOUS_KPI"
                   ELSE IF chosen = {} THEN "NO_ACTIVE_KPI"
                   ELSE "no"
    IN  IF blocked # "no" THEN [NoContext EXCEPT !.blocked = blocked]
        ELSE [kpi |-> CHOOSE k \in chosen : TRUE,
              origin |-> IF matched # {} THEN "question"
                         ELSE IF ~fallback /\ carried # {} THEN "carried_over"
                         ELSE "active_default",
              dimension |-> dimension, segment |-> in.segment, period |-> in.period,
              said |-> fallback, blocked |-> "no"]

-----------------------------------------------------------------------------
(***************************************************************************)
(* Step 3: plan (ai/constants.py, ai/planner.py).                          *)
(***************************************************************************)

Recipe ==
    [KPI_ANALYSIS |-> <<"get_kpi_result">>,
     ROOT_CAUSE_ANALYSIS |-> <<"get_kpi_result", "dimension_analysis",
         "contribution_analysis", "drill_down", "get_evidence">>,
     ANOMALY_ANALYSIS |-> <<"get_kpi_result", "detect_anomaly">>,
     DIMENSION_ANALYSIS |-> <<"get_kpi_result", "dimension_analysis">>,
     CONTRIBUTION_ANALYSIS |-> <<"get_kpi_result", "contribution_analysis", "get_evidence">>,
     DRILL_DOWN |-> <<"get_kpi_result", "contribution_analysis", "drill_down", "get_evidence">>,
     INVESTIGATION_SUMMARY |-> <<"get_investigation", "contribution_analysis", "get_evidence">>,
     FOLLOW_UP_ANALYSIS |-> <<"get_investigation", "get_kpi_result",
         "contribution_analysis", "drill_down", "get_evidence">>]

\* A follow-up that names no segment has nothing to drill into; its recipe lists
\* that tool once.
Wanted(kind, segment) ==
    LET recipe == Recipe[kind]
        drill == CHOOSE i \in DOMAIN recipe : recipe[i] = "drill_down"
    IN  IF kind = "FOLLOW_UP_ANALYSIS" /\ ~segment
        THEN SubSeq(recipe, 1, drill - 1) \o SubSeq(recipe, drill + 1, Len(recipe))
        ELSE recipe

Capped(calls) == IF Len(calls) > MaxPlanSteps THEN SubSeq(calls, 1, MaxPlanSteps) ELSE calls

\* Kinds that read the investigation the client named instead of making one.
ReadsPrevious == {"INVESTIGATION_SUMMARY", "FOLLOW_UP_ANALYSIS", "DRILL_DOWN"}

-----------------------------------------------------------------------------
(***************************************************************************)
(* Step 4: the tools (ai/tools/), projections of one investigation.        *)
(***************************************************************************)

InHand == CHOOSE inv \in source : TRUE

\* found is False in the payload of drill_down: no hierarchy, the segment is not
\* in it, or none was named and the root has no branches.
DrillDenied ==
    \/ InHand.tree = "none"
    \/ context.segment /\ InHand.tree # "holds"
    \/ ~context.segment /\ InHand.tree = "bare"

\* found is False in that of dimension_analysis: the one asked for is not there.
DimensionDenied ==
    /\ context.dimension # NoDim
    /\ context.dimension \notin (IF InHand.analysed THEN InHand.dims ELSE {})

\* The other tools never say found.  detect_anomaly says ran.
Denied(tool) ==
    \/ tool = "drill_down" /\ DrillDenied
    \/ tool = "dimension_analysis" /\ DimensionDenied

-----------------------------------------------------------------------------
(***************************************************************************)
(* Steps 5 to 7: ground, explain, verify.                                  *)
(***************************************************************************)

Ran(tool) == \E i \in DOMAIN steps : steps[i].tool = tool /\ steps[i].ok

\* The bundle: what a tool that ran has put in.
Compared == Ran("get_kpi_result") /\ InHand.compared
Drivers == IF Ran("contribution_analysis") THEN InHand.driverFigures ELSE {}
Numbers ==
    InHand.rows \cup Drivers
        \cup (IF Ran("get_kpi_result") THEN InHand.kpiFigures ELSE {})
        \cup (IF Ran("detect_anomaly") /\ anomaly = "ran" THEN Scores ELSE {})

\* _period_assumption: any word of the windows that occurs in the period named
\* makes it count as analysed.
PeriodNote ==
    LET covered == IF Ran("get_kpi_result") /\ InHand.analysed
                   THEN UNION {TokensOf(m) : m \in InHand.window} ELSE {}
    IN  context.period # {} /\ context.period \cap covered = {}

Magnitude(n) == IF n < 0 THEN -n ELSE n
Larger(a, b) == IF a > b THEN a ELSE b

\* _matches: equal up to half a percent, or one the hundredfold of the other up to
\* VERIFY_RELATIVE_TOLERANCE * scale * 100.
Matches(figure, number) ==
    LET v == Magnitude(figure)
        c == Magnitude(number)
        scale == Larger(Larger(v, c), 1)
    IN  \/ 1000 * Magnitude(v - c) <= 5 * scale
        \/ 1000 * Magnitude(100 * v - c) <= 500 * scale

\* Small numbers and what looks like a year are not looked up.
Checkable(figure) ==
    Magnitude(figure) >= 3 /\ Magnitude(figure) \notin 1900..2099

\* check: may the prose be published?
\* Mutant: one figure that is measured is enough.
GroundedSomewhere(figures) ==
    LET checked == {f \in figures : Checkable(f)}
    IN  checked = {} \/ \E f \in checked : \E c \in Numbers : Matches(f, c)
Grounded(figures) ==
    \A f \in figures : Checkable(f) => \E c \in Numbers : Matches(f, c)

\* template_answer.
\* Mutant: no drivers is said whether or not anyone looked.
TemplateUnchecked ==
    [text |-> "template", figures |-> Numbers, causal |-> FALSE,
     headline |-> IF Compared THEN "movement" ELSE "not compared",
     noDrivers |-> Drivers = {}, note |-> PeriodNote]
Template ==
    [text |-> "template", figures |-> Numbers, causal |-> FALSE,
     headline |-> IF Compared THEN "movement" ELSE "not compared",
     noDrivers |-> Drivers = {} /\ Ran("contribution_analysis") /\ Compared,
     note |-> PeriodNote]

\* explain: the generated text, unless a check refuses it.
Explained(figures, causal) ==
    IF Grounded(figures) /\ ~causal
    THEN [NoAnswer EXCEPT !.text = "generated", !.figures = figures, !.note = PeriodNote]
    ELSE Template

\* The status of an outcome with an answer.
\* Mutant: what a cap left out is only mentioned among the limitations.
StatusIgnoringCaps(text) ==
    IF \/ text.text = "template"
       \/ \E i \in DOMAIN steps : ~steps[i].ok \/ steps[i].denied
    THEN "partial" ELSE "completed"
StatusOf(text) ==
    IF \/ text.text = "template" \/ cut
       \/ \E i \in DOMAIN steps : ~steps[i].ok \/ steps[i].denied
    THEN "partial" ELSE "completed"

-----------------------------------------------------------------------------
(***************************************************************************)
(* The call, in the order of analyze.                                      *)
(***************************************************************************)

AnalystInit ==
    /\ defs \in Configured
    /\ edits = 0
    /\ stage = "idle"
    /\ question = NoQuestion
    /\ choices = [known |-> {}, active |-> NoKpi] /\ dims = {}
    /\ attempts = 0 /\ raw = FALSE
    /\ intent = NoIntent /\ context = NoContext /\ plan = <<>>
    /\ source = {} /\ left = "nothing" /\ anomaly = "unasked"
    /\ late = FALSE /\ steps = <<>> /\ cut = FALSE
    /\ answer = NoAnswer /\ outcome = "none"

End(how) == stage' = "ended" /\ outcome' = how

\* The gate: the dataset is ready and the investigation named is of this dataset.
Ask(q) ==
    /\ stage = "idle"
    /\ question' = q
    /\ IF \E p \in q.previous : p.dataset = "other"
       THEN End("refused") ELSE stage' = "choices" /\ UNCHANGED outcome
    /\ UNCHANGED <<defs, edits, choices, dims, attempts, raw, intent, context, plan,
                   working, answer>>

NotReady(q) ==
    /\ stage = "idle"
    /\ question' = q
    /\ End("refused")
    /\ UNCHANGED <<defs, edits, choices, dims, attempts, raw, intent, context, plan,
                   working, answer>>

ActiveKpis == {k \in Kpi : defs[k] = "active"}
Known == {k \in Kpi : defs[k] # "absent"}

\* _kpi_choices and _dimensions: two statements.
ReadChoices ==
    /\ stage = "choices"
    /\ choices' = [known |-> Known,
                   active |-> IF ActiveKpis = {} THEN NoKpi
                              ELSE CHOOSE k \in ActiveKpis : TRUE]
    /\ stage' = "dimensions"
    /\ UNCHANGED <<defs, edits, question, dims, attempts, raw, intent, context, plan,
                   working, result>>

ReadDimensions ==
    /\ stage = "dimensions"
    /\ dims' = UNION {DimsOf[k] : k \in Known}
    /\ stage' = "intent"
    /\ UNCHANGED <<defs, edits, question, choices, attempts, raw, intent, context, plan,
                   working, result>>

\* The model answers the first question, well or badly.
ReadIntent(kind, hints) ==
    /\ stage = "intent"
    /\ attempts < IntentAttempts
    /\ attempts' = attempts + 1
    /\ raw' = (hints.dimension = "asked")
    /\ intent' = Understood(kind, hints, question)
    /\ stage' = "resolve"
    /\ UNCHANGED <<defs, edits, question, choices, dims, context, plan, working, result>>

\* It fails: asked again, or the rules decide alone.
\* Mutant: after the last attempt the count starts over.
FailIntentForever ==
    /\ stage = "intent"
    /\ attempts' = (attempts + 1) % IntentAttempts
    /\ UNCHANGED <<defs, edits, stage, request, working, result>>
FailIntent ==
    /\ stage = "intent"
    /\ attempts < IntentAttempts
    /\ \E failure \in ProviderFailure : attempts' = attempts + 1
    /\ IF attempts' < IntentAttempts
       THEN UNCHANGED <<stage, raw, intent>>
       ELSE /\ raw' = question.dimension
            /\ intent' = Classify(question)
            /\ stage' = "resolve"
    /\ UNCHANGED <<defs, edits, question, choices, dims, context, plan, working, result>>

Blocked(c) == c.blocked # "no"

Resolve ==
    /\ stage = "resolve"
    /\ \E d \in IF intent.dimension THEN MatchDimension(question, dims) ELSE {NoDim} :
          context' = Resolved(intent, choices, d)
    /\ IF Blocked(context') THEN End("clarification") ELSE stage' = "plan" /\ UNCHANGED outcome
    /\ UNCHANGED <<defs, edits, question, choices, dims, attempts, raw, intent, plan,
                   working, answer>>

MakePlan ==
    /\ stage = "plan"
    /\ plan' = Capped(Wanted(intent.kind, context.segment))
    /\ stage' = "investigate"
    /\ UNCHANGED <<defs, edits, question, choices, dims, attempts, raw, intent, context,
                   working, result>>

UsesPrevious == question.previous # {} /\ intent.kind \in ReadsPrevious

ReadPrevious ==
    /\ stage = "investigate"
    /\ UsesPrevious
    /\ source' = question.previous
    /\ stage' = "anomaly"
    /\ UNCHANGED <<defs, edits, request, attempts, left, anomaly, late, steps, cut, result>>

\* investigation_service.create for the resolved definition, by its id: a run, new
\* or reused.
Analysed(inv) == inv.kpi = context.kpi
CreateRun(inv) ==
    /\ stage = "investigate"
    /\ ~UsesPrevious
    /\ context.kpi \in Known
    /\ inv.dataset = "this" /\ inv.analysed /\ Analysed(inv)
    /\ source' = {inv}
    /\ \E fresh \in BOOLEAN : left' = IF fresh THEN "run" ELSE "nothing"
    /\ stage' = "anomaly"
    /\ UNCHANGED <<defs, edits, request, attempts, anomaly, late, steps, cut, result>>

\* create raises: before its row is there (the definition is gone) or after it, as
\* a run that failed.
CreateFails ==
    /\ stage = "investigate"
    /\ ~UsesPrevious
    /\ IF context.kpi \in Known
       THEN left' = "failed run" /\ End("run failed")
       ELSE left' = "nothing" /\ End("refused")
    /\ UNCHANGED <<defs, edits, request, attempts, source, anomaly, late, steps, cut, answer>>

\* The anomaly report, where the plan has that step: of the definition as it is now.
DetectAnomaly ==
    /\ stage = "anomaly"
    /\ IF \E i \in DOMAIN plan : plan[i] = "detect_anomaly"
       THEN anomaly' \in {"none"} \cup (IF context.kpi \in Known THEN {"ran"} ELSE {})
       ELSE UNCHANGED anomaly
    /\ stage' = "execute"
    /\ UNCHANGED <<defs, edits, request, attempts, source, left, late, steps, cut, result>>

\* The executor.  A tool that raises is a result like any other; time passes.
RunStep ==
    /\ stage = "execute"
    /\ Len(steps) < Len(plan)
    /\ Len(steps) < MaxToolCalls /\ ~late
    /\ LET tool == plan[Len(steps) + 1]
       IN  \E ok \in BOOLEAN :
              steps' = Append(steps, [tool |-> tool, ok |-> ok, denied |-> ok /\ Denied(tool)])
    /\ late' \in BOOLEAN
    /\ UNCHANGED <<defs, edits, stage, request, attempts, source, left, anomaly, cut, result>>

\* The call cap is looked at first, the deadline only between two steps.
StopSteps ==
    /\ stage = "execute"
    /\ \/ Len(steps) = Len(plan) /\ UNCHANGED cut
       \/ Len(steps) < Len(plan) /\ (Len(steps) >= MaxToolCalls \/ late) /\ cut' = TRUE
    /\ stage' = "explain"
    /\ UNCHANGED <<defs, edits, request, attempts, source, left, anomaly, late, steps, result>>

\* The second question to the model: a text, or a failure and the template.
Explain(figures, causal) ==
    /\ stage = "explain"
    /\ attempts' = attempts + 1
    /\ answer' = Explained(figures, causal)
    /\ End(StatusOf(answer'))
    /\ UNCHANGED <<defs, edits, request, working>>

\* Mutant: only an empty answer is caught.
FailExplainUncaught ==
    /\ stage = "explain"
    /\ attempts' = attempts + 1
    /\ End("model failed")
    /\ UNCHANGED <<defs, edits, request, working, answer>>
FailExplain ==
    /\ stage = "explain"
    /\ \E failure \in ProviderFailure \cup {"nothing"} : attempts' = attempts + 1
    /\ answer' = Template
    /\ End(StatusOf(answer'))
    /\ UNCHANGED <<defs, edits, request, working>>

\* Other requests meanwhile: a definition replaces the active one, or is deleted.
\* It matters only before a stage that reads the definitions.
Meanwhile ==
    /\ stage \in {"choices", "dimensions", "investigate", "anomaly"}
    /\ edits < MaxEdits /\ edits' = edits + 1
    /\ UNCHANGED <<stage, request, attempts, working, result>>

ReplaceKpi(k) ==
    /\ Meanwhile
    /\ defs[k] = "absent"
    /\ defs' = [j \in Kpi |-> IF j = k THEN "active"
                              ELSE IF defs[j] = "active" THEN "superseded" ELSE defs[j]]

RemoveKpi(k) ==
    /\ Meanwhile
    /\ defs[k] # "absent"
    /\ defs' = [defs EXCEPT ![k] = "absent"]

AnalystStep ==
    \/ ReadChoices \/ ReadDimensions
    \/ \E kind \in IntentKind \cup {"unknown"}, hints \in Readings : ReadIntent(kind, hints)
    \/ FailIntent \/ Resolve \/ MakePlan
    \/ ReadPrevious \/ (\E inv \in Contents : CreateRun(inv)) \/ CreateFails
    \/ DetectAnomaly \/ RunStep \/ StopSteps
    \/ (\E figures \in SUBSET Figure, causal \in BOOLEAN : Explain(figures, causal))
    \/ FailExplain

AnalystNext ==
    \/ \E q \in Questions : Ask(q) \/ NotReady(q)
    \/ AnalystStep
    \/ \E k \in Kpi : ReplaceKpi(k) \/ RemoveKpi(k)

AnalystSpec == AnalystInit /\ [][AnalystNext]_analystVars
AnalystFairSpec == AnalystSpec /\ WF_analystVars(AnalystStep)

-----------------------------------------------------------------------------
(***************************************************************************)
(* What must hold.                                                         *)
(***************************************************************************)

Answered == outcome \in {"completed", "partial"}

\* An answer called completed rests on everything its question calls for: every
\* tool of the recipe ran, none had nothing to say about what was asked, no cap or
\* deadline stopped the plan and the model's own text passed the checks.
CompletedIsComplete ==
    outcome = "completed" =>
        /\ answer.text = "generated"
        /\ LET wanted == Wanted(intent.kind, context.segment)
           IN  /\ Len(steps) = Len(wanted)
               /\ \A i \in DOMAIN steps :
                     steps[i].tool = wanted[i] /\ steps[i].ok /\ ~Denied(wanted[i])

\* Whatever happens to the definitions meanwhile, an answer that is not read from
\* an earlier investigation is about the one definition the question names, or
\* says that it is about another, unless none was active to fall back to.
AnswersKpiAsked ==
    Answered /\ ~UsesPrevious /\ intent.kpi =>
        \/ MatchKpis(question, choices.known) = {InHand.kpi}
        \/ context.said /\ InHand.kpi = choices.active
        \/ context.origin = "carried_over" /\ choices.active = NoKpi

\* A question that did open an investigation gets its answer, model or no model.
RunIsAnswered ==
    stage = "ended" /\ left = "run" => Answered /\ answer.text # "none"

\* A dimension narrows the analysis only if the question has it and a definition
\* lists it, whatever the model made up.
OnlyAskedNarrows ==
    context.dimension # NoDim =>
        /\ raw
        /\ context.dimension \in dims /\ question.dimTier[context.dimension] # "none"

\* The template denies material drivers only where an analysis looked for them.
AbsenceWasChecked ==
    answer.noDrivers => InHand.analysed /\ InHand.compared /\ Ran("contribution_analysis")

\* A figure that is nowhere near a measured one, even read as a share, is never
\* published, whatever true figures surround it.
UnmeasuredDiscarded ==
    answer.text = "generated" =>
        \A f \in answer.figures :
            Checkable(f) => \E c \in Numbers :
                2 * Magnitude(f) >= Magnitude(c) \/ 200 * Magnitude(f) >= Magnitude(c)

\* A question that was let in ends: the model is asked a bounded number of times
\* and every call to it ends.
QuestionEnds == stage = "choices" ~> stage = "ended"

=============================================================================
