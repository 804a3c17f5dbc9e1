---------------------------- MODULE AnalystProofs ----------------------------
(***************************************************************************)
(* What AnalystPipeline promises of every question, proved for any number  *)
(* of definitions, questions, readings, investigations and figures, and    *)
(* any setting of the caps.                                                *)
(***************************************************************************)
EXTENDS AnalystPipeline, FiniteSetTheorems, TLAPS

Early == {"idle", "choices", "dimensions", "intent", "resolve"}
Late == {"investigate", "anomaly", "execute", "explain"}
InTools == {"anomaly", "execute", "explain"}

\* The model is asked at most IntentAttempts times before the text is asked for.
Asking ==
    /\ stage \in {"idle", "choices", "dimensions"} => attempts = 0
    /\ stage = "intent" => attempts < IntentAttempts
    /\ stage # "ended" => attempts <= IntentAttempts

\* Who is asked, and that there is nothing to show before the end.
Open ==
    /\ stage # "idle" => question \in Questions
    /\ stage # "ended" => outcome = "none"
    /\ answer = NoAnswer \/ Answered
    /\ Answered => answer.text # "none"

\* The dimension is the question's own.
Narrowed ==
    /\ intent.dimension => raw
    /\ stage \in Early => context.dimension = NoDim
    /\ OnlyAskedNarrows

\* The definition is the one the question names, or the context says otherwise.
ContextAsked ==
    stage = "plan" \/ stage \in Late \/ Answered =>
        (intent.kpi =>
            \/ MatchKpis(question, choices.known) = {context.kpi}
            \/ context.said /\ context.kpi = choices.active
            \/ context.origin = "carried_over" /\ choices.active = NoKpi)

\* There is an investigation, and it is of that definition unless the client named it.
SourceInHand ==
    stage \in InTools \/ Answered =>
        source # {} /\ (~UsesPrevious => InHand.kpi = context.kpi)

\* A row this call has added is on its way to an answer.
RunUnderWay == left = "run" => stage \in InTools \/ Answered

\* The steps are the first ones of the plan, each with what its tool has said.
Stepped ==
    /\ stage \in Late \/ Answered => plan = Capped(Wanted(intent.kind, context.segment))
    /\ stage \in Early \cup {"plan", "investigate", "anomaly"} => steps = <<>>
    /\ Len(steps) <= Len(plan)
    /\ \A i \in 1..Len(steps) :
          /\ steps[i].tool = plan[i]
          /\ steps[i].ok => (steps[i].denied <=> Denied(plan[i]))
    /\ stage = "explain" \/ Answered => cut \/ Len(steps) = Len(plan)

\* What an outcome with an answer was computed from.
Concluded ==
    /\ outcome = "completed" =>
          /\ answer.text = "generated" /\ ~cut
          /\ \A i \in 1..Len(steps) : steps[i].ok /\ ~steps[i].denied
    /\ answer.text = "generated" => Grounded(answer.figures)
    /\ AbsenceWasChecked

AInv ==
    /\ AnalystTypeOK
    /\ Asking
    /\ Open
    /\ Narrowed
    /\ ContextAsked
    /\ SourceInHand
    /\ RunUnderWay
    /\ Stepped
    /\ Concluded

-----------------------------------------------------------------------------
(***************************************************************************)
(* What the operators of the pipeline return.                              *)
(***************************************************************************)

LEMMA RecipeTools == ASSUME NEW kind \in IntentKind PROVE Recipe[kind] \in Seq(Tool)
<1>1. CASE kind = "KPI_ANALYSIS"
  BY <1>1 DEF Recipe, Tool
<1>2. CASE kind = "ROOT_CAUSE_ANALYSIS"
  BY <1>2 DEF Recipe, Tool
<1>3. CASE kind = "ANOMALY_ANALYSIS"
  BY <1>3 DEF Recipe, Tool
<1>4. CASE kind = "DIMENSION_ANALYSIS"
  BY <1>4 DEF Recipe, Tool
<1>5. CASE kind = "CONTRIBUTION_ANALYSIS"
  BY <1>5 DEF Recipe, Tool
<1>6. CASE kind = "DRILL_DOWN"
  BY <1>6 DEF Recipe, Tool
<1>7. CASE kind = "INVESTIGATION_SUMMARY"
  BY <1>7 DEF Recipe, Tool
<1>8. CASE kind = "FOLLOW_UP_ANALYSIS"
  BY <1>8 DEF Recipe, Tool
<1> QED
  BY <1>1, <1>2, <1>3, <1>4, <1>5, <1>6, <1>7, <1>8 DEF IntentKind

LEMMA WantedTools ==
    ASSUME NEW kind \in IntentKind, NEW segment \in BOOLEAN
    PROVE  /\ Wanted(kind, segment) \in Seq(Tool)
           /\ Len(Wanted(kind, segment)) <= Len(Recipe[kind])
<1> DEFINE recipe == Recipe[kind]
           drill == CHOOSE i \in DOMAIN recipe : recipe[i] = "drill_down"
<1>1. recipe \in Seq(Tool)
  BY RecipeTools
<1>2. CASE kind = "FOLLOW_UP_ANALYSIS" /\ ~segment
  <2>1. Len(recipe) = 5 /\ recipe[4] = "drill_down" /\ 4 \in DOMAIN recipe
    BY <1>2 DEF Recipe
  <2>2. drill \in DOMAIN recipe
    BY <2>1
  <2> HIDE DEF recipe
  <2>3. drill \in 1..Len(recipe)
    BY <1>1, <2>2
  <2> HIDE DEF drill
  <2> DEFINE before == SubSeq(recipe, 1, drill - 1)
             after == SubSeq(recipe, drill + 1, Len(recipe))
  <2>4. before \in Seq(Tool) /\ Len(before) = drill - 1
    BY <1>1, <2>3
  <2>5. after \in Seq(Tool) /\ Len(after) = Len(recipe) - drill
    BY <1>1, <2>3
  <2> HIDE DEF before, after
  <2>6. before \o after \in Seq(Tool) /\ Len(before \o after) = Len(before) + Len(after)
    BY <2>4, <2>5
  <2>8. Len(before) + Len(after) <= Len(recipe)
    BY <1>1, <2>3, <2>4, <2>5
  <2>7. Wanted(kind, segment) = before \o after
    BY <1>2 DEF Wanted, recipe, drill, before, after
  <2> QED
    BY <2>6, <2>7, <2>8 DEF recipe
<1>3. CASE ~(kind = "FOLLOW_UP_ANALYSIS" /\ ~segment)
  BY <1>1, <1>3 DEF Wanted
<1> QED
  BY <1>2, <1>3

LEMMA CappedTools ==
    ASSUME NEW calls \in Seq(Tool)
    PROVE  /\ Capped(calls) \in Seq(Tool)
           /\ Len(calls) <= MaxPlanSteps => Capped(calls) = calls
  BY AnalystAssumption DEF AnalystAssumption, Capped

LEMMA LastMonth == "last month" \in PeriodToken
  BY DEF PeriodToken

LEMMA ClassifyType ==
    ASSUME NEW q \in Question
    PROVE  Classify(q) \in Intent /\ (Classify(q).dimension => q.dimension)
  BY DEF Question, Classify, Intent, IntentKind

LEMMA UnderstoodType ==
    ASSUME NEW q \in Question, NEW hints \in RawHints, NEW kind
    PROVE  /\ Understood(kind, hints, q) \in Intent
           /\ Understood(kind, hints, q).dimension <=> hints.dimension = "asked"
<1>1. Classify(q) \in Intent
  BY ClassifyType
<1> QED
  BY <1>1, LastMonth DEF Understood, Clean, Intent

LEMMA MatchKpisKnown ==
    ASSUME NEW q, NEW known PROVE MatchKpis(q, known) \subseteq known
  BY DEF MatchKpis

LEMMA MatchDimensionAsked ==
    ASSUME NEW q, NEW names, NEW d \in MatchDimension(q, names), d # NoDim
    PROVE  d \in names /\ q.dimTier[d] # "none"
  BY DEF MatchDimension

LEMMA CarriedKpiType ==
    ASSUME NEW q \in Question PROVE CarriedKpi(q) \subseteq Kpi
  BY AnalystAssumption DEF AnalystAssumption, CarriedKpi, Question, Investigation

LEMMA ResolvedType ==
    ASSUME question \in Question, NEW in \in Intent, NEW read \in KpiChoices,
           NEW d \in Dim \cup {NoDim}
    PROVE  /\ Resolved(in, read, d) \in ResolvedContext
           /\ Resolved(in, read, d).dimension \in {d, NoDim}
           /\ ~Blocked(Resolved(in, read, d)) /\ in.kpi =>
                \/ MatchKpis(question, read.known) = {Resolved(in, read, d).kpi}
                \/ Resolved(in, read, d).said /\ Resolved(in, read, d).kpi = read.active
                \/ Resolved(in, read, d).origin = "carried_over" /\ read.active = NoKpi
<1> DEFINE matched == IF in.kpi THEN MatchKpis(question, read.known) ELSE {}
           carried == CarriedKpi(question) \cap read.known
           fallback == Fallback(in, matched, read)
           chosen == IF matched # {} THEN matched
                     ELSE IF fallback THEN {read.active}
                     ELSE IF carried # {} THEN carried
                     ELSE {read.active} \ {NoKpi}
           blocked == IF read.known = {} THEN "NO_KPI_CONFIGURED"
                      ELSE IF Cardinality(matched) > 1 THEN "AMBIGUOUS_KPI"
                      ELSE IF chosen = {} THEN "NO_ACTIVE_KPI"
                      ELSE "no"
           k == CHOOSE j \in chosen : TRUE
           from == IF matched # {} THEN "question"
                   ELSE IF ~fallback /\ carried # {} THEN "carried_over"
                   ELSE "active_default"
           open == [kpi |-> k, origin |-> from, dimension |-> d, segment |-> in.segment,
                    period |-> in.period, said |-> fallback, blocked |-> "no"]
           shut == [NoContext EXCEPT !.blocked = blocked]
<1>1. Resolved(in, read, d) = IF blocked # "no" THEN shut ELSE open
  BY DEF Resolved
<1>2. /\ read.known \subseteq Kpi /\ read.active \in Kpi \cup {NoKpi}
      /\ in.kpi \in BOOLEAN /\ in.segment \in BOOLEAN /\ in.period \in SUBSET PeriodToken
  BY DEF KpiChoices, Intent
<1>3. matched \subseteq Kpi /\ carried \subseteq Kpi
  BY <1>2, MatchKpisKnown
<1>4. fallback \in BOOLEAN /\ (fallback <=> in.kpi /\ matched = {} /\ read.active # NoKpi)
  BY <1>2 DEF Fallback
<1>5. blocked \in {"no", "NO_KPI_CONFIGURED", "AMBIGUOUS_KPI", "NO_ACTIVE_KPI"}
  OBVIOUS
<1>6. blocked = "no" => k \in chosen /\ ~(Cardinality(matched) > 1)
  OBVIOUS
<1>7. chosen \subseteq Kpi \cup {NoKpi}
  BY <1>2, <1>3
<1>8. from \in {"question", "active_default", "carried_over"}
  OBVIOUS
<1>9. ASSUME blocked = "no", matched # {} PROVE matched = {k}
  <2>1. IsFiniteSet(matched) /\ Cardinality(matched) \in Nat
    BY <1>3, AnalystAssumption, FS_Subset, FS_CardinalityType DEF AnalystAssumption
  <2>2. Cardinality(matched) # 0
    BY <1>9, <2>1, FS_EmptySet
  <2>3. Cardinality(matched) = 1
    BY <1>6, <1>9, <2>1, <2>2
  <2>4. PICK j : matched = {j}
    BY <2>1, <2>3, FS_Singleton
  <2> QED
    BY <1>6, <1>9, <2>4
<1>10. ASSUME blocked = "no", matched = {}, in.kpi
       PROVE  \/ fallback /\ k = read.active
              \/ from = "carried_over" /\ read.active = NoKpi
  <2>1. k \in chosen
    BY <1>6, <1>10
  <2>2. CASE read.active # NoKpi
    <3>1. fallback
      BY <1>4, <1>10, <2>2
    <3>2. chosen = {read.active}
      BY <3>1, <1>10
    <3> QED
      BY <2>1, <3>1, <3>2
  <2>3. CASE read.active = NoKpi
    <3>1. ~fallback
      BY <1>4, <2>3
    <3>2. carried # {}
      BY <2>1, <2>3, <3>1, <1>10
    <3> QED
      BY <2>3, <3>1, <3>2, <1>10
  <2> QED
    BY <2>2, <2>3
<1>11. in.kpi => matched = MatchKpis(question, read.known)
  OBVIOUS
<1> HIDE DEF matched, carried, fallback, chosen, blocked, k, from
<1>12. CASE blocked = "no"
  <2>1. Resolved(in, read, d) = open
    BY <1>1, <1>12
  <2>2. k \in Kpi \cup {NoKpi}
    BY <1>6, <1>7, <1>12
  <2>3. open \in ResolvedContext
    BY <1>2, <1>4, <1>8, <2>2 DEF ResolvedContext
  <2>4. /\ open.kpi = k /\ open.said = fallback /\ open.origin = from
        /\ open.dimension = d
    OBVIOUS
  <2> HIDE DEF open
  <2>5. in.kpi => \/ MatchKpis(question, read.known) = {k}
                  \/ fallback /\ k = read.active
                  \/ from = "carried_over" /\ read.active = NoKpi
    BY <1>9, <1>10, <1>11, <1>12
  <2> QED
    BY <2>1, <2>3, <2>4, <2>5
<1>13. CASE blocked # "no"
  <2>1. Resolved(in, read, d) = shut
    BY <1>1, <1>13
  <2>2. shut \in ResolvedContext /\ shut.dimension = NoDim /\ shut.blocked # "no"
    BY <1>5, <1>13 DEF ResolvedContext, NoContext
  <2> QED
    BY <2>1, <2>2 DEF Blocked
<1> QED
  BY <1>12, <1>13

LEMMA InHandType ==
    ASSUME source \in SUBSET Contents, source # {}
    PROVE  InHand \in source /\ InHand \in Investigation
  BY AnalystAssumption DEF AnalystAssumption, InHand

\* The bundle holds figures of the investigation and of the anomaly report only.
LEMMA NumbersType ==
    ASSUME source \in SUBSET Contents, source # {}
    PROVE  Numbers \in SUBSET Figure
<1>1. InHand \in Investigation
  BY InHandType
<1>2. /\ InHand.kpiFigures \in SUBSET Figure /\ InHand.driverFigures \in SUBSET Figure
      /\ InHand.rows \in SUBSET Figure
  BY <1>1 DEF Investigation
<1> QED
  BY <1>2, AnalystAssumption DEF AnalystAssumption, Numbers, Drivers

\* The template's figures are those of the bundle, and it denies drivers only where
\* an analysis looked for them.
LEMMA TemplateType ==
    ASSUME source \in SUBSET Contents, source # {}
    PROVE  /\ Template \in Answer /\ Template.text = "template"
           /\ Template.noDrivers =>
                InHand.analysed /\ InHand.compared /\ Ran("contribution_analysis")
<1>1. InHand \in Contents /\ InHand \in Investigation
  BY InHandType
<1>2. InHand.compared => InHand.analysed
  BY <1>1, AnalystAssumption DEF AnalystAssumption
<1>3. InHand.compared \in BOOLEAN
  BY <1>1 DEF Investigation
<1>4. Numbers \in SUBSET Figure
  BY NumbersType
<1>5. Compared \in BOOLEAN /\ (Compared => InHand.compared) /\ PeriodNote \in BOOLEAN
  BY <1>3 DEF Compared, Ran, PeriodNote
<1>6. Ran("contribution_analysis") \in BOOLEAN
  BY DEF Ran
<1> HIDE DEF Ran, Compared, PeriodNote
<1>7. Template \in Answer /\ Template.text = "template"
  BY <1>4, <1>5, <1>6 DEF Template, Answer
<1>8. Template.noDrivers => Ran("contribution_analysis") /\ Compared
  BY DEF Template
<1> QED
  BY <1>2, <1>5, <1>7, <1>8

\* The text published is the model's, and then every figure to look up is measured,
\* or it is the template.
LEMMA ExplainedType ==
    ASSUME source \in SUBSET Contents, source # {},
           NEW figures \in SUBSET Figure, NEW causal \in BOOLEAN
    PROVE  /\ Explained(figures, causal) \in Answer
           /\ Explained(figures, causal).text \in {"generated", "template"}
           /\ Explained(figures, causal).text = "generated" =>
                Grounded(Explained(figures, causal).figures)
           /\ Explained(figures, causal).noDrivers =>
                InHand.analysed /\ InHand.compared /\ Ran("contribution_analysis")
<1> DEFINE generated ==
             [NoAnswer EXCEPT !.text = "generated", !.figures = figures, !.note = PeriodNote]
<1>1. PeriodNote \in BOOLEAN
  BY DEF PeriodNote
<1>2. /\ generated \in Answer /\ generated.text = "generated"
      /\ generated.figures = figures /\ generated.noDrivers = FALSE
  BY <1>1 DEF NoAnswer, Answer
<1>3. Explained(figures, causal) =
        IF Grounded(figures) /\ ~causal THEN generated ELSE Template
  BY DEF Explained
<1> HIDE DEF generated
<1>4. CASE Grounded(figures) /\ ~causal
  BY <1>2, <1>3, <1>4
<1>5. CASE ~(Grounded(figures) /\ ~causal)
  BY <1>3, <1>5, TemplateType
<1> QED
  BY <1>4, <1>5

-----------------------------------------------------------------------------
(***************************************************************************)
(* Every variable keeps its type.                                          *)
(***************************************************************************)

\* At every stage but the first the question is one that clients ask.
LEMMA QuestionIsAsked ==
    ASSUME Open, stage # "idle" PROVE question \in Question
  BY AnalystAssumption DEF AnalystAssumption, Open

\* The status of an outcome with an answer.
LEMMA StatusType ==
    ASSUME NEW text PROVE StatusOf(text) \in {"completed", "partial"}
  BY DEF StatusOf

\* What is left of the types when only the definitions move.
CallTypes ==
    /\ question \in Questions \cup {NoQuestion} /\ choices \in KpiChoices /\ dims \in SUBSET Dim
    /\ raw \in BOOLEAN /\ intent \in Intent /\ context \in ResolvedContext
    /\ plan \in Seq(Tool)
    /\ source \in SUBSET Contents /\ left \in {"nothing", "run", "failed run"}
    /\ anomaly \in {"unasked", "none", "ran"} /\ late \in BOOLEAN /\ cut \in BOOLEAN
    /\ steps \in Seq(ToolResult)
    /\ answer \in Answer
    /\ outcome \in {"none", "completed", "partial", "clarification",
                    "refused", "run failed", "model failed"}
LEMMA CallTypesFrame ==
    ASSUME AnalystTypeOK, UNCHANGED <<request, working, result>> PROVE CallTypes'
<1>1. CallTypes
  BY DEF AnalystTypeOK, CallTypes
<1> QED
  BY <1>1 DEF CallTypes, request, working, result

LEMMA TypeStep ==
    ASSUME AInv, [AnalystNext]_analystVars PROVE AnalystTypeOK'
<1> DEFINE R == IF IntentRetries > 0 THEN IntentRetries ELSE 0
<1> USE DEF request, working, result, End
<1>1. AnalystTypeOK /\ Open /\ R \in Nat /\ attempts \in Nat
  <2>1. IntentRetries \in Int
    BY AnalystAssumption DEF AnalystAssumption
  <2>2. AnalystTypeOK /\ Open
    BY DEF AInv
  <2>3. attempts \in 0..(2 + R)
    BY <2>2 DEF AnalystTypeOK
  <2> QED
    BY <2>1, <2>2, <2>3
<1>2. stage # "idle" => question \in Question
  BY <1>1, QuestionIsAsked
<1>3. /\ intent \in Intent /\ context \in ResolvedContext /\ choices \in KpiChoices
      /\ answer \in Answer
  BY <1>1 DEF AnalystTypeOK, Intent, ResolvedContext, KpiChoices
<1>4. /\ stage # "ended" => attempts <= 1 + R
      /\ stage = "intent" => attempts < 1 + R
  BY DEF AInv, Asking, IntentAttempts
<1>5. ASSUME NEW q \in Questions, Ask(q) \/ NotReady(q) PROVE AnalystTypeOK'
  BY ZenonT(40), <1>1, <1>5 DEF AnalystTypeOK, Ask, NotReady
<1>6. CASE ReadChoices
  <2>1. choices' \in KpiChoices
    BY <1>6 DEF ReadChoices, KpiChoices, Known, ActiveKpis
  <2> QED
    BY ZenonT(40), <1>1, <1>6, <2>1 DEF AnalystTypeOK, ReadChoices
<1>7. CASE ReadDimensions
  <2>1. dims' \in SUBSET Dim
    BY <1>7, AnalystAssumption DEF AnalystAssumption, ReadDimensions, Known
  <2> QED
    BY ZenonT(40), <1>1, <1>7, <2>1 DEF AnalystTypeOK, ReadDimensions
<1>8. ASSUME NEW kind, NEW hints \in Readings, ReadIntent(kind, hints) PROVE AnalystTypeOK'
  <2>1. hints \in RawHints /\ question \in Question
    BY <1>2, <1>8, AnalystAssumption DEF AnalystAssumption, ReadIntent
  <2>2. intent' \in Intent
    BY <1>8, <2>1, UnderstoodType DEF ReadIntent
  <2>3. raw' \in BOOLEAN /\ stage' = "resolve" /\ attempts' = attempts + 1
    BY <1>8 DEF ReadIntent
  <2>4. attempts' \in 0..(2 + R)
    BY <1>1, <1>4, <1>8, <2>3 DEF ReadIntent
  <2> QED
    BY <1>1, <1>8, <2>2, <2>3, <2>4 DEF AnalystTypeOK, ReadIntent
<1>9. CASE FailIntent
  <2>1. intent' \in Intent /\ raw' \in BOOLEAN
    BY ZenonT(40), <1>1, <1>2, <1>3, <1>9, ClassifyType DEF FailIntent, AnalystTypeOK, Question
  <2>2. attempts' = attempts + 1 /\ stage' \in {"intent", "resolve"}
    BY <1>9 DEF FailIntent
  <2>3. attempts' \in 0..(2 + R)
    BY <1>1, <1>4, <1>9, <2>2 DEF FailIntent
  <2> QED
    BY ZenonT(40), <1>1, <1>9, <2>1, <2>2, <2>3 DEF AnalystTypeOK, FailIntent
<1>10. CASE Resolve
  <2>1. PICK d \in IF intent.dimension THEN MatchDimension(question, dims) ELSE {NoDim} :
          context' = Resolved(intent, choices, d)
    BY <1>10 DEF Resolve
  <2>2. d \in Dim \cup {NoDim}
    BY <1>1, <2>1, MatchDimensionAsked DEF AnalystTypeOK
  <2>3. context' \in ResolvedContext
    BY <1>2, <1>3, <1>10, <2>1, <2>2, ResolvedType DEF Resolve
  <2>4. stage' \in {"plan", "ended"} /\ outcome' \in {outcome, "clarification"}
    BY <1>10 DEF Resolve
  <2> QED
    BY ZenonT(40), <1>1, <1>10, <2>3, <2>4 DEF AnalystTypeOK, Resolve
<1>11. CASE MakePlan
  <2>1. plan' \in Seq(Tool)
    BY <1>3, <1>11, WantedTools, CappedTools DEF MakePlan, Intent, ResolvedContext
  <2> QED
    BY ZenonT(40), <1>1, <1>11, <2>1 DEF AnalystTypeOK, MakePlan
<1>12. CASE ReadPrevious
  <2>1. source' \in SUBSET Contents
    BY <1>2, <1>12 DEF ReadPrevious, Question
  <2> QED
    BY ZenonT(40), <1>1, <1>12, <2>1 DEF AnalystTypeOK, ReadPrevious
<1>13. ASSUME NEW inv \in Contents, CreateRun(inv) PROVE AnalystTypeOK'
  BY <1>1, <1>13 DEF AnalystTypeOK, CreateRun
<1>14. CASE CreateFails
  BY <1>1, <1>14 DEF AnalystTypeOK, CreateFails
<1>15. CASE DetectAnomaly
  <2>1. anomaly' \in {"unasked", "none", "ran"}
    BY <1>1, <1>15 DEF AnalystTypeOK, DetectAnomaly
  <2> QED
    BY <1>1, <1>15, <2>1 DEF AnalystTypeOK, DetectAnomaly
<1>16. CASE RunStep
  <2> DEFINE tool == plan[Len(steps) + 1]
  <2>1. PICK ok \in BOOLEAN :
          steps' = Append(steps, [tool |-> tool, ok |-> ok, denied |-> ok /\ Denied(tool)])
    BY <1>16 DEF RunStep
  <2>2. steps \in Seq(ToolResult) /\ plan \in Seq(Tool)
    BY <1>1 DEF AnalystTypeOK
  <2>3. Len(steps) < Len(plan)
    BY <1>16 DEF RunStep
  <2>4. tool \in Tool
    BY <2>2, <2>3
  <2>5. (ok /\ Denied(tool)) \in BOOLEAN
    OBVIOUS
  <2> HIDE DEF tool
  <2>6. [tool |-> tool, ok |-> ok, denied |-> ok /\ Denied(tool)] \in ToolResult
    BY <2>4, <2>5 DEF ToolResult
  <2>7. steps' \in Seq(ToolResult)
    BY <2>1, <2>2, <2>6
  <2>8. late' \in BOOLEAN
    BY <1>16 DEF RunStep
  <2> QED
    BY <1>1, <1>16, <2>7, <2>8 DEF AnalystTypeOK, RunStep
<1>17. CASE StopSteps
  BY ZenonT(40), <1>1, <1>17 DEF AnalystTypeOK, StopSteps
<1>18. ASSUME NEW figures \in SUBSET Figure, NEW causal \in BOOLEAN, Explain(figures, causal)
       PROVE  AnalystTypeOK'
  <2>1. answer' \in Answer
    BY <1>1, <1>18, ExplainedType DEF AnalystTypeOK, AInv, SourceInHand, InTools, Explain
  <2>2. outcome' \in {"completed", "partial"} /\ stage' = "ended"
    BY <1>18, StatusType DEF Explain
  <2>3. attempts' \in 0..(2 + R)
    BY <1>1, <1>4, <1>18 DEF Explain
  <2> QED
    BY <1>1, <1>18, <2>1, <2>2, <2>3 DEF AnalystTypeOK, Explain
<1>19. CASE FailExplain
  <2>1. answer' \in Answer
    BY <1>1, <1>19, TemplateType DEF AnalystTypeOK, AInv, SourceInHand, InTools, FailExplain
  <2>2. outcome' \in {"completed", "partial"} /\ stage' = "ended"
    BY <1>19, StatusType DEF FailExplain
  <2>3. attempts' \in 0..(2 + R)
    BY <1>1, <1>4, <1>19 DEF FailExplain
  <2> QED
    BY <1>1, <1>19, <2>1, <2>2, <2>3 DEF AnalystTypeOK, FailExplain
<1>20. ASSUME NEW k \in Kpi, ReplaceKpi(k) \/ RemoveKpi(k) PROVE AnalystTypeOK'
  <2>1. Meanwhile
    BY <1>20 DEF ReplaceKpi, RemoveKpi
  <2>2. defs' \in [Kpi -> {"absent", "active", "superseded"}]
    BY <1>1, <1>20 DEF AnalystTypeOK, ReplaceKpi, RemoveKpi
  <2>3. MaxEdits \in Nat /\ edits \in 0..MaxEdits
    BY <1>1, AnalystAssumption DEF AnalystAssumption, AnalystTypeOK
  <2>4. edits' \in 0..MaxEdits
    BY <2>1, <2>3 DEF Meanwhile
  <2>5. UNCHANGED <<stage, request, attempts, working, result>>
    BY <2>1 DEF Meanwhile
  <2>6. (stage \in {"idle", "choices", "dimensions", "intent", "resolve", "plan",
                    "investigate", "anomaly", "execute", "explain", "ended"}
         /\ attempts \in 0..(2 + R))'
    BY <1>1, <2>5 DEF AnalystTypeOK
  <2>7. CallTypes'
    BY <1>1, <2>5, CallTypesFrame
  <2> QED
    BY <2>2, <2>4, <2>6, <2>7 DEF AnalystTypeOK, CallTypes
<1>21. CASE UNCHANGED analystVars
  <2>1. (/\ defs \in [Kpi -> {"absent", "active", "superseded"}]
         /\ edits \in 0..MaxEdits
         /\ stage \in {"idle", "choices", "dimensions", "intent", "resolve", "plan",
                       "investigate", "anomaly", "execute", "explain", "ended"}
         /\ attempts \in 0..(2 + R))'
    BY <1>1, <1>21 DEF AnalystTypeOK, analystVars
  <2>2. CallTypes'
    BY <1>1, <1>21, CallTypesFrame DEF analystVars
  <2> QED
    BY <2>1, <2>2 DEF AnalystTypeOK, CallTypes
<1> QED
  BY <1>5, <1>6, <1>7, <1>8, <1>9, <1>10, <1>11, <1>12, <1>13, <1>14, <1>15, <1>16, <1>17,
     <1>18, <1>19, <1>20, <1>21 DEF AnalystNext, AnalystStep

-----------------------------------------------------------------------------
(***************************************************************************)
(* How often the model is asked, and when there is something to show.      *)
(***************************************************************************)

LEMMA AskingStep ==
    ASSUME AInv, [AnalystNext]_analystVars PROVE Asking'
<1> USE DEF request, working, result, End
<1>1. Asking /\ attempts \in Int /\ IntentAttempts \in Nat \ {0}
  <2>1. IntentRetries \in Int /\ attempts \in 0..(2 + (IF IntentRetries > 0 THEN IntentRetries ELSE 0))
    BY AnalystAssumption DEF AnalystAssumption, AInv, AnalystTypeOK
  <2> QED
    BY <2>1 DEF AInv, IntentAttempts
<1>2. ASSUME NEW q \in Questions, Ask(q) \/ NotReady(q) PROVE Asking'
  BY <1>1, <1>2 DEF Asking, Ask, NotReady
<1>3. CASE ReadChoices \/ ReadDimensions
  BY <1>1, <1>3 DEF Asking, ReadChoices, ReadDimensions
<1>4. ASSUME NEW kind, NEW hints, ReadIntent(kind, hints) PROVE Asking'
  BY <1>1, <1>4 DEF Asking, ReadIntent
<1>5. CASE FailIntent
  <2>1. attempts' = attempts + 1 /\ stage' \in {"intent", "resolve"}
        /\ (stage' = "intent" => attempts' < IntentAttempts)
    BY <1>5 DEF FailIntent
  <2> QED
    BY <1>1, <1>5, <2>1 DEF Asking, FailIntent
<1>6. CASE Resolve \/ MakePlan
  BY <1>1, <1>6 DEF Asking, Resolve, MakePlan
<1>7. CASE ReadPrevious \/ (\E inv \in Contents : CreateRun(inv)) \/ CreateFails
  BY <1>1, <1>7 DEF Asking, ReadPrevious, CreateRun, CreateFails
<1>8. CASE DetectAnomaly \/ RunStep \/ StopSteps
  BY <1>1, <1>8 DEF Asking, DetectAnomaly, RunStep, StopSteps
<1>9. CASE (\E figures \in SUBSET Figure, causal \in BOOLEAN : Explain(figures, causal))
           \/ FailExplain
  BY <1>9 DEF Asking, Explain, FailExplain
<1>10. CASE \E k \in Kpi : ReplaceKpi(k) \/ RemoveKpi(k)
  BY <1>1, <1>10 DEF Asking, ReplaceKpi, RemoveKpi, Meanwhile
<1>11. CASE UNCHANGED analystVars
  BY <1>1, <1>11 DEF Asking, analystVars
<1> QED
  BY <1>2, <1>3, <1>4, <1>5, <1>6, <1>7, <1>8, <1>9, <1>10, <1>11 DEF AnalystNext, AnalystStep

LEMMA OpenStep ==
    ASSUME AInv, [AnalystNext]_analystVars PROVE Open'
<1> USE DEF request, working, result, End, Answered
<1>1. Open
  BY DEF AInv
<1>2. ASSUME NEW q \in Questions, Ask(q) \/ NotReady(q) PROVE Open'
  BY <1>1, <1>2 DEF Open, Ask, NotReady
<1>3. CASE ReadChoices \/ ReadDimensions
  BY <1>1, <1>3 DEF Open, ReadChoices, ReadDimensions
<1>4. ASSUME NEW kind, NEW hints, ReadIntent(kind, hints) PROVE Open'
  BY <1>1, <1>4 DEF Open, ReadIntent
<1>5. CASE FailIntent
  <2>1. stage' \in {"intent", "resolve"}
    BY <1>5 DEF FailIntent
  <2> QED
    BY <1>1, <1>5, <2>1 DEF Open, FailIntent
<1>6. CASE Resolve
  <2>1. (stage' = "ended" /\ outcome' = "clarification") \/ (stage' = "plan" /\ outcome' = outcome)
    BY <1>6 DEF Resolve
  <2>2. stage = "resolve" /\ UNCHANGED <<question, answer>>
    BY <1>6 DEF Resolve
  <2> QED
    BY <1>1, <2>1, <2>2 DEF Open
<1>7. CASE MakePlan \/ ReadPrevious \/ (\E inv \in Contents : CreateRun(inv)) \/ CreateFails
  BY <1>1, <1>7 DEF Open, MakePlan, ReadPrevious, CreateRun, CreateFails
<1>8. CASE DetectAnomaly \/ RunStep \/ StopSteps
  BY <1>1, <1>8 DEF Open, DetectAnomaly, RunStep, StopSteps
<1>9. ASSUME NEW figures \in SUBSET Figure, NEW causal \in BOOLEAN, Explain(figures, causal)
      PROVE  Open'
  <2>1. source \in SUBSET Contents /\ source # {}
    BY <1>9 DEF AInv, AnalystTypeOK, SourceInHand, InTools, Explain
  <2>2. answer'.text \in {"generated", "template"}
    BY <1>9, <2>1, ExplainedType DEF Explain
  <2> QED
    BY <1>1, <1>9, <2>2, StatusType DEF Open, Explain
<1>10. CASE FailExplain
  <2>1. source \in SUBSET Contents /\ source # {}
    BY <1>10 DEF AInv, AnalystTypeOK, SourceInHand, InTools, FailExplain
  <2>2. answer'.text = "template"
    BY <1>10, <2>1, TemplateType DEF FailExplain
  <2> QED
    BY <1>1, <1>10, <2>2, StatusType DEF Open, FailExplain
<1>11. CASE \E k \in Kpi : ReplaceKpi(k) \/ RemoveKpi(k)
  BY <1>1, <1>11 DEF Open, ReplaceKpi, RemoveKpi, Meanwhile
<1>12. CASE UNCHANGED analystVars
  BY <1>1, <1>12 DEF Open, analystVars
<1> QED
  BY <1>2, <1>3, <1>4, <1>5, <1>6, <1>7, <1>8, <1>9, <1>10, <1>11, <1>12
     DEF AnalystNext, AnalystStep

-----------------------------------------------------------------------------
(***************************************************************************)
(* What the question means.                                                *)
(***************************************************************************)

LEMMA NarrowedStep ==
    ASSUME AInv, [AnalystNext]_analystVars PROVE Narrowed'
<1> USE DEF request, working, result, End
<1>1. Narrowed /\ Open
  BY DEF AInv
<1>2. /\ stage # "idle" => question \in Question
      /\ intent \in Intent /\ context \in ResolvedContext /\ choices \in KpiChoices
      /\ dims \in SUBSET Dim
  BY QuestionIsAsked DEF AInv, AnalystTypeOK
<1>3. ASSUME NEW q \in Questions, Ask(q) \/ NotReady(q) PROVE Narrowed'
  BY <1>1, <1>3 DEF Narrowed, OnlyAskedNarrows, Early, Ask, NotReady
<1>4. CASE ReadChoices \/ ReadDimensions
  BY <1>1, <1>4 DEF Narrowed, OnlyAskedNarrows, Early, ReadChoices, ReadDimensions
<1>5. ASSUME NEW kind, NEW hints \in Readings, ReadIntent(kind, hints) PROVE Narrowed'
  <2>1. hints \in RawHints /\ question \in Question
    BY <1>2, <1>5, AnalystAssumption DEF AnalystAssumption, ReadIntent
  <2>2. intent'.dimension => raw'
    BY <1>5, <2>1, UnderstoodType DEF ReadIntent
  <2>3. context.dimension = NoDim /\ UNCHANGED context /\ stage' = "resolve"
    BY <1>1, <1>5 DEF Narrowed, Early, ReadIntent
  <2> QED
    BY <2>2, <2>3 DEF Narrowed, OnlyAskedNarrows
<1>6. CASE FailIntent
  <2>1. intent'.dimension => raw'
    BY <1>1, <1>2, <1>6, ClassifyType DEF FailIntent, Narrowed
  <2>2. context.dimension = NoDim /\ UNCHANGED context
    BY <1>1, <1>6 DEF Narrowed, Early, FailIntent
  <2> QED
    BY <2>1, <2>2 DEF Narrowed, OnlyAskedNarrows
<1>7. CASE Resolve
  <2>1. PICK d \in IF intent.dimension THEN MatchDimension(question, dims) ELSE {NoDim} :
          context' = Resolved(intent, choices, d)
    BY <1>7 DEF Resolve
  <2>2. d # NoDim => raw /\ d \in dims /\ question.dimTier[d] # "none"
    BY <1>1, <2>1, MatchDimensionAsked DEF Narrowed
  <2>3. d \in Dim \cup {NoDim}
    BY <1>2, <2>2
  <2>4. context'.dimension \in {d, NoDim}
    BY <1>2, <1>7, <2>1, <2>3, ResolvedType DEF Resolve
  <2>5. stage' \notin Early
    BY <1>7 DEF Resolve, Early
  <2>6. UNCHANGED <<raw, dims, question, intent>>
    BY <1>7 DEF Resolve
  <2> QED
    BY <1>1, <2>2, <2>4, <2>5, <2>6 DEF Narrowed, OnlyAskedNarrows
<1>8. CASE MakePlan \/ ReadPrevious \/ (\E inv \in Contents : CreateRun(inv)) \/ CreateFails
  BY <1>1, <1>8 DEF Narrowed, OnlyAskedNarrows, Early, MakePlan, ReadPrevious, CreateRun, CreateFails
<1>9. CASE DetectAnomaly \/ RunStep \/ StopSteps
  BY <1>1, <1>9 DEF Narrowed, OnlyAskedNarrows, Early, DetectAnomaly, RunStep, StopSteps
<1>10. CASE (\E figures \in SUBSET Figure, causal \in BOOLEAN : Explain(figures, causal))
            \/ FailExplain
  BY <1>1, <1>10 DEF Narrowed, OnlyAskedNarrows, Early, Explain, FailExplain
<1>11. CASE \E k \in Kpi : ReplaceKpi(k) \/ RemoveKpi(k)
  BY <1>1, <1>11 DEF Narrowed, OnlyAskedNarrows, Early, ReplaceKpi, RemoveKpi, Meanwhile
<1>12. CASE UNCHANGED analystVars
  BY <1>1, <1>12 DEF Narrowed, OnlyAskedNarrows, analystVars
<1> QED
  BY <1>3, <1>4, <1>5, <1>6, <1>7, <1>8, <1>9, <1>10, <1>11, <1>12 DEF AnalystNext, AnalystStep

LEMMA ContextAskedStep ==
    ASSUME AInv, [AnalystNext]_analystVars PROVE ContextAsked'
<1> USE DEF request, working, result, End, Answered, Late
<1>1. ContextAsked /\ Open
  BY DEF AInv
<1>2. /\ stage # "idle" => question \in Question
      /\ intent \in Intent /\ choices \in KpiChoices /\ dims \in SUBSET Dim
  BY QuestionIsAsked DEF AInv, AnalystTypeOK
<1>3. ASSUME NEW q \in Questions, Ask(q) \/ NotReady(q) PROVE ContextAsked'
  BY <1>1, <1>3 DEF ContextAsked, Open, Ask, NotReady
<1>4. CASE ReadChoices \/ ReadDimensions \/ FailIntent
  BY <1>1, <1>4 DEF ContextAsked, Open, ReadChoices, ReadDimensions, FailIntent
<1>5. ASSUME NEW kind, NEW hints, ReadIntent(kind, hints) PROVE ContextAsked'
  BY <1>1, <1>5 DEF ContextAsked, Open, ReadIntent
<1>6. CASE Resolve
  <2>1. PICK d \in IF intent.dimension THEN MatchDimension(question, dims) ELSE {NoDim} :
          context' = Resolved(intent, choices, d)
    BY <1>6 DEF Resolve
  <2>2. d \in Dim \cup {NoDim}
    BY <1>2, <2>1, MatchDimensionAsked
  <2>3. CASE Blocked(context')
    BY <1>6, <2>3 DEF ContextAsked, Resolve
  <2>4. CASE ~Blocked(context')
    <3>1. intent.kpi =>
            \/ MatchKpis(question, choices.known) = {context'.kpi}
            \/ context'.said /\ context'.kpi = choices.active
            \/ context'.origin = "carried_over" /\ choices.active = NoKpi
      BY <1>2, <1>6, <2>1, <2>2, <2>4, ResolvedType DEF Resolve
    <3>2. UNCHANGED <<question, choices, intent>>
      BY <1>6 DEF Resolve
    <3> QED
      BY <3>1, <3>2 DEF ContextAsked
  <2> QED
    BY <2>3, <2>4
<1>7. CASE MakePlan \/ ReadPrevious \/ (\E inv \in Contents : CreateRun(inv))
  BY <1>1, <1>7 DEF ContextAsked, MakePlan, ReadPrevious, CreateRun
<1>8. CASE CreateFails
  BY <1>1, <1>8 DEF ContextAsked, Open, CreateFails
<1>9. CASE DetectAnomaly \/ RunStep \/ StopSteps
  BY <1>1, <1>9 DEF ContextAsked, DetectAnomaly, RunStep, StopSteps
<1>10. CASE (\E figures \in SUBSET Figure, causal \in BOOLEAN : Explain(figures, causal))
            \/ FailExplain
  BY <1>1, <1>10 DEF ContextAsked, Explain, FailExplain
<1>11. CASE \E k \in Kpi : ReplaceKpi(k) \/ RemoveKpi(k)
  BY <1>1, <1>11 DEF ContextAsked, ReplaceKpi, RemoveKpi, Meanwhile
<1>12. CASE UNCHANGED analystVars
  BY <1>1, <1>12 DEF ContextAsked, analystVars
<1> QED
  BY <1>3, <1>4, <1>5, <1>6, <1>7, <1>8, <1>9, <1>10, <1>11, <1>12 DEF AnalystNext, AnalystStep

-----------------------------------------------------------------------------
(***************************************************************************)
(* The investigation in hand, and the row the call may have added.         *)
(***************************************************************************)

LEMMA SourceInHandStep ==
    ASSUME AInv, [AnalystNext]_analystVars PROVE SourceInHand'
<1> USE DEF request, working, result, End, Answered, InTools
<1>1. SourceInHand /\ Open
  BY DEF AInv
<1>2. ASSUME NEW q \in Questions, Ask(q) \/ NotReady(q) PROVE SourceInHand'
  BY <1>1, <1>2 DEF SourceInHand, Open, Ask, NotReady
<1>3. CASE ReadChoices \/ ReadDimensions \/ FailIntent
  BY <1>1, <1>3 DEF SourceInHand, Open, ReadChoices, ReadDimensions, FailIntent
<1>4. ASSUME NEW kind, NEW hints, ReadIntent(kind, hints) PROVE SourceInHand'
  BY <1>1, <1>4 DEF SourceInHand, Open, ReadIntent
<1>5. CASE Resolve \/ MakePlan \/ CreateFails
  BY <1>1, <1>5 DEF SourceInHand, Open, Resolve, MakePlan, CreateFails
<1>6. CASE ReadPrevious
  <2>1. UsesPrevious /\ UNCHANGED <<question, intent>>
    BY <1>6 DEF ReadPrevious
  <2>2. UsesPrevious' /\ source' # {}
    BY <1>6, <2>1 DEF ReadPrevious, UsesPrevious
  <2> QED
    BY <2>2 DEF SourceInHand
<1>7. ASSUME NEW inv \in Contents, CreateRun(inv) PROVE SourceInHand'
  <2>1. source' = {inv} /\ inv.kpi = context.kpi /\ UNCHANGED context
    BY <1>7 DEF CreateRun, Analysed
  <2>2. InHand' = inv
    BY <2>1 DEF InHand
  <2> QED
    BY <2>1, <2>2 DEF SourceInHand
<1>8. CASE DetectAnomaly \/ RunStep \/ StopSteps
  BY <1>1, <1>8 DEF SourceInHand, UsesPrevious, InHand, DetectAnomaly, RunStep, StopSteps
<1>9. CASE (\E figures \in SUBSET Figure, causal \in BOOLEAN : Explain(figures, causal))
           \/ FailExplain
  BY <1>1, <1>9 DEF SourceInHand, UsesPrevious, InHand, Explain, FailExplain
<1>10. CASE \E k \in Kpi : ReplaceKpi(k) \/ RemoveKpi(k)
  BY <1>1, <1>10 DEF SourceInHand, UsesPrevious, InHand, ReplaceKpi, RemoveKpi, Meanwhile
<1>11. CASE UNCHANGED analystVars
  BY <1>1, <1>11 DEF SourceInHand, UsesPrevious, InHand, analystVars
<1> QED
  BY <1>2, <1>3, <1>4, <1>5, <1>6, <1>7, <1>8, <1>9, <1>10, <1>11 DEF AnalystNext, AnalystStep

LEMMA RunUnderWayStep ==
    ASSUME AInv, [AnalystNext]_analystVars PROVE RunUnderWay'
<1> USE DEF request, working, result, End, Answered, InTools
<1>1. RunUnderWay /\ Open
  BY DEF AInv
<1>2. ASSUME NEW q \in Questions, Ask(q) \/ NotReady(q) PROVE RunUnderWay'
  BY <1>1, <1>2 DEF RunUnderWay, Open, Ask, NotReady
<1>3. CASE ReadChoices \/ ReadDimensions \/ FailIntent
  BY <1>1, <1>3 DEF RunUnderWay, Open, ReadChoices, ReadDimensions, FailIntent
<1>4. ASSUME NEW kind, NEW hints, ReadIntent(kind, hints) PROVE RunUnderWay'
  BY <1>1, <1>4 DEF RunUnderWay, Open, ReadIntent
<1>5. CASE Resolve \/ MakePlan \/ CreateFails
  BY <1>1, <1>5 DEF RunUnderWay, Open, Resolve, MakePlan, CreateFails
<1>6. CASE ReadPrevious \/ (\E inv \in Contents : CreateRun(inv))
  BY <1>6 DEF RunUnderWay, ReadPrevious, CreateRun
<1>7. CASE DetectAnomaly \/ RunStep \/ StopSteps
  BY <1>1, <1>7 DEF RunUnderWay, DetectAnomaly, RunStep, StopSteps
<1>8. CASE (\E figures \in SUBSET Figure, causal \in BOOLEAN : Explain(figures, causal))
           \/ FailExplain
  BY <1>8, StatusType DEF RunUnderWay, Explain, FailExplain
<1>9. CASE \E k \in Kpi : ReplaceKpi(k) \/ RemoveKpi(k)
  BY <1>1, <1>9 DEF RunUnderWay, ReplaceKpi, RemoveKpi, Meanwhile
<1>10. CASE UNCHANGED analystVars
  BY <1>1, <1>10 DEF RunUnderWay, analystVars
<1> QED
  BY <1>2, <1>3, <1>4, <1>5, <1>6, <1>7, <1>8, <1>9, <1>10 DEF AnalystNext, AnalystStep

-----------------------------------------------------------------------------
(***************************************************************************)
(* The plan and its steps.                                                 *)
(***************************************************************************)

\* What a tool denies depends on the investigation and on the context alone.
LEMMA DeniedFrame ==
    ASSUME UNCHANGED <<source, context>>, NEW tool PROVE Denied(tool)' <=> Denied(tool)
  BY DEF Denied, DrillDenied, DimensionDenied, InHand

StepsMatch(s) ==
    \A i \in 1..Len(s) :
        s[i].tool = plan[i] /\ (s[i].ok => (s[i].denied <=> Denied(plan[i])))

LEMMA StepsMatchFrame ==
    ASSUME StepsMatch(steps), UNCHANGED <<source, context, plan, steps>>
    PROVE  StepsMatch(steps)'
  BY DeniedFrame DEF StepsMatch

LEMMA SteppedStep ==
    ASSUME AInv, [AnalystNext]_analystVars PROVE Stepped'
<1> USE DEF request, working, result, End, Answered, Late, Early
<1>1. Stepped /\ Open /\ StepsMatch(steps)
  BY DEF AInv, Stepped, StepsMatch
<1>2. steps \in Seq(ToolResult) /\ plan \in Seq(Tool)
  BY DEF AInv, AnalystTypeOK
<1>3. ASSUME NEW q \in Questions, Ask(q) \/ NotReady(q) PROVE Stepped'
  <2>1. UNCHANGED <<source, context, plan, steps, cut, intent>> /\ stage = "idle"
    BY <1>3 DEF Ask, NotReady
  <2>2. stage' \in {"choices", "ended"} /\ outcome' \in {"none", "refused"}
    BY <1>1, <1>3 DEF Ask, NotReady, Open
  <2>3. StepsMatch(steps)'
    BY <1>1, <2>1, StepsMatchFrame
  <2> QED
    BY <1>1, <2>1, <2>2, <2>3 DEF Stepped, StepsMatch
<1>4. ASSUME \/ ReadChoices \/ ReadDimensions \/ FailIntent
             \/ \E kind, hints : ReadIntent(kind, hints)
      PROVE  Stepped'
  <2>1. UNCHANGED <<source, context, plan, steps, cut, outcome>>
        /\ stage \in Early \ {"resolve"} /\ stage' \in Early
    BY <1>4 DEF ReadChoices, ReadDimensions, FailIntent, ReadIntent
  <2>2. StepsMatch(steps)'
    BY <1>1, <2>1, StepsMatchFrame
  <2> QED
    BY <1>1, <2>1, <2>2 DEF Stepped, StepsMatch, Open
<1>5. CASE Resolve
  <2>1. UNCHANGED <<source, plan, steps, cut>> /\ stage = "resolve"
    BY <1>5 DEF Resolve
  <2>2. \/ stage' = "plan" /\ outcome' = "none"
        \/ stage' = "ended" /\ outcome' = "clarification"
    BY <1>1, <1>5 DEF Resolve, Open
  <2>3. steps = <<>> /\ Len(steps) = 0
    BY <1>1, <2>1 DEF Stepped
  <2> QED
    BY <1>1, <2>1, <2>2, <2>3 DEF Stepped
<1>6. CASE MakePlan
  <2>1. UNCHANGED <<context, intent, steps, outcome>> /\ stage = "plan" /\ stage' = "investigate"
    BY <1>6 DEF MakePlan
  <2>2. plan' = Capped(Wanted(intent.kind, context.segment))
    BY <1>6 DEF MakePlan
  <2>3. plan' \in Seq(Tool)
    BY <2>2, WantedTools, CappedTools DEF AInv, AnalystTypeOK, Intent, ResolvedContext
  <2>4. steps = <<>> /\ outcome = "none"
    BY <1>1, <2>1 DEF Stepped, Open
  <2> QED
    BY <2>1, <2>2, <2>3, <2>4 DEF Stepped
<1>7. CASE ReadPrevious \/ (\E inv \in Contents : CreateRun(inv))
  <2>1. UNCHANGED <<context, intent, plan, steps, outcome>>
        /\ stage = "investigate" /\ stage' = "anomaly"
    BY <1>7 DEF ReadPrevious, CreateRun
  <2>2. steps = <<>> /\ outcome = "none"
    BY <1>1, <2>1 DEF Stepped, Open
  <2> QED
    BY <1>1, <1>2, <2>1, <2>2 DEF Stepped
<1>8. CASE CreateFails
  <2>1. UNCHANGED <<source, context, intent, plan, steps, cut>> /\ stage = "investigate"
        /\ stage' = "ended" /\ outcome' \in {"run failed", "refused"}
    BY <1>8 DEF CreateFails
  <2>2. StepsMatch(steps)'
    BY <1>1, <2>1, StepsMatchFrame
  <2> QED
    BY <1>1, <2>1, <2>2 DEF Stepped, StepsMatch
<1>9. CASE DetectAnomaly
  <2>1. UNCHANGED <<source, context, intent, plan, steps, cut, outcome>>
        /\ stage = "anomaly" /\ stage' = "execute"
    BY <1>9 DEF DetectAnomaly
  <2>2. StepsMatch(steps)'
    BY <1>1, <2>1, StepsMatchFrame
  <2> QED
    BY <1>1, <2>1, <2>2 DEF Stepped, StepsMatch, Open
<1>10. CASE RunStep
  <2> DEFINE tool == plan[Len(steps) + 1]
  <2>1. PICK ok \in BOOLEAN :
          steps' = Append(steps, [tool |-> tool, ok |-> ok, denied |-> ok /\ Denied(tool)])
    BY <1>10 DEF RunStep
  <2>2. UNCHANGED <<source, context, intent, plan, cut, outcome, stage>> /\ stage = "execute"
        /\ Len(steps) < Len(plan)
    BY <1>10 DEF RunStep
  <2> DEFINE new == [tool |-> tool, ok |-> ok, denied |-> ok /\ Denied(tool)]
  <2>3. new.tool = tool /\ (new.ok => (new.denied <=> Denied(tool)))
    OBVIOUS
  <2> HIDE DEF new
  <2>4. /\ Len(steps') = Len(steps) + 1 /\ Len(steps') <= Len(plan)
        /\ steps'[Len(steps) + 1] = new
        /\ \A i \in 1..Len(steps) : steps'[i] = steps[i]
    BY <1>2, <2>1, <2>2 DEF new
  <2> HIDE DEF tool
  <2>5. \A i \in 1..Len(steps') :
           /\ steps'[i].tool = plan[i]
           /\ steps'[i].ok => (steps'[i].denied <=> Denied(plan[i]))
    <3> SUFFICES ASSUME NEW i \in 1..Len(steps')
                 PROVE  /\ steps'[i].tool = plan[i]
                        /\ steps'[i].ok => (steps'[i].denied <=> Denied(plan[i]))
      OBVIOUS
    <3>1. CASE i \in 1..Len(steps)
      BY <1>1, <2>4, <3>1 DEF StepsMatch
    <3>2. CASE i = Len(steps) + 1
      BY <2>3, <2>4, <3>2 DEF tool
    <3> QED
      BY <1>2, <2>4, <3>1, <3>2
  <2>6. \A i \in 1..Len(steps') : Denied(plan[i])' <=> Denied(plan[i])
    BY <2>2, DeniedFrame DEF Denied, DrillDenied, DimensionDenied, InHand
  <2>7. outcome = "none"
    BY <1>1, <2>2 DEF Open
  <2> QED
    BY <1>1, <2>2, <2>4, <2>5, <2>6, <2>7 DEF Stepped
<1>11. CASE StopSteps
  <2>1. UNCHANGED <<source, context, intent, plan, steps, outcome>>
        /\ stage = "execute" /\ stage' = "explain"
    BY <1>11 DEF StopSteps
  <2>2. StepsMatch(steps)'
    BY <1>1, <2>1, StepsMatchFrame
  <2>3. cut' \/ Len(steps) = Len(plan)
    BY <1>11 DEF StopSteps
  <2> QED
    BY <1>1, <2>1, <2>2, <2>3 DEF Stepped, StepsMatch, Open
<1>12. CASE (\E figures \in SUBSET Figure, causal \in BOOLEAN : Explain(figures, causal))
            \/ FailExplain
  <2>1. UNCHANGED <<source, context, intent, plan, steps, cut>>
        /\ stage = "explain" /\ stage' = "ended"
    BY <1>12 DEF Explain, FailExplain
  <2>2. StepsMatch(steps)'
    BY <1>1, <2>1, StepsMatchFrame
  <2> QED
    BY <1>1, <2>1, <2>2 DEF Stepped, StepsMatch
<1>13. CASE (\E k \in Kpi : ReplaceKpi(k) \/ RemoveKpi(k)) \/ UNCHANGED analystVars
  <2>1. UNCHANGED <<stage, source, context, intent, plan, steps, cut, outcome>>
    BY <1>13 DEF ReplaceKpi, RemoveKpi, Meanwhile, analystVars
  <2>2. StepsMatch(steps)'
    BY <1>1, <2>1, StepsMatchFrame
  <2> QED
    BY <1>1, <2>1, <2>2 DEF Stepped, StepsMatch
<1> QED
  BY <1>3, <1>4, <1>5, <1>6, <1>7, <1>8, <1>9, <1>10, <1>11, <1>12, <1>13
     DEF AnalystNext, AnalystStep

-----------------------------------------------------------------------------
(***************************************************************************)
(* The answer and its status.                                              *)
(***************************************************************************)

\* The bundle is of the investigation, the steps and the anomaly report.
LEMMA BundleFrame ==
    ASSUME UNCHANGED <<source, steps, anomaly, answer, outcome, cut>>, Concluded
    PROVE  Concluded'
<1>1. InHand' = InHand /\ (\A tool : Ran(tool)' <=> Ran(tool))
  BY DEF InHand, Ran
<1>2. Numbers' = Numbers
  BY DEF Numbers, Drivers, InHand, Ran
<1>3. Grounded(answer.figures)' <=> Grounded(answer.figures)
  BY <1>2 DEF Grounded
<1> QED
  BY <1>3 DEF Concluded, AbsenceWasChecked, InHand, Ran

\* What an answer is called.
LEMMA StatusCompleted ==
    ASSUME NEW text \in Answer, steps \in Seq(ToolResult), StatusOf(text) = "completed"
    PROVE  text.text # "template" /\ ~cut
           /\ \A i \in 1..Len(steps) : steps[i].ok /\ ~steps[i].denied
  BY DEF StatusOf

LEMMA ConcludedStep ==
    ASSUME AInv, [AnalystNext]_analystVars PROVE Concluded'
<1> USE DEF request, working, result, End
<1>1. Concluded /\ Open /\ AnalystTypeOK
  BY DEF AInv
<1>2. ASSUME NEW q \in Questions, Ask(q) \/ NotReady(q) PROVE Concluded'
  <2>1. answer' = NoAnswer /\ outcome' \in {"none", "refused"}
    BY <1>1, <1>2 DEF Open, Answered, Ask, NotReady
  <2> QED
    BY <2>1 DEF Concluded, AbsenceWasChecked, NoAnswer
<1>3. ASSUME \/ ReadChoices \/ ReadDimensions \/ FailIntent
             \/ \E kind, hints : ReadIntent(kind, hints)
             \/ Resolve \/ MakePlan
             \/ ReadPrevious \/ (\E inv \in Contents : CreateRun(inv)) \/ CreateFails
             \/ DetectAnomaly \/ RunStep \/ StopSteps
      PROVE  Concluded'
  <2>1. stage # "ended" /\ answer' = answer
        /\ outcome' \in {outcome, "clarification", "run failed", "refused"}
    BY <1>3 DEF ReadChoices, ReadDimensions, FailIntent, ReadIntent, Resolve, MakePlan,
       ReadPrevious, CreateRun, CreateFails, DetectAnomaly, RunStep, StopSteps
  <2>2. answer' = NoAnswer /\ outcome' # "completed"
    BY <1>1, <2>1 DEF Open, Answered
  <2> QED
    BY <2>2 DEF Concluded, AbsenceWasChecked, NoAnswer
<1>4. ASSUME NEW figures \in SUBSET Figure, NEW causal \in BOOLEAN, Explain(figures, causal)
      PROVE  Concluded'
  <2>1. source \in SUBSET Contents /\ source # {} /\ steps \in Seq(ToolResult)
    BY <1>4 DEF AInv, AnalystTypeOK, SourceInHand, InTools, Explain
  <2>2. UNCHANGED <<source, steps, anomaly, cut>>
        /\ answer' = Explained(figures, causal) /\ outcome' = StatusOf(answer')
    BY <1>4 DEF Explain
  <2> DEFINE text == Explained(figures, causal)
  <2>3. /\ text \in Answer /\ text.text \in {"generated", "template"}
        /\ text.text = "generated" => Grounded(text.figures)
        /\ text.noDrivers =>
             InHand.analysed /\ InHand.compared /\ Ran("contribution_analysis")
    BY <2>1, ExplainedType
  <2> HIDE DEF text
  <2>4. outcome' = StatusOf(text) /\ answer' = text
    BY <2>2 DEF text
  <2>5. outcome' = "completed" =>
          /\ text.text = "generated" /\ ~cut
          /\ \A i \in 1..Len(steps) : steps[i].ok /\ ~steps[i].denied
    BY <2>1, <2>3, <2>4, StatusCompleted
  <2>6. Grounded(answer.figures)' <=> Grounded(text.figures)
    BY <2>2, <2>4 DEF Grounded, Numbers, Drivers, InHand, Ran
  <2>7. InHand' = InHand /\ (Ran("contribution_analysis")' <=> Ran("contribution_analysis"))
    BY <2>2 DEF InHand, Ran
  <2> QED
    BY <2>2, <2>3, <2>4, <2>5, <2>6, <2>7 DEF Concluded, AbsenceWasChecked
<1>5. CASE FailExplain
  <2>1. source \in SUBSET Contents /\ source # {} /\ steps \in Seq(ToolResult)
    BY <1>5 DEF AInv, AnalystTypeOK, SourceInHand, InTools, FailExplain
  <2>2. UNCHANGED <<source, steps, anomaly, cut>>
        /\ answer' = Template /\ outcome' = StatusOf(answer')
    BY <1>5 DEF FailExplain
  <2>3. /\ Template \in Answer /\ Template.text = "template"
        /\ Template.noDrivers =>
             InHand.analysed /\ InHand.compared /\ Ran("contribution_analysis")
    BY <2>1, TemplateType
  <2>4. outcome' # "completed"
    BY <2>1, <2>2, <2>3, StatusCompleted
  <2>5. InHand' = InHand /\ (Ran("contribution_analysis")' <=> Ran("contribution_analysis"))
    BY <2>2 DEF InHand, Ran
  <2> QED
    BY <2>2, <2>3, <2>4, <2>5 DEF Concluded, AbsenceWasChecked
<1>6. CASE (\E k \in Kpi : ReplaceKpi(k) \/ RemoveKpi(k)) \/ UNCHANGED analystVars
  <2>1. UNCHANGED <<source, steps, anomaly, answer, outcome, cut>>
    BY <1>6 DEF ReplaceKpi, RemoveKpi, Meanwhile, analystVars
  <2> QED
    BY <1>1, <2>1, BundleFrame
<1> QED
  BY <1>2, <1>3, <1>4, <1>5, <1>6 DEF AnalystNext, AnalystStep

-----------------------------------------------------------------------------
(***************************************************************************)
(* The theorems.                                                           *)
(***************************************************************************)

LEMMA AInvInit == ASSUME AnalystInit PROVE AInv
<1> USE DEF AnalystInit
<1>1. IntentAttempts \in Nat \ {0} /\ MaxEdits \in Nat
      /\ 0 \in 0..(2 + (IF IntentRetries > 0 THEN IntentRetries ELSE 0))
  <2>1. IntentRetries \in Int /\ MaxEdits \in Nat
    BY AnalystAssumption DEF AnalystAssumption
  <2> QED
    BY <2>1 DEF IntentAttempts
<1>2. AnalystTypeOK
  <2>1. defs \in [Kpi -> {"absent", "active", "superseded"}] /\ edits \in 0..MaxEdits
    <3>1. Configured \subseteq [Kpi -> {"absent", "active", "superseded"}]
      BY AnalystAssumption DEF AnalystAssumption
    <3>2. defs \in Configured /\ edits = 0
      OBVIOUS
    <3> QED
      BY <1>1, <3>1, <3>2
  <2>2. /\ choices \in KpiChoices /\ intent \in Intent /\ context \in ResolvedContext
        /\ answer \in Answer
    BY DEF KpiChoices, Intent, NoIntent, IntentKind, ResolvedContext, NoContext, Answer, NoAnswer
  <2>3. plan \in Seq(Tool) /\ steps \in Seq(ToolResult)
    OBVIOUS
  <2>4. CallTypes
    BY <2>2, <2>3 DEF CallTypes
  <2>5. stage \in {"idle", "choices", "dimensions", "intent", "resolve", "plan",
                   "investigate", "anomaly", "execute", "explain", "ended"}
        /\ attempts \in 0..(2 + (IF IntentRetries > 0 THEN IntentRetries ELSE 0))
    BY <1>1
  <2> QED
    BY <2>1, <2>4, <2>5 DEF AnalystTypeOK, CallTypes
<1>3. Asking /\ Open
  BY <1>1 DEF Asking, Open, Answered
<1>4. Narrowed
  BY DEF Narrowed, OnlyAskedNarrows, NoIntent, NoContext
<1>5. ContextAsked /\ SourceInHand /\ RunUnderWay
  BY DEF ContextAsked, SourceInHand, RunUnderWay, Answered, InTools, Late
<1>6. Stepped
  BY DEF Stepped, Answered, Late
<1>7. Concluded
  BY DEF Concluded, AbsenceWasChecked, NoAnswer
<1> QED
  BY <1>2, <1>3, <1>4, <1>5, <1>6, <1>7 DEF AInv

LEMMA AnalystInvariant == AnalystSpec => []AInv
<1>1. AnalystInit => AInv
  BY AInvInit
<1>2. AInv /\ [AnalystNext]_analystVars => AInv'
  <2> SUFFICES ASSUME AInv, [AnalystNext]_analystVars PROVE AInv'
    OBVIOUS
  <2> QED
    BY TypeStep, AskingStep, OpenStep, NarrowedStep, ContextAskedStep, SourceInHandStep,
       RunUnderWayStep, SteppedStep, ConcludedStep DEF AInv
<1> QED
  BY <1>1, <1>2, PTL DEF AnalystSpec

\* Every variable of the call keeps its type; the model is asked at most twice more than
\* it is retried.
THEOREM AnalystTypeCorrect == AnalystSpec => []AnalystTypeOK
<1>1. AInv => AnalystTypeOK
  BY DEF AInv
<1> QED
  BY <1>1, AnalystInvariant, PTL

\* Whatever the model makes up, the analysis is narrowed to a dimension only if the
\* question has its words and a definition lists it.
THEOREM AskedDimensionsOnly == AnalystSpec => []OnlyAskedNarrows
<1>1. AInv => OnlyAskedNarrows
  BY DEF AInv, Narrowed
<1> QED
  BY <1>1, AnalystInvariant, PTL

\* Definitions may be replaced and deleted between any two reads: an answer is about the
\* one definition the question names, or says that it falls back to another.
THEOREM AskedKpiIsAnswered == AnalystSpec => []AnswersKpiAsked
<1>1. AInv => AnswersKpiAsked
  BY DEF AInv, AnswersKpiAsked, ContextAsked, SourceInHand
<1> QED
  BY <1>1, AnalystInvariant, PTL

\* An investigation that the question has opened is followed by an answer, whether or not
\* the model can be reached afterwards.
THEOREM OpenedRunIsAnswered == AnalystSpec => []RunIsAnswered
<1>1. AInv => RunIsAnswered
  BY DEF AInv, RunIsAnswered, RunUnderWay, InTools, Open
<1> QED
  BY <1>1, AnalystInvariant, PTL

\* "No material drivers" is only written where the contribution analysis ran on two
\* periods that were compared.
THEOREM DenialWasChecked == AnalystSpec => []AbsenceWasChecked
<1>1. AInv => AbsenceWasChecked
  BY DEF AInv, Concluded
<1> QED
  BY <1>1, AnalystInvariant, PTL

\* A match, within the tolerance and as a share, is never beyond two hundred times the
\* figure.
LEMMA MatchIsNear ==
    ASSUME NEW figure \in Int, NEW number \in Int, Checkable(figure), Matches(figure, number)
    PROVE  200 * Magnitude(figure) >= Magnitude(number)
<1> DEFINE v == Magnitude(figure)
           c == Magnitude(number)
           scale == Larger(Larger(v, c), 1)
<1>1. v \in Nat /\ c \in Nat /\ v >= 3
  BY DEF Magnitude, Checkable
<1>2. \/ 1000 * Magnitude(v - c) <= 5 * scale
      \/ 1000 * Magnitude(100 * v - c) <= 500 * scale
  BY DEF Matches
<1> HIDE DEF v, c
<1> SUFFICES ASSUME c > 200 * v PROVE FALSE
  BY <1>1 DEF v, c
<1>3. scale = c
  BY <1>1 DEF Larger
<1>4. Magnitude(v - c) = c - v /\ Magnitude(100 * v - c) = c - 100 * v
  BY <1>1 DEF Magnitude
<1> QED
  BY <1>1, <1>2, <1>3, <1>4

\* A figure that is nowhere near a measured one is never published in the model's text,
\* whatever true figures surround it.
THEOREM PublishedIsMeasured == AnalystSpec => []UnmeasuredDiscarded
<1>1. ASSUME AInv PROVE UnmeasuredDiscarded
  <2> SUFFICES ASSUME answer.text = "generated", NEW f \in answer.figures, Checkable(f)
               PROVE  \E c \in Numbers :
                        2 * Magnitude(f) >= Magnitude(c) \/ 200 * Magnitude(f) >= Magnitude(c)
    BY DEF UnmeasuredDiscarded
  <2>1. PICK c \in Numbers : Matches(f, c)
    BY <1>1 DEF AInv, Concluded, Grounded
  <2>2. source \in SUBSET Contents /\ source # {}
    <3>1. Answered
      BY <1>1 DEF AInv, Open, NoAnswer
    <3> QED
      BY <1>1, <3>1 DEF AInv, SourceInHand, AnalystTypeOK
  <2>3. f \in Int /\ c \in Int
    BY <1>1, <2>1, <2>2, NumbersType, AnalystAssumption
       DEF AnalystAssumption, AInv, AnalystTypeOK, Answer
  <2> QED
    BY <2>1, <2>3, MatchIsNear
<1> QED
  BY <1>1, AnalystInvariant, PTL

\* What test_ai_planner.py asserts of the settings: no recipe is longer than the cap.
RecipesFit == \A kind \in IntentKind : Len(Recipe[kind]) <= MaxPlanSteps

\* An answer called completed rests on every tool of its recipe: each ran and had
\* something to say of what was asked, and the text is the model's own.  A cap below the
\* recipe would shorten the plan without a word, so the settings must honour the test.
THEOREM CompletedRestsOnAll ==
    ASSUME RecipesFit PROVE AnalystSpec => []CompletedIsComplete
<1>1. ASSUME AInv PROVE CompletedIsComplete
  <2> SUFFICES ASSUME outcome = "completed"
               PROVE  /\ answer.text = "generated"
                      /\ LET wanted == Wanted(intent.kind, context.segment)
                         IN  /\ Len(steps) = Len(wanted)
                             /\ \A i \in DOMAIN steps :
                                   /\ steps[i].tool = wanted[i]
                                   /\ steps[i].ok /\ ~Denied(wanted[i])
    BY DEF CompletedIsComplete
  <2> DEFINE wanted == Wanted(intent.kind, context.segment)
  <2>1. intent \in Intent /\ context \in ResolvedContext /\ steps \in Seq(ToolResult)
    BY <1>1 DEF AInv, AnalystTypeOK
  <2>2. intent.kind \in IntentKind /\ context.segment \in BOOLEAN
    BY <2>1 DEF Intent, ResolvedContext
  <2>3. wanted \in Seq(Tool) /\ Recipe[intent.kind] \in Seq(Tool)
        /\ Len(wanted) <= Len(Recipe[intent.kind])
    BY <2>2, WantedTools, RecipeTools
  <2>4. Len(wanted) <= MaxPlanSteps
    <3>1. Len(Recipe[intent.kind]) <= MaxPlanSteps /\ MaxPlanSteps \in Nat
      BY <2>2, AnalystAssumption DEF RecipesFit, AnalystAssumption
    <3> HIDE DEF wanted
    <3> QED
      BY <2>3, <3>1
  <2>5. plan = wanted
    BY <1>1, <2>3, <2>4, CappedTools DEF AInv, Stepped, Answered
  <2>6. answer.text = "generated" /\ ~cut
        /\ \A i \in 1..Len(steps) : steps[i].ok /\ ~steps[i].denied
    BY <1>1 DEF AInv, Concluded
  <2>7. Len(steps) = Len(wanted)
    BY <1>1, <2>5, <2>6 DEF AInv, Stepped, Answered
  <2>8. \A i \in 1..Len(steps) :
           steps[i].tool = plan[i] /\ (steps[i].ok => (steps[i].denied <=> Denied(plan[i])))
    BY <1>1 DEF AInv, Stepped
  <2> HIDE DEF wanted
  <2>9. \A i \in 1..Len(steps) :
           steps[i].tool = wanted[i] /\ steps[i].ok /\ ~Denied(wanted[i])
    BY <2>5, <2>6, <2>8
  <2> QED
    BY <2>1, <2>6, <2>7, <2>9 DEF wanted
<1> QED
  BY <1>1, AnalystInvariant, PTL
=============================================================================
