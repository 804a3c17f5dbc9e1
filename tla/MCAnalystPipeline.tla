-------------------------- MODULE MCAnalystPipeline --------------------------
(***************************************************************************)
(* A small instance of AnalystPipeline: two definitions, a dimension that  *)
(* one of them lists, one question per route through the code, and         *)
(* investigations that differ in what the tools can find in them.          *)
(***************************************************************************)
EXTENDS AnalystPipeline, TLC

CONSTANTS
    k1, k2, region,
    Measured           \* the figure the KPI comparison holds

MCDimsOf == k1 :> {region} @@ k2 :> {}
July == [month |-> "july", quarter |-> "q3", year |-> "2026"]
MCConfigured ==
    {k1 :> "active" @@ k2 :> "superseded", k1 :> "superseded" @@ k2 :> "superseded",
     k1 :> "absent" @@ k2 :> "absent"}
MCMonth == {July}

Full == [dataset |-> "this", kpi |-> k1, analysed |-> TRUE, compared |-> TRUE,
         kpiFigures |-> {Measured}, driverFigures |-> {3}, rows |-> {}, window |-> {July},
         dims |-> {region}, tree |-> "holds"]
Flat == [Full EXCEPT !.kpi = k2, !.compared = FALSE, !.driverFigures = {},
                     !.dims = {}, !.tree = "none"]
Elsewhere == [Full EXCEPT !.dataset = "other"]
MCContents == {Full, Flat, Elsewhere}

\* Names one definition; asks why.
Why == [NoQuestion EXCEPT !.cues = {"cause"}, !.kpi = TRUE, !.tier[k1] = "exact",
                          !.tier[k2] = "overlap", !.period = {"july"}]
\* Names a dimension and a word both definitions have.
Breakdown == [NoQuestion EXCEPT !.cues = {"dimension"}, !.kpi = TRUE,
                !.tier = [k \in Kpi |-> "partial"], !.dimension = TRUE,
                !.dimTier[region] = "exact"]
\* Follows up on an earlier investigation, naming a segment.
Further == [NoQuestion EXCEPT !.segment = TRUE, !.previous = {Full}]
\* Asks of something that matches nothing, with a definition in the request.
Strange == [NoQuestion EXCEPT !.cues = {"anomaly"}, !.kpi = TRUE, !.kpiParam = k2]
Foreign == [Further EXCEPT !.previous = {Elsewhere}]
\* What the model returns: nothing, the question's words, or its own.
Silent == [kpi |-> "null", period |-> "echoed", dimension |-> "null", segment |-> "null"]
MCReadings ==
    {Silent,
     [kpi |-> "asked", period |-> "asked", dimension |-> "asked", segment |-> "asked"],
     [kpi |-> "invented", period |-> "invented", dimension |-> "invented",
      segment |-> "invented"]}
MCQuestions == {Why, Breakdown, Further, Strange, Foreign}
=============================================================================
