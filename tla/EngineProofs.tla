----------------------------- MODULE EngineProofs -----------------------------
(***************************************************************************)
(* A root cause analysis and the investigation around it, for every file,  *)
(* every calendar and every bound: the windows, the nodes, the statements  *)
(* and the evidence.                                                       *)
(***************************************************************************)
EXTENDS InvestigationEngine, SeriesProofs

-----------------------------------------------------------------------------
(***************************************************************************)
(* The two windows.                                                        *)
(***************************************************************************)

\* A bucket of the calendar, one before it, and how the two fit together.
LEMMA AnchorIs ==
    ASSUME NEW g \in Grain, NEW newest \in Int, Covered(newest)
    PROVE  LET anchor == BucketStart(newest, g)
               before == Shift(anchor, g, -1)
           IN  /\ anchor \in Int /\ before \in Int /\ before < anchor
               /\ anchor <= newest /\ newest < BucketEnd(anchor, g)
               /\ BucketEnd(before, g) = anchor
               /\ before = Begin(g, Index(g, newest) - 1) /\ anchor = Begin(g, Index(g, newest))
               /\ BucketEnd(anchor, g) = Begin(g, Index(g, newest) + 1)
<1> DEFINE j == Index(g, newest)
<1>1. Dateable(newest)
  BY CoveredIs
<1>2. /\ BucketStart(newest, g) = Begin(g, j) /\ Begin(g, j) \in Int
      /\ Begin(g, j) <= newest /\ newest < Begin(g, j + 1)
  BY <1>1, MomentInBucket
<1>3. j \in Int /\ Shiftable(g, j) /\ Shiftable(g, j - 1) /\ InCalendar(g, j + 1)
  BY Neighbours
<1> HIDE DEF j
<1>4. InCalendar(g, j) /\ InCalendar(g, j - 1) /\ j + (-1) = j - 1 /\ (j - 1) + 1 = j
  BY <1>3 DEF Shiftable
<1>5. Shift(Begin(g, j), g, -1) = Begin(g, j - 1)
  BY <1>3, <1>4, ShiftIs
<1>6. Shift(Begin(g, j - 1), g, 1) = Begin(g, j)
  BY <1>3, <1>4, ShiftIs
<1>7. Shift(Begin(g, j), g, 1) = Begin(g, j + 1)
  BY <1>3, <1>4, ShiftIs
<1>8. Begin(g, j - 1) \in Int /\ Begin(g, j - 1) < Begin(g, j)
  <2>1. j - 1 < j
    BY <1>3
  <2> QED
    BY <1>4, <2>1, BucketsFollow
<1> QED
  BY <1>2, <1>5, <1>6, <1>7, <1>8 DEF BucketEnd, j

\* What NewestAccountedFor says of a resolution.
KeepsNewest(p, moments) ==
    /\ p.previous.end = p.current.start
    /\ \/ In(Newest(moments), p.current)
       \/ /\ In(Newest(moments), p.excluded)
          /\ p.excluded.start = p.current.end
          /\ \E t \in moments : t < p.excluded.start
Apart(p) == p.current.start \in Int /\ p.previous.end \in Int /\ p.previous.end <= p.current.start

LEMMA CalendarWindows ==
    ASSUME NEW moments \in SUBSET Nat, NEW g \in Grain, NEW frequency,
           \A t \in moments : Covered(t),
           Oldest(moments) \in moments, Newest(moments) \in moments
    PROVE  LET p == ResolveCalendar(BucketStart(Newest(moments), g), g, frequency,
                                    Oldest(moments), Newest(moments))
           IN  KeepsNewest(p, moments) /\ Apart(p)
<1> DEFINE newest == Newest(moments)
           oldest == Oldest(moments)
           anchor == BucketStart(newest, g)
           before == Shift(anchor, g, -1)
           j == Index(g, newest)
<1>1. newest \in Int /\ oldest \in Int /\ Covered(newest) /\ Covered(oldest)
  <2>1. newest \in moments /\ oldest \in moments
    OBVIOUS
  <2>2. \A t \in moments : t \in Int
    OBVIOUS
  <2> HIDE DEF newest, oldest
  <2> QED
    BY <2>1, <2>2
<1>2. /\ anchor \in Int /\ before \in Int /\ before < anchor
      /\ anchor <= newest /\ newest < BucketEnd(anchor, g)
      /\ BucketEnd(before, g) = anchor
      /\ before = Begin(g, j - 1) /\ anchor = Begin(g, j)
  BY <1>1, AnchorIs
<1>3. ResolveCalendar(anchor, g, frequency, oldest, newest)
        = Anchored(anchor, before, g, frequency, oldest, newest)
  BY DEF ResolveCalendar
<1>4. ASSUME before >= BucketStart(oldest, g) PROVE oldest < anchor
  <2>1. Dateable(oldest) /\ Shiftable(g, j - 1) /\ Shiftable(g, j) /\ j \in Int
    BY <1>1, CoveredIs, Neighbours
  <2> DEFINE i == Index(g, oldest)
  <2>2. /\ BucketStart(oldest, g) = Begin(g, i) /\ Begin(g, i + 1) \in Int
        /\ oldest < Begin(g, i + 1) /\ Begin(g, i) \in Int /\ InCalendar(g, i) /\ InCalendar(g, i + 1)
        /\ i \in Int
    BY <2>1, MomentInBucket DEF Shiftable, InCalendar
  <2> HIDE DEF i, anchor, before, newest, oldest, j
  <2>3. ~(j - 1 < i)
    <3> SUFFICES ASSUME j - 1 < i PROVE FALSE
      OBVIOUS
    <3>1. Begin(g, j - 1) < Begin(g, i)
      BY <2>1, <2>2, BucketsFollow DEF Shiftable
    <3> QED
      BY <1>2, <1>4, <2>2, <3>1
  <2>4. i + 1 <= j
    BY <2>1, <2>2, <2>3
  <2>5. Begin(g, i + 1) <= Begin(g, j)
    <3>1. CASE i + 1 = j
      BY <2>2, <3>1
    <3>2. CASE i + 1 < j
      BY <2>1, <2>2, <3>2, BucketsFollow DEF Shiftable
    <3> QED
      BY <2>1, <2>2, <2>4, <3>1, <3>2
  <2> QED
    BY <1>1, <1>2, <2>2, <2>5
<1> DEFINE p == Anchored(anchor, before, g, frequency, oldest, newest)
<1>5. CASE StepsBack(anchor, before, g, frequency, oldest, newest)
  <2>1. p = Ending(before, g, Window(anchor, BucketEnd(anchor, g)))
    BY <1>5 DEF Anchored
  <2> HIDE DEF anchor, before, newest, oldest, j
  <2>2. /\ p.current.start = before /\ p.current.end = anchor /\ p.previous.end = before
        /\ p.excluded.start = anchor /\ p.excluded.end = BucketEnd(anchor, g)
    BY <1>2, <2>1 DEF Ending, Windows, Window
  <2>3. oldest < anchor
    BY <1>4, <1>5 DEF StepsBack
  <2> HIDE DEF p
  <2>4. In(newest, p.excluded)
    BY <1>2, <2>2 DEF In
  <2>5. \E t \in moments : t < p.excluded.start
    BY <2>2, <2>3 DEF oldest
  <2>6. KeepsNewest(p, moments)
    BY <2>2, <2>4, <2>5 DEF KeepsNewest, newest
  <2>7. Apart(p)
    BY <1>2, <2>2 DEF Apart
  <2> QED
    BY <1>3, <2>6, <2>7 DEF p, newest, oldest, anchor
<1>6. CASE ~StepsBack(anchor, before, g, frequency, oldest, newest)
  <2>1. p = Ending(anchor, g, Nothing)
    BY <1>6 DEF Anchored
  <2> HIDE DEF anchor, before, newest, oldest, j
  <2>2. /\ p.current.start = anchor /\ p.current.end = BucketEnd(anchor, g)
        /\ p.previous.end = anchor
    BY <2>1 DEF Ending, Windows, Window
  <2> HIDE DEF p
  <2>3. In(newest, p.current)
    BY <1>2, <2>2 DEF In
  <2>4. KeepsNewest(p, moments)
    BY <2>2, <2>3 DEF KeepsNewest, newest
  <2>5. Apart(p)
    BY <1>2, <2>2 DEF Apart
  <2> QED
    BY <1>3, <2>4, <2>5 DEF p, newest, oldest, anchor
<1> QED
  BY <1>5, <1>6

LEMMA EqualSpanWindows ==
    ASSUME NEW moments \in SUBSET Nat,
           Oldest(moments) \in moments, Newest(moments) \in moments,
           Oldest(moments) <= Newest(moments)
    PROVE  LET p == ResolveEqualSpan(Oldest(moments), Newest(moments))
           IN  KeepsNewest(p, moments) /\ Apart(p)
<1> DEFINE newest == Newest(moments)
           oldest == Oldest(moments)
           span == newest + 1 - oldest
           half == IF span % 2 = 0 THEN span \div 2 ELSE 2 * ((span + 1) \div 4)
           p == ResolveEqualSpan(oldest, newest)
<1>1. newest \in Nat /\ oldest \in Nat /\ oldest <= newest
  OBVIOUS
<1>2. p = Windows(Window(oldest + half, newest + 1), Window(oldest, oldest + half), Nothing)
  BY DEF ResolveEqualSpan
<1> HIDE DEF p, newest, oldest
<1>3. half \in Int /\ half <= newest - oldest
  <2>1. span \in Nat /\ span >= 1
    BY <1>1
  <2> HIDE DEF span
  <2>2. half \in Int /\ half < span
    <3>1. CASE span % 2 = 0
      <4>1. span \div 2 \in Int /\ span \div 2 < span
        BY <2>1
      <4> QED
        BY <3>1, <4>1
    <3>2. CASE span % 2 # 0
      <4> DEFINE q == (span + 1) \div 4
      <4>1. q \in Int /\ 4 * q <= span + 1
        BY <2>1
      <4>2. half = 2 * q
        BY <3>2
      <4> HIDE DEF q, half
      <4>3. 2 * q < span
        BY <2>1, <3>2, <4>1
      <4> QED
        BY <4>1, <4>2, <4>3
    <3> QED
      BY <3>1, <3>2
  <2> HIDE DEF half
  <2> QED
    BY <1>1, <2>2 DEF span
<1> HIDE DEF half
<1>4. /\ p.current.start = oldest + half /\ p.current.end = newest + 1
      /\ p.previous.end = oldest + half
  BY <1>2 DEF Windows, Window
<1>5. In(newest, p.current)
  BY <1>1, <1>3, <1>4 DEF In
<1>6. KeepsNewest(p, moments)
  BY <1>4, <1>5 DEF KeepsNewest, newest
<1>7. Apart(p)
  BY <1>1, <1>3, <1>4 DEF Apart
<1> QED
  BY <1>6, <1>7 DEF p, newest, oldest

LEMMA CustomWindows ==
    ASSUME NEW config \in [currentStart : Int, currentEnd : Int,
                           previousStart : Int, previousEnd : Int]
    PROVE  LET p == ResolveCustom(config) IN p.failed = "no" => Apart(p)
<1> DEFINE end == config.currentEnd + TicksPerDay
           given == config.previousStart >= 0 /\ config.previousEnd >= 0
           start == IF given THEN config.previousStart
                    ELSE config.currentStart - (end - config.currentStart)
           stop == IF given THEN config.previousEnd + TicksPerDay ELSE config.currentStart
           refused == \/ config.currentStart < 0 \/ config.currentEnd < 0
                      \/ end <= config.currentStart
                      \/ given /\ stop <= start
                      \/ stop > config.currentStart
           p == ResolveCustom(config)
<1>1. p = IF refused THEN Failed("RCA_CUSTOM_PERIOD_INVALID")
          ELSE Windows(Window(config.currentStart, end), Window(start, stop), Nothing)
  BY DEF ResolveCustom
<1>2. stop \in Int /\ config.currentStart \in Int
  BY YearsAre
<1>3. ~refused => stop <= config.currentStart
  BY <1>2
<1> HIDE DEF p, stop, start, end, refused
<1>4. refused => p.failed # "no"
  BY <1>1 DEF Failed
<1>5. ~refused => p.current.start = config.currentStart /\ p.previous.end = stop
  BY <1>1 DEF Windows, Window
<1>6. p.failed = "no" => Apart(p)
  BY <1>2, <1>3, <1>4, <1>5 DEF Apart
<1> QED
  BY <1>6 DEF p

\* The resolution of any comparison over any moments of the calendar.
LEMMA PeriodsKeepNewest ==
    ASSUME NEW moments \in SUBSET Nat, moments # {}, \A t \in moments : Covered(t),
           NEW comparison \in Grain \cup {"period", "custom"}, NEW frequency \in Frequency,
           NEW config \in [currentStart : Int, currentEnd : Int,
                           previousStart : Int, previousEnd : Int]
    PROVE  LET p == ResolvePeriods(comparison, config, frequency,
                                   Oldest(moments), Newest(moments))
           IN  p.failed = "no" =>
                 Apart(p) /\ (comparison # "custom" => KeepsNewest(p, moments))
<1> DEFINE oldest == Oldest(moments)
           newest == Newest(moments)
           p == ResolvePeriods(comparison, config, frequency, oldest, newest)
           grain == IF comparison = "period" THEN frequency ELSE comparison
<1>1. /\ Oldest(moments) \in moments /\ Newest(moments) \in moments
      /\ Oldest(moments) <= Newest(moments)
  <2>1. Oldest(moments) \in moments /\ \A u \in moments : Oldest(moments) <= u
    BY OldestIs
  <2>2. \E B \in Nat : \A t \in moments : t < B
    <3> DEFINE B == YearStart[LastYear + 1] * TicksPerDay
    <3>1. B \in Nat
      <4>1. LastYear + 1 \in Years
        BY YearsAre
      <4> QED
        BY <4>1, YearStartIs, YearsAre
    <3>2. \A t \in moments : t < B
      BY DEF Covered
    <3> HIDE DEF B
    <3> QED
      BY <3>1, <3>2
  <2>3. Newest(moments) \in moments
    BY <2>2, NewestIs
  <2> QED
    BY <2>1, <2>3
<1>2. CASE comparison = "custom"
  <2>1. p = ResolveCustom(config)
    BY <1>2 DEF ResolvePeriods
  <2> QED
    BY <1>2, <2>1, CustomWindows
<1>3. CASE comparison # "custom" /\ grain = "unknown"
  <2>1. p = ResolveEqualSpan(oldest, newest)
    BY <1>3 DEF ResolvePeriods
  <2> QED
    BY <1>1, <2>1, EqualSpanWindows
<1>4. CASE comparison # "custom" /\ grain # "unknown"
  <2>1. p = IF frequency # "unknown" /\ ShiftRaises(newest, frequency, 1)
            THEN Failed("ValueError")
            ELSE ResolveCalendar(BucketStart(newest, grain), grain, frequency, oldest, newest)
    BY <1>4 DEF ResolvePeriods
  <2>2. grain \in Grain
    BY <1>4 DEF Frequency
  <2> HIDE DEF grain
  <2>3. CASE frequency # "unknown" /\ ShiftRaises(newest, frequency, 1)
    <3>1. p = Failed("ValueError")
      BY <2>1, <2>3
    <3>2. p.failed # "no"
      BY <3>1 DEF Failed
    <3> QED
      BY <3>2
  <2>4. CASE ~(frequency # "unknown" /\ ShiftRaises(newest, frequency, 1))
    <3>1. p = ResolveCalendar(BucketStart(newest, grain), grain, frequency, oldest, newest)
      BY <2>1, <2>4
    <3> QED
      BY <1>1, <2>2, <3>1, CalendarWindows
  <2> QED
    BY <2>3, <2>4
<1> QED
  BY <1>2, <1>3, <1>4

-----------------------------------------------------------------------------
(***************************************************************************)
(* The analysis: the windows are resolved once, for the file in hand.      *)
(***************************************************************************)

Unresolved == {"idle", "describe", "bounds"}
WindowsInv ==
    /\ IF rcaStage = "idle" THEN task = {} ELSE \E a \in Analyses : task = {a}
    /\ rcaStage \in Unresolved => windows = Failed("no")
    /\ NewestAccountedFor

LEMMA TheIs ==
    ASSUME NEW a \in Analyses, task = {a}
    PROVE  /\ The = a /\ a \in Analysis
           /\ \A i \in DOMAIN a.rows : a.rows[i].at = -1 \/ Covered(a.rows[i].at)
           /\ Moments \in SUBSET Nat /\ \A t \in Moments : Covered(t)
<1>1. The = a
  BY DEF The
<1>2. /\ a \in Analysis
      /\ \A i \in DOMAIN a.rows : a.rows[i].at = -1 \/ Covered(a.rows[i].at)
  BY RootCauseAssumption DEF RootCauseAssumption
<1>3. a.rows \in Seq(Row)
  BY <1>2 DEF Analysis
<1>4. \A i \in DOMAIN a.rows : a.rows[i].at \in Int
  <2>1. \A i \in DOMAIN a.rows : a.rows[i] \in Row
    BY <1>3
  <2> QED
    BY <2>1 DEF Row
<1>5. ASSUME NEW t \in Moments PROVE t \in Nat /\ Covered(t)
  <2>1. PICK i \in Dated : t = The.rows[i].at
    BY DEF Moments
  <2>2. i \in DOMAIN a.rows /\ t = a.rows[i].at /\ t >= 0
    BY <1>1, <2>1 DEF Dated, Base
  <2>3. t \in Int /\ t # -1
    BY <1>4, <2>2
  <2> QED
    BY <1>2, <2>2, <2>3
<1> QED
  BY <1>1, <1>2, <1>5

\* The file in hand stays, and so do its moments.
LEMMA MomentsStay == ASSUME task' = task PROVE The' = The /\ Moments' = Moments
<1>1. The' = The
  BY DEF The
<1>2. Base' = Base
  BY <1>1 DEF Base, Passes
<1>3. Dated' = Dated
  BY <1>1, <1>2 DEF Dated
<1>4. Moments' = Moments
  BY <1>1, <1>3 DEF Moments
<1> QED
  BY <1>1, <1>4

LEMMA WindowsStay ==
    ASSUME NewestAccountedFor, UNCHANGED <<task, windows>> PROVE NewestAccountedFor'
<1>1. The' = The /\ Moments' = Moments /\ task' = task /\ windows' = windows
  BY MomentsStay
<1> QED
  BY <1>1 DEF NewestAccountedFor

LEMMA NothingResolved == ASSUME windows = Failed("no") PROVE NewestAccountedFor
  BY DEF NewestAccountedFor, Failed

LEMMA WindowsStep == ASSUME WindowsInv, [RcaNext]_rcaVars PROVE WindowsInv'
<1>1. CASE UNCHANGED rcaVars
  <2>1. UNCHANGED <<rcaStage, task, windows>>
    BY <1>1 DEF rcaVars, rcaResult
  <2>2. NewestAccountedFor'
    BY <2>1, WindowsStay DEF WindowsInv
  <2> QED
    BY <2>1, <2>2 DEF WindowsInv
<1>2. ASSUME NEW a \in Analyses, StartAnalysis(a) PROVE WindowsInv'
  <2>1. rcaStage = "idle" /\ task' = {a} /\ rcaStage' = "describe" /\ windows' = windows
    BY <1>2 DEF StartAnalysis, Go
  <2>2. windows' = Failed("no")
    BY <2>1 DEF WindowsInv, Unresolved
  <2>3. NewestAccountedFor'
    BY <2>2 DEF NewestAccountedFor, Failed
  <2> QED
    BY <2>1, <2>2, <2>3 DEF WindowsInv
<1>3. ASSUME UNCHANGED <<task, windows>>, rcaStage # "idle", rcaStage' # "idle",
             rcaStage' \in Unresolved => rcaStage \in Unresolved
      PROVE  WindowsInv'
  <2>1. NewestAccountedFor'
    BY <1>3, WindowsStay DEF WindowsInv
  <2> QED
    BY <1>3, <2>1 DEF WindowsInv
<1>4. CASE Bounds
  <2>1. rcaStage = "bounds" /\ task' = task
    BY <1>4 DEF Bounds
  <2>2. PICK a \in Analyses : task = {a}
    BY <2>1 DEF WindowsInv
  <2>3. windows = Failed("no")
    BY <2>1 DEF WindowsInv, Unresolved
  <2>4. \/ windows' = windows /\ rcaStage' = "done"
        \/ Dated # {} /\ windows' = Resolved(Moments) /\ rcaStage' \in {"done", "totals"}
    BY <1>4 DEF Bounds, Finish, Go
  <2>5. CASE windows' = windows /\ rcaStage' = "done"
    BY <1>3, <2>1, <2>5 DEF Unresolved
  <2>6. CASE Dated # {} /\ windows' = Resolved(Moments) /\ rcaStage' \in {"done", "totals"}
    <3>1. Moments \in SUBSET Nat /\ (\A t \in Moments : Covered(t)) /\ a \in Analysis /\ The = a
      BY <2>2, TheIs
    <3>2. Moments # {}
      BY <2>6 DEF Moments
    <3>3. /\ The.comparison \in Grain \cup {"period", "custom"} /\ The.frequency \in Frequency
          /\ The.config \in [currentStart : Int, currentEnd : Int,
                             previousStart : Int, previousEnd : Int]
      BY <3>1 DEF Analysis
    <3>4. windows' = ResolvePeriods(The.comparison, The.config, The.frequency,
                                    Oldest(Moments), Newest(Moments))
      BY <2>6 DEF Resolved
    <3>5. windows'.failed = "no" =>
             Apart(windows') /\ (The.comparison # "custom" => KeepsNewest(windows', Moments))
      BY <3>1, <3>2, <3>3, <3>4, PeriodsKeepNewest
    <3>6. The' = The /\ Moments' = Moments
      BY <2>1, MomentsStay
    <3>7. NewestAccountedFor'
      <4>1. ASSUME windows'.failed = "no", NEW t \in Moments
            PROVE  ~(In(t, windows'.current) /\ In(t, windows'.previous))
        <5>1. t \in Nat /\ Apart(windows')
          BY <3>1, <3>5, <4>1
        <5> QED
          BY <5>1 DEF Apart, In
      <4>2. ASSUME windows'.failed = "no", The.comparison # "custom"
            PROVE  KeepsNewest(windows', Moments)
        BY <3>5, <4>2
      <4> QED
        BY <3>6, <4>1, <4>2 DEF NewestAccountedFor, KeepsNewest
    <3> QED
      BY <2>1, <2>2, <2>6, <3>7 DEF WindowsInv, Unresolved
  <2> QED
    BY <2>4, <2>5, <2>6
<1>5. CASE Describe
  <2>1. UNCHANGED <<task, windows>> /\ rcaStage = "describe"
    BY <1>5 DEF Describe
  <2>2. rcaStage' # "idle"
    BY <1>5 DEF Describe, Finish, Go
  <2> QED
    BY <1>3, <2>1, <2>2 DEF Unresolved
<1>6. CASE Total
  <2>1. UNCHANGED <<task, windows>> /\ rcaStage = "totals"
    BY <1>6 DEF Total
  <2>2. rcaStage' \in {"done", "breakdown"}
    BY <1>6 DEF Total, Finish, Go
  <2> QED
    BY <1>3, <2>1, <2>2 DEF Unresolved
<1>7. CASE BreakDown
  <2>1. UNCHANGED <<task, windows>> /\ rcaStage = "breakdown"
    BY <1>7 DEF BreakDown
  <2>2. rcaStage' \in {"done", "nodes"}
    BY <1>7 DEF BreakDown, Finish, Go
  <2> QED
    BY <1>3, <2>1, <2>2 DEF Unresolved
<1>8. CASE BuildLevel
  <2>1. UNCHANGED <<task, windows>> /\ rcaStage = "nodes"
    BY <1>8 DEF BuildLevel
  <2>2. rcaStage' \in {"done", "drill"}
    BY <1>8 DEF BuildLevel, Finish, Go
  <2> QED
    BY <1>3, <2>1, <2>2 DEF Unresolved
<1>9. CASE DrillNode
  <2>1. UNCHANGED <<task, windows, rcaStage>> /\ rcaStage = "drill"
    BY <1>9 DEF DrillNode
  <2> QED
    BY <1>3, <2>1 DEF Unresolved
<1>10. CASE Conclude
  <2>1. UNCHANGED <<task, windows>> /\ rcaStage = "drill" /\ rcaStage' = "done"
    BY <1>10 DEF Conclude, Finish
  <2> QED
    BY <1>3, <2>1 DEF Unresolved
<1>11. CASE StatementFails
  <2>1. UNCHANGED <<task, windows>> /\ rcaStage # "idle" /\ rcaStage' = "done"
    BY <1>11 DEF StatementFails, Finish
  <2> QED
    BY <1>3, <2>1 DEF Unresolved
<1> QED
  BY <1>1, <1>2, <1>4, <1>5, <1>6, <1>7, <1>8, <1>9, <1>10, <1>11 DEF RcaNext, RcaStep

\* Whatever rows a file has and whatever is compared: no row is in both windows, the
\* windows adjoin, and the newest row is in the current one or in the unfinished period
\* after it, with older rows to compare.
THEOREM NewestIsKept == RcaSpec => []NewestAccountedFor
<1>1. RcaInit => WindowsInv
  <2> SUFFICES ASSUME RcaInit PROVE WindowsInv
    OBVIOUS
  <2>1. rcaStage = "idle" /\ task = {} /\ windows = Failed("no")
    BY DEF RcaInit
  <2> QED
    BY <2>1, NothingResolved DEF WindowsInv
<1>2. WindowsInv /\ [RcaNext]_rcaVars => WindowsInv'
  BY WindowsStep
<1>3. WindowsInv => NewestAccountedFor
  BY DEF WindowsInv
<1> QED
  BY <1>1, <1>2, <1>3, PTL DEF RcaSpec

-----------------------------------------------------------------------------
(***************************************************************************)
(* The analysis in hand, and the segments a statement finds.               *)
(***************************************************************************)

Path == Seq(Dimension \X Segment)

\* The analysis in hand is one that can be asked for.
Given ==
    /\ The \in Analysis /\ The.limit > 0 /\ The.maxDrivers > 0
    /\ \A i, j \in DOMAIN The.dimensions : The.dimensions[i] = The.dimensions[j] => i = j

LEMMA GivenIs ==
    ASSUME NEW a \in Analyses, task = {a} PROVE Given /\ The = a
<1>1. The = a
  BY DEF The
<1> QED
  BY <1>1, RootCauseAssumption DEF RootCauseAssumption, Given

LEMMA GivenFields ==
    ASSUME Given
    PROVE  /\ The.rows \in Seq(Row) /\ The.dimensions \in Seq(Dimension)
           /\ The.limit \in Nat \ {0} /\ The.maxDrivers \in Nat \ {0} /\ The.maxDepth \in Nat
  BY DEF Given, Analysis

\* No two places of a list hold the same.
Once(f) == \A i, j \in DOMAIN f : f[i] = f[j] => i = j

\* What is chosen of the dimensions.
LEMMA DimensionsPicked ==
    ASSUME Given, NEW order \in Seq(Dimension), Once(order), NEW places \in SUBSET (DOMAIN order)
    PROVE  Picked(order, places) \in Seq(Dimension) /\ Once(Picked(order, places))
           /\ ToSet(Picked(order, places)) = {order[i] : i \in places}
<1> DEFINE p == Picked(order, places)
<1>1. p \in Seq(Dimension) /\ ToSet(p) = {order[i] : i \in places}
  BY PickedIs
<1>2. PICK o : Lists(o, places) /\ DOMAIN p = DOMAIN o /\ \A k \in DOMAIN o : p[k] = order[o[k]]
  BY PickedIs
<1> HIDE DEF p
<1>3. ASSUME NEW i \in DOMAIN p, NEW j \in DOMAIN p, p[i] = p[j] PROVE i = j
  <2>1. o[i] \in places /\ o[j] \in places
    BY <1>2 DEF Lists, ToSet
  <2>2. o[i] = o[j]
    BY <1>2, <1>3, <2>1 DEF Once
  <2> QED
    BY <1>2, <2>2 DEF Lists
<1> QED
  BY <1>1, <1>3 DEF p, Once

LEMMA UsableIs ==
    ASSUME Given
    PROVE  Usable \in Seq(Dimension) /\ Once(Usable) /\ UsableSet = ToSet(Usable)
           /\ UsableSet \subseteq Dimension
<1>1. The.dimensions \in Seq(Dimension) /\ Once(The.dimensions)
  BY GivenFields DEF Given, Once
<1> DEFINE places == {i \in DOMAIN The.dimensions : The.dimensions[i] \in The.present}
<1>2. places \in SUBSET (DOMAIN The.dimensions)
  OBVIOUS
<1>3. Usable = Picked(The.dimensions, places)
  BY DEF Usable, Chosen
<1> HIDE DEF places
<1>4. Usable \in Seq(Dimension) /\ Once(Usable)
  BY <1>1, <1>2, <1>3, DimensionsPicked
<1>5. UsableSet = ToSet(Usable)
  BY DEF UsableSet, ToSet
<1>6. ToSet(Usable) \subseteq Dimension
  BY <1>4 DEF ToSet
<1> QED
  BY <1>4, <1>5, <1>6

LEMMA RemainingIs ==
    ASSUME Given, NEW path
    PROVE  Remaining(path) \in Seq(Dimension) /\ Once(Remaining(path))
           /\ ToSet(Remaining(path)) \subseteq UsableSet
<1>1. Usable \in Seq(Dimension) /\ Once(Usable) /\ UsableSet = ToSet(Usable)
  BY UsableIs
<1> DEFINE places == {i \in DOMAIN Usable : Usable[i] \notin {path[k][1] : k \in DOMAIN path}}
<1>2. places \in SUBSET (DOMAIN Usable)
  OBVIOUS
<1>3. Remaining(path) = Picked(Usable, places)
  BY DEF Remaining, Chosen
<1> HIDE DEF places
<1>4. /\ Remaining(path) \in Seq(Dimension) /\ Once(Remaining(path))
      /\ ToSet(Remaining(path)) = {Usable[i] : i \in places}
  BY <1>1, <1>2, <1>3, DimensionsPicked
<1> QED
  BY <1>1, <1>2, <1>4 DEF ToSet

\* The rows have a segment d of their own called like the bucket of the rest.
HasBucket(d) == \E i \in DOMAIN The.rows : The.rows[i].segment[d] = OtherBucket

\* The groups of one dimension: no two of one segment.
IsGroups(groups, d) ==
    /\ groups \in Seq(ToSet(groups))
    /\ \A i \in DOMAIN groups : groups[i].dimension = d /\ groups[i].segment \in Segment
    /\ \A i, j \in DOMAIN groups :
          groups[i].segment = groups[j].segment =>
             i = j \/ (groups[i].segment = OtherBucket /\ HasBucket(d))

LEMMA BreakdownIs ==
    ASSUME Given, NEW d \in Dimension, NEW S \in SUBSET (DOMAIN The.rows)
    PROVE  LET groups == Breakdown(d, S)
           IN  /\ IsGroups(groups, d) /\ Len(groups) <= The.limit
               /\ \A i, j \in DOMAIN groups : groups[i].segment = groups[j].segment => i = j
               /\ \A i \in DOMAIN groups : groups[i].segment = OtherBucket => HasBucket(d)
<1> DEFINE inside == Within(S, windows.current) \cup Within(S, windows.previous)
           row == [i \in inside |-> The.rows[i].segment[d]]
           V == {row[i] : i \in inside}
           group == [s \in V |-> Group(d, s, S)]
           G == {group[s] : s \in V}
           ranked == SortedBy(G, MovesMore)
           groups == Breakdown(d, S)
<1>1. The.rows \in Seq(Row) /\ The.limit \in Nat
  BY GivenFields
<1>2. inside \subseteq DOMAIN The.rows
  BY DEF Within
<1>3. IsFiniteSet(inside)
  BY <1>1, <1>2, SequenceFinite, Fewer
<1>4. \A i \in inside : row[i] \in Segment
  <2>1. \A i \in DOMAIN The.rows : The.rows[i] \in Row
    BY <1>1
  <2> QED
    BY <1>2, <2>1 DEF Row
<1>5. groups = Firsts(ranked, The.limit)
  <2>1. {Group(d, s, S) : s \in {The.rows[i].segment[d] : i \in inside}} = G
    OBVIOUS
  <2> QED
    BY <2>1 DEF Breakdown
<1> HIDE DEF inside
<1>6. IsFiniteSet(V)
  <2>1. DOMAIN row = inside
    OBVIOUS
  <2> HIDE DEF row
  <2> QED
    BY <1>3, <2>1, ImageFinite
<1>7. V \subseteq Segment /\ \A s \in V : s = OtherBucket => HasBucket(d)
  BY <1>2, <1>4 DEF HasBucket
<1> HIDE DEF V
<1>8. IsFiniteSet(G)
  <2>1. DOMAIN group = V
    OBVIOUS
  <2> HIDE DEF group
  <2> QED
    BY <1>6, <2>1, ImageFinite
<1>9. \A s \in V : group[s].dimension = d /\ group[s].segment = s
  BY DEF Group, Labelled
<1> HIDE DEF group
<1>10. Lists(ranked, G)
  BY <1>8, ArrangedIs DEF SortedBy
<1> HIDE DEF ranked
<1>11. \A x \in G : \E s \in V : x = group[s]
  OBVIOUS
<1> HIDE DEF G
<1>12. /\ groups \in Seq(G) /\ Len(groups) <= The.limit
       /\ DOMAIN groups \subseteq DOMAIN ranked
       /\ \A i \in DOMAIN groups : groups[i] = ranked[i]
  BY <1>1, <1>5, <1>10, FirstsIs DEF Lists
<1> HIDE DEF groups
<1>13. \A i \in DOMAIN groups : \E s \in V : groups[i] = group[s] /\ groups[i].segment = s /\ groups[i].dimension = d
  BY <1>9, <1>11, <1>12
<1>14. \A i, j \in DOMAIN groups : groups[i].segment = groups[j].segment => i = j
  <2> SUFFICES ASSUME NEW i \in DOMAIN groups, NEW j \in DOMAIN groups,
                      groups[i].segment = groups[j].segment
               PROVE  i = j
    OBVIOUS
  <2>1. groups[i] = groups[j]
    BY <1>13
  <2> QED
    BY <1>10, <1>12, <2>1 DEF Lists
<1>15. groups \in Seq(ToSet(groups))
  BY <1>12 DEF ToSet
<1>16. \A i \in DOMAIN groups : groups[i].dimension = d /\ groups[i].segment \in Segment
         /\ (groups[i].segment = OtherBucket => HasBucket(d))
  BY <1>7, <1>13
<1> QED
  BY <1>12, <1>14, <1>15, <1>16 DEF IsGroups, groups

-----------------------------------------------------------------------------
(***************************************************************************)
(* The inductive invariant of an analysis.                                 *)
(***************************************************************************)

\* A node is a record of its fields, whatever they hold.
Fields(n) ==
    [path : {n.path}, change : {n.change}, contribution : {n.contribution},
     excess : {n.excess}, rows : {n.rows}, born : {n.born}, gone : {n.gone},
     other : {n.other}, thin : {n.thin}, class : {n.class}, ranked : {n.ranked},
     stop : {n.stop}, child : {n.child}, split : {n.split}]

\* Two nodes of one path are one, unless the file has a segment called like the bucket.
Twins(m, n) == m.path = n.path /\ m.other /\ n.other /\ HasBucket(m.path[1][1])

\* The nodes of one dimension under a path.
Siblings(nodes, d, path) ==
    /\ nodes \in Seq(ToSet(nodes))
    /\ \A i \in DOMAIN nodes :
         /\ nodes[i] \in Fields(nodes[i])
         /\ \E s \in Segment : nodes[i].path = Append(path, <<d, s>>)
         /\ nodes[i].other => path = <<>>
    /\ \A i, j \in DOMAIN nodes :
         nodes[i].path = nodes[j].path => i = j \/ Twins(nodes[i], nodes[j])

\* The statements, what was drilled into, and how paths relate.
Purposes == {"describe_relation", "project_base_table", "resolve_period_bounds",
    "kpi_period_totals", "dimension_breakdown", "distinct_overlap_check",
    "drilldown_breakdown", "series_base_table", "series_bounds", "series_aggregate"}
StatementType == [purpose : Purposes, node : Path]
Drills == {i \in DOMAIN trace : trace[i].purpose = "drilldown_breakdown"}
DrilledPaths == {trace[i].node : i \in Drills}
TreePaths == {n.path : n \in tree}
Extends(p, q) == Len(q) < Len(p) /\ SubSeq(p, 1, Len(q)) = q
OfLength(P, k) == {p \in P : Len(p) = k}
BelowFirst == Branching[IF Len(Branching) > 1 THEN 2 ELSE 1]

Early == {"idle", "describe", "bounds", "totals", "breakdown", "nodes"}
Shaped ==
    /\ IF rcaStage = "idle" THEN task = {} ELSE \E a \in Analyses : task = {a}
    /\ rcaStage \in Early =>
         level = <<>> /\ tree = {} /\ queue = <<>> /\ drivers = NoDrivers /\ Drills = {}
    /\ trace \in Seq(StatementType)
    /\ rcaStage = "nodes" \/ level # <<>> =>
         \E i \in DOMAIN trace : trace[i] = Statement("dimension_breakdown", <<>>)

LevelListed ==
    level # <<>> =>
        DOMAIN level = UsableSet /\ \A d \in UsableSet : Siblings(level[d], d, <<>>)

\* A node of the tree: one of the level, or found by the statement that drilled into its
\* parent.
Grown(n) ==
    /\ n \in Fields(n) /\ n.path \in Path /\ n.path # <<>>
    /\ Len(n.path) = 1 =>
         /\ level # <<>> /\ n.path[1][1] \in UsableSet
         /\ \E i \in DOMAIN level[n.path[1][1]] :
              LET m == level[n.path[1][1]][i]
              IN  /\ m.path = n.path /\ m.contribution = n.contribution
                  /\ n.contribution # {} \/ n.other => Material(m)
    /\ Len(n.path) > 1 => Front(n.path) \in DrilledPaths /\ ~n.other
TreeGrown ==
    /\ IsFiniteSet(tree)
    /\ \A n \in tree : Grown(n)
    /\ \A m, n \in tree : m.path = n.path => m = n \/ Twins(m, n)

\* A driver is a node of the level that was ranked.
Driver(n) ==
    /\ n \in Fields(n) /\ n.path \in Path /\ Len(n.path) = 1
    /\ level # <<>> /\ n.path[1][1] \in UsableSet
    /\ \E i \in DOMAIN level[n.path[1][1]] :
         LET m == level[n.path[1][1]][i]
         IN  m.path = n.path /\ m.ranked /\ m.contribution # {}
DriverList(c) ==
    /\ c \in Seq(ToSet(c)) /\ \A i \in DOMAIN c : Driver(c[i])
    /\ \A i, j \in DOMAIN c : c[i].path = c[j].path => i = j
DriversListed ==
    DriverList(drivers.primary) /\ DriverList(drivers.secondary) /\ DriverList(drivers.offsetting)

\* A path waits once, nothing is known below it yet, and it was not drilled into before.
Waiting ==
    rcaStage = "drill" =>
        /\ queue \in Seq(Path) /\ Once(queue)
        /\ DrilledPaths \subseteq TreePaths
        /\ \A i \in DOMAIN queue :
             /\ queue[i] \in TreePaths /\ queue[i] \notin DrilledPaths
             /\ \A p \in TreePaths : ~Extends(p, queue[i])

\* What was drilled into or waits, by depth.
Counted ==
    /\ \A i, j \in Drills : trace[i].node = trace[j].node => i = j
    /\ \A p \in DrilledPaths : p # <<>> /\ Len(p) < The.maxDepth
    /\ queue \in Seq(Path)
    /\ Cardinality(OfLength(DrilledPaths \cup ToSet(queue), 1)) <= Branching[1]
    /\ Cardinality(OfLength(DrilledPaths \cup ToSet(queue), 2))
         <= BelowFirst * Cardinality(OfLength(DrilledPaths, 1))

RcaInv ==
    Shaped /\ LevelListed /\ TreeGrown /\ DriversListed /\ Waiting /\ Counted
-----------------------------------------------------------------------------
(***************************************************************************)
(* Nodes.                                                                  *)
(***************************************************************************)

LEMMA StoppedIs ==
    ASSUME NEW n, n \in Fields(n), NEW s
    PROVE  LET p == [n EXCEPT !.stop = s]
           IN  /\ p \in Fields(p) /\ p.path = n.path /\ p.contribution = n.contribution
               /\ p.other = n.other /\ p.class = n.class /\ p.ranked = n.ranked
  BY DEF Fields

LEMMA ParentIs ==
    ASSUME NEW n, n \in Fields(n), NEW c, NEW s
    PROVE  LET p == [n EXCEPT !.child = c, !.split = s]
           IN  /\ p \in Fields(p) /\ p.path = n.path /\ p.contribution = n.contribution
               /\ p.other = n.other /\ p.class = n.class /\ p.ranked = n.ranked
  BY DEF Fields

LEMMA NodeIs ==
    ASSUME NEW g, NEW path, NEW gross
    PROVE  LET n == Node(g, path, gross)
           IN  /\ n \in Fields(n) /\ n.path = Append(path, <<g.dimension, g.segment>>)
               /\ n.other = (path = <<>> /\ g.segment = OtherBucket)
               /\ n.class = IF n.other THEN "residual" ELSE "immaterial"
<1> DEFINE n == Node(g, path, gross)
<1>1. n \in Fields(n)
  BY DEF Node, Fields
<1>2. /\ n.path = Append(path, <<g.dimension, g.segment>>)
      /\ n.other = (path = <<>> /\ g.segment = OtherBucket)
      /\ n.class = IF path = <<>> /\ g.segment = OtherBucket THEN "residual" ELSE "immaterial"
  BY DEF Node
<1> QED
  BY <1>1, <1>2

\* Nodes nothing was decided about yet.
Candidates(nodes, d, path) ==
    /\ Siblings(nodes, d, path)
    /\ \A i \in DOMAIN nodes :
          nodes[i].class = IF nodes[i].other THEN "residual" ELSE "immaterial"

\* A path and one step more.
LEMMA StepIs ==
    ASSUME NEW T, NEW path \in Seq(T), NEW a \in T
    PROVE  /\ Append(path, a) \in Seq(T) /\ Len(Append(path, a)) = Len(path) + 1
           /\ Append(path, a)[Len(path) + 1] = a
           /\ \A i \in DOMAIN path : Append(path, a)[i] = path[i]
           /\ SubSeq(Append(path, a), 1, Len(path)) = path /\ Front(Append(path, a)) = path
<1>1. /\ Append(path, a) \in Seq(T) /\ Len(Append(path, a)) = Len(path) + 1
      /\ Append(path, a)[Len(path) + 1] = a
      /\ \A i \in 1..Len(path) : Append(path, a)[i] = path[i]
      /\ DOMAIN path = 1..Len(path) /\ Len(path) \in Nat
  OBVIOUS
<1> DEFINE q == Append(path, a)
<1> HIDE DEF q
<1>2. SubSeq(q, 1, Len(path)) = path
  <2>1. SubSeq(q, 1, Len(path)) = [i \in 1..Len(path) |-> q[i]]
    BY <1>1 DEF q
  <2>2. path = [i \in 1..Len(path) |-> path[i]]
    OBVIOUS
  <2>3. [i \in 1..Len(path) |-> q[i]] = [i \in 1..Len(path) |-> path[i]]
    BY <1>1 DEF q
  <2> QED
    BY <2>1, <2>2, <2>3
<1>3. Front(q) = SubSeq(q, 1, Len(path))
  BY <1>1 DEF Front, q
<1> QED
  BY <1>1, <1>2, <1>3 DEF q

LEMMA NodesAreCandidates ==
    ASSUME NEW d \in Dimension, NEW path \in Path, NEW groups, IsGroups(groups, d),
           path # <<>> => \A i, j \in DOMAIN groups : groups[i].segment = groups[j].segment => i = j,
           NEW gross
    PROVE  Candidates(Nodes(groups, path, gross), d, path)
<1> DEFINE nodes == Nodes(groups, path, gross)
<1>1. groups \in Seq(ToSet(groups))
  BY DEF IsGroups
<1>2. DOMAIN nodes = DOMAIN groups /\ \A i \in DOMAIN groups : nodes[i] = Node(groups[i], path, gross)
  BY DEF Nodes
<1>3. nodes \in Seq(ToSet(nodes))
  <2>1. DOMAIN groups = 1..Len(groups) /\ Len(groups) \in Nat
    BY <1>1
  <2>2. nodes = [i \in DOMAIN groups |-> Node(groups[i], path, gross)]
    BY DEF Nodes
  <2> DEFINE f(i) == Node(groups[i], path, gross)
  <2>3. nodes = [i \in 1..Len(groups) |-> f(i)]
    BY <2>1, <2>2
  <2> HIDE DEF nodes, f
  <2>4. nodes \in [1..Len(groups) -> ToSet(nodes)]
    BY <2>3 DEF ToSet
  <2> QED
    BY <2>1, <2>4
<1> HIDE DEF nodes
<1>4. \A i \in DOMAIN nodes :
        /\ nodes[i] \in Fields(nodes[i])
        /\ groups[i].segment \in Segment
        /\ nodes[i].path = Append(path, <<d, groups[i].segment>>)
        /\ nodes[i].other = (path = <<>> /\ groups[i].segment = OtherBucket)
        /\ nodes[i].class = IF nodes[i].other THEN "residual" ELSE "immaterial"
  <2> SUFFICES ASSUME NEW i \in DOMAIN nodes
               PROVE  /\ nodes[i] \in Fields(nodes[i])
                      /\ groups[i].segment \in Segment
                      /\ nodes[i].path = Append(path, <<d, groups[i].segment>>)
                      /\ nodes[i].other = (path = <<>> /\ groups[i].segment = OtherBucket)
                      /\ nodes[i].class = IF nodes[i].other THEN "residual" ELSE "immaterial"
    OBVIOUS
  <2>1. nodes[i] = Node(groups[i], path, gross) /\ groups[i].dimension = d /\ groups[i].segment \in Segment
    BY <1>2 DEF IsGroups
  <2> QED
    BY <2>1, NodeIs
<1>5. ASSUME NEW i \in DOMAIN nodes, NEW j \in DOMAIN nodes, nodes[i].path = nodes[j].path
      PROVE  i = j \/ Twins(nodes[i], nodes[j])
  <2>1. <<d, groups[i].segment>> \in Dimension \X Segment /\ <<d, groups[j].segment>> \in Dimension \X Segment
    BY <1>4
  <2>2. /\ Append(path, <<d, groups[i].segment>>)[Len(path) + 1] = <<d, groups[i].segment>>
        /\ Append(path, <<d, groups[j].segment>>)[Len(path) + 1] = <<d, groups[j].segment>>
    BY <2>1, StepIs DEF Path
  <2>3. groups[i].segment = groups[j].segment
    BY <1>4, <1>5, <2>2
  <2>4. CASE path # <<>>
    BY <1>2, <2>3, <2>4
  <2>5. CASE path = <<>> /\ i # j
    <3>1. groups[i].segment = OtherBucket /\ groups[j].segment = OtherBucket /\ HasBucket(d)
      BY <1>2, <2>3, <2>5 DEF IsGroups
    <3>2. nodes[i].path[1] = <<d, groups[i].segment>>
      BY <1>4, <2>5
    <3>3. nodes[i].other /\ nodes[j].other
      BY <1>4, <2>5, <3>1
    <3>4. nodes[i].path[1][1] = d
      BY <3>2
    <3> QED
      BY <1>5, <3>1, <3>3, <3>4 DEF Twins
  <2> QED
    BY <2>4, <2>5
<1> QED
  BY <1>3, <1>4, <1>5 DEF Candidates, Siblings, nodes

LEMMA ResidualIs ==
    ASSUME Given, NEW d \in Dimension,
           NEW groups, IsGroups(groups, d),
           \A i, j \in DOMAIN groups : groups[i].segment = groups[j].segment => i = j,
           \A i \in DOMAIN groups : groups[i].segment = OtherBucket => HasBucket(d)
    PROVE  IsGroups(WithResidual(d, groups), d)
<1> DEFINE R == ResidualSegment(d, groups)
           rest == SetToSeq(R)
           all == groups \o rest
<1>1. R = {} \/ \E t : R = {Labelled(d, OtherBucket, t)}
  BY DEF ResidualSegment
<1>2. IsFiniteSet(R)
  <2>1. CASE R = {}
    BY <2>1, FS_EmptySet
  <2>2. CASE \E t : R = {Labelled(d, OtherBucket, t)}
    BY <2>2, FS_Singleton
  <2> QED
    BY <1>1, <2>1, <2>2
<1>3. \A x \in R : x.dimension = d /\ x.segment = OtherBucket
  BY <1>1 DEF Labelled
<1>4. \A x, y \in R : x = y
  BY <1>1
<1> HIDE DEF R
<1>5. Lists(rest, R)
  BY <1>2, SetToSeqIs
<1> HIDE DEF rest
<1> DEFINE T == ToSet(groups) \cup R
<1>6. groups \in Seq(T) /\ rest \in Seq(T)
  BY <1>5 DEF Lists, IsGroups
<1>7. /\ all \in Seq(T) /\ ToSet(all) = ToSet(groups) \cup ToSet(rest)
      /\ \A i \in DOMAIN all :
           \/ i \in DOMAIN groups /\ all[i] = groups[i]
           \/ i - Len(groups) \in DOMAIN rest /\ all[i] = rest[i - Len(groups)]
      /\ DOMAIN all = 1..Len(all) /\ Len(all) \in Nat /\ Len(groups) \in Nat
  BY <1>6, ConcatIs
<1>8. \A i \in DOMAIN rest : rest[i] \in R
  BY <1>5 DEF Lists
<1> HIDE DEF T, all
<1>9. all \in Seq(ToSet(all))
  BY <1>7 DEF ToSet
<1>10. OtherBucket \in Segment
  BY RootCauseAssumption DEF RootCauseAssumption
<1>11. \A i \in DOMAIN all : all[i].dimension = d /\ all[i].segment \in Segment
  BY <1>3, <1>7, <1>8, <1>10 DEF IsGroups
<1>12. ASSUME NEW i \in DOMAIN all, NEW j \in DOMAIN all, all[i].segment = all[j].segment
       PROVE  i = j \/ (all[i].segment = OtherBucket /\ HasBucket(d))
  <2>1. CASE i \in DOMAIN groups /\ all[i] = groups[i] /\ j \in DOMAIN groups /\ all[j] = groups[j]
    BY <1>12, <2>1
  <2>2. CASE i - Len(groups) \in DOMAIN rest /\ all[i] = rest[i - Len(groups)]
             /\ j - Len(groups) \in DOMAIN rest /\ all[j] = rest[j - Len(groups)]
    <3>1. i - Len(groups) = j - Len(groups)
      BY <1>4, <1>5, <1>8, <2>2 DEF Lists
    <3> QED
      BY <1>7, <3>1
  <2>3. CASE i \in DOMAIN groups /\ all[i] = groups[i]
             /\ j - Len(groups) \in DOMAIN rest /\ all[j] = rest[j - Len(groups)]
    BY <1>3, <1>8, <1>12, <2>3
  <2>4. CASE j \in DOMAIN groups /\ all[j] = groups[j]
             /\ i - Len(groups) \in DOMAIN rest /\ all[i] = rest[i - Len(groups)]
    BY <1>3, <1>8, <1>12, <2>4
  <2> QED
    BY <1>7, <2>1, <2>2, <2>3, <2>4
<1>13. IsGroups(all, d)
  BY <1>9, <1>11, <1>12 DEF IsGroups
<1>14. CASE Len(groups) < The.limit
  <2>1. WithResidual(d, groups) = groups \o <<>>
    BY <1>14 DEF WithResidual
  <2>2. groups \o <<>> = groups
    BY DEF IsGroups
  <2> QED
    BY <2>1, <2>2
<1>15. CASE ~(Len(groups) < The.limit)
  <2>1. WithResidual(d, groups) = all
    BY <1>15 DEF WithResidual, all, rest, R
  <2> QED
    BY <1>13, <2>1
<1> QED
  BY <1>14, <1>15

\* The first level of a dimension, and what a statement finds under a path.
LEMMA LevelIs ==
    ASSUME Given, NEW d \in Dimension
    PROVE  Candidates(LevelNodes(WithResidual(d, Breakdown(d, Base))), d, <<>>)
<1> DEFINE groups == Breakdown(d, Base)
<1>1. Base \in SUBSET (DOMAIN The.rows)
  BY DEF Base
<1>2. /\ IsGroups(groups, d)
      /\ \A i, j \in DOMAIN groups : groups[i].segment = groups[j].segment => i = j
      /\ \A i \in DOMAIN groups : groups[i].segment = OtherBucket => HasBucket(d)
  BY <1>1, BreakdownIs
<1> HIDE DEF groups
<1>3. IsGroups(WithResidual(d, groups), d)
  BY <1>2, ResidualIs
<1>4. <<>> \in Path
  BY DEF Path
<1>5. Candidates(Nodes(WithResidual(d, groups), <<>>, GrossMovement(WithResidual(d, groups))), d, <<>>)
  BY <1>3, <1>4, NodesAreCandidates
<1> QED
  BY <1>5 DEF LevelNodes, groups

LEMMA UnderIs ==
    ASSUME Given, NEW d \in Dimension, NEW path \in Path, path # <<>>
    PROVE  Candidates(NodesUnder(path, Breakdown(d, Under(path))), d, path)
<1> DEFINE groups == Breakdown(d, Under(path))
<1>1. Under(path) \in SUBSET (DOMAIN The.rows)
  BY DEF Under, Base
<1>2. /\ IsGroups(groups, d)
      /\ \A i, j \in DOMAIN groups : groups[i].segment = groups[j].segment => i = j
  BY <1>1, BreakdownIs
<1> HIDE DEF groups
<1>3. Candidates(Nodes(groups, path, Denominator(path, groups)), d, path)
  BY <1>2, NodesAreCandidates
<1> QED
  BY <1>3 DEF NodesUnder, groups

-----------------------------------------------------------------------------
(***************************************************************************)
(* What is chosen of the nodes.                                            *)
(***************************************************************************)

LEMMA RankedIs == ASSUME NEW S, IsFiniteSet(S) PROVE Lists(Ranked(S), S)
  BY ArrangedIs DEF Ranked, SortedBy

LEMMA FirstsOnce ==
    ASSUME NEW S, NEW s, Lists(s, S), NEW n \in Nat
    PROVE  Firsts(s, n) \in Seq(S) /\ Once(Firsts(s, n)) /\ Len(Firsts(s, n)) <= n
<1>1. s \in Seq(S) /\ \A i, j \in DOMAIN s : s[i] = s[j] => i = j
  BY DEF Lists
<1> QED
  BY <1>1, FirstsIs DEF Once

LEMMA ParetoIs ==
    ASSUME Given, NEW S, NEW seq \in Seq(S) PROVE \E n \in Nat : Pareto(seq) = Firsts(seq, n)
<1> DEFINE reach == {k \in DOMAIN seq : AtMost(ParetoTarget, SumOver(1..k, LAMBDA i : Share(seq[i])))}
           first == IF reach = {} THEN Len(seq) ELSE CHOOSE k \in reach : \A j \in reach : k <= j
<1>1. The.maxDrivers \in Nat
  BY GivenFields
<1>2. first \in Nat
  <2>1. reach \subseteq Nat
    <3>1. reach \subseteq DOMAIN seq
      OBVIOUS
    <3> HIDE DEF reach
    <3> QED
      BY <3>1
  <2> HIDE DEF reach
  <2>2. reach # {} => \E k \in reach : \A j \in reach : k <= j
    BY <2>1, LeastOf
  <2>3. CASE reach = {}
    BY <2>3
  <2>4. CASE reach # {}
    <3>1. first \in reach
      BY <2>2, <2>4
    <3> QED
      BY <2>1, <3>1
  <2> QED
    BY <2>3, <2>4
<1>3. Pareto(seq) = Firsts(seq, IF first < The.maxDrivers THEN first ELSE The.maxDrivers)
  BY DEF Pareto
<1> QED
  BY <1>1, <1>2, <1>3

\* Drivers are scored nodes, each once.
LEMMA ClassifiedIs ==
    ASSUME Given, NEW N, IsFiniteSet(N)
    PROVE  LET c == Classified(N)
           IN  /\ c.primary \in Seq(Scored(N)) /\ Once(c.primary)
               /\ c.secondary \in Seq(Scored(N)) /\ Once(c.secondary)
               /\ c.offsetting \in Seq(Scored(N)) /\ Once(c.offsetting)
<1> DEFINE material == {n \in Scored(N) : AtMost(MinMaterial, Share(n))}
           against == {n \in Scored(N) : AtMost(MinMaterial, Minus(Zero, Share(n)))}
           primary == Pareto(Ranked(Supported(material)))
           rest == material \ ToSet(primary)
           c == Classified(N)
<1>1. /\ c.primary = primary
      /\ c.secondary = Firsts(Ranked(rest), The.maxDrivers)
      /\ c.offsetting = Firsts(Ranked(against), The.maxDrivers)
  BY DEF Classified, Classes
<1>2. The.maxDrivers \in Nat
  BY GivenFields
<1>3. material \subseteq Scored(N) /\ against \subseteq Scored(N) /\ rest \subseteq Scored(N)
      /\ Scored(N) \subseteq N
  BY DEF Scored
<1>4. Supported(material) \subseteq material
  BY DEF Supported
<1> HIDE DEF material, against, primary, rest, c
<1>5. ASSUME NEW S, S \subseteq Scored(N), NEW n \in Nat
      PROVE  Firsts(Ranked(S), n) \in Seq(Scored(N)) /\ Once(Firsts(Ranked(S), n))
  <2>1. IsFiniteSet(S)
    BY <1>3, <1>5, FS_Subset
  <2>2. Firsts(Ranked(S), n) \in Seq(S) /\ Once(Firsts(Ranked(S), n))
    BY <2>1, RankedIs, FirstsOnce
  <2> QED
    BY <1>5, <2>2
<1>6. primary \in Seq(Scored(N)) /\ Once(primary)
  <2>1. Supported(material) \subseteq Scored(N)
    BY <1>3, <1>4
  <2>2. IsFiniteSet(Supported(material))
    BY <1>3, <2>1, FS_Subset
  <2>3. Ranked(Supported(material)) \in Seq(Supported(material))
    BY <2>2, RankedIs DEF Lists
  <2>4. PICK n \in Nat : primary = Firsts(Ranked(Supported(material)), n)
    BY <2>3, ParetoIs DEF primary
  <2> QED
    BY <1>5, <2>1, <2>4
<1> QED
  BY <1>1, <1>2, <1>3, <1>5, <1>6 DEF c

\* At most one dimension is chosen, and it is one of those offered.
LEMMA ChooseIs ==
    ASSUME NEW order \in Seq(Dimension), NEW candidates, NEW change
    PROVE  /\ \A c \in Choose(candidates, order, change) : c.dimension \in ToSet(order)
           /\ \A b, c \in Choose(candidates, order, change) : b = c
<1> DEFINE rank == [i \in DOMAIN order |-> Rank(i, candidates[order[i]], change)]
           ranks == {rank[i] : i \in DOMAIN rank}
           informative == {r \in ranks : Informative(r)}
           pure == {r \in ranks : r.populated = 1}
           first == {r \in pure : \A q \in pure : r.at <= q.at}
           single == {[dimension |-> order[r.at], split |-> "pure"] : r \in first}
<1>1. Choose(candidates, order, change) = Choice(informative, pure, order)
  <2>1. {Rank(i, candidates[order[i]], change) : i \in DOMAIN order} = ranks
    OBVIOUS
  <2> QED
    BY <2>1 DEF Choose, BestOf
<1>2. \A i \in DOMAIN order : rank[i].at = i
  BY DEF Rank
<1>3. DOMAIN rank = DOMAIN order /\ DOMAIN order \subseteq Int
  OBVIOUS
<1>4. IsFiniteSet(DOMAIN order)
  BY SequenceFinite
<1> HIDE DEF rank
<1>5. IsFiniteSet(ranks)
  BY <1>3, <1>4, ImageFinite
<1>6. \A r \in ranks : r.at \in DOMAIN order /\ r = rank[r.at]
  BY <1>2, <1>3
<1> HIDE DEF ranks
<1>7. \A r \in ranks : order[r.at] \in ToSet(order)
  BY <1>6 DEF ToSet
<1>8. CASE informative # {}
  <2> DEFINE best == SortedBy(informative, Better)
  <2>1. IsFiniteSet(informative)
    BY <1>5, FS_Subset
  <2> HIDE DEF informative
  <2>2. Lists(best, informative)
    BY <2>1, ArrangedIs DEF SortedBy
  <2> HIDE DEF best
  <2>3. best \in Seq(informative) /\ best # <<>>
    BY <1>8, <2>2 DEF Lists, ToSet
  <2>4. best[1] \in informative
    BY <2>3
  <2>5. best[1] \in ranks
    BY <2>4 DEF informative
  <2>6. Choose(candidates, order, change) = {[dimension |-> order[best[1].at], split |-> "partition"]}
    BY <1>1, <1>8 DEF Choice, best
  <2> QED
    BY <1>7, <2>5, <2>6
<1>9. CASE informative = {}
  <2>1. Choose(candidates, order, change) = single
    BY <1>1, <1>9 DEF Choice
  <2>2. \A r, q \in first : r = q
    <3>1. \A r, q \in first : r \in ranks /\ q \in ranks /\ r.at <= q.at /\ q.at <= r.at
      OBVIOUS
    <3> HIDE DEF first
    <3>2. \A r, q \in first : r.at = q.at
      BY <1>3, <1>6, <3>1
    <3> QED
      BY <1>6, <3>1, <3>2
  <2>3. \A r \in first : r \in ranks
    OBVIOUS
  <2> HIDE DEF first
  <2>4. \A c \in single : c.dimension \in ToSet(order)
    BY <1>7, <2>3
  <2>5. \A b, c \in single : b = c
    BY <2>2
  <2> QED
    BY <2>1, <2>4, <2>5
<1> QED
  BY <1>8, <1>9

\* The nodes a dimension offers, or some of them.
Offered(N, d, path) ==
    /\ IsFiniteSet(N)
    /\ \A n \in N : /\ n \in Fields(n) /\ \E s \in Segment : n.path = Append(path, <<d, s>>)
                    /\ n.other => path = <<>>
                    /\ n.class = IF n.other THEN "residual" ELSE "immaterial"
    /\ \A m, n \in N : m.path = n.path => m = n \/ Twins(m, n)

LEMMA OfferedIs ==
    ASSUME NEW nodes, NEW d, NEW path, Candidates(nodes, d, path), NEW N \in SUBSET ToSet(nodes)
    PROVE  Offered(N, d, path)
<1>1. nodes \in Seq(ToSet(nodes))
  BY DEF Candidates, Siblings
<1>2. IsFiniteSet(N)
  BY <1>1, SequenceFinite, FS_Subset
<1>3. \A n \in N : \E i \in DOMAIN nodes : n = nodes[i]
  BY DEF ToSet
<1>4. \A n \in N : /\ n \in Fields(n) /\ \E s \in Segment : n.path = Append(path, <<d, s>>)
                   /\ n.other => path = <<>>
                   /\ n.class = IF n.other THEN "residual" ELSE "immaterial"
  BY <1>3 DEF Candidates, Siblings
<1>5. \A m, n \in N : m.path = n.path => m = n \/ Twins(m, n)
  <2> SUFFICES ASSUME NEW m \in N, NEW n \in N, m.path = n.path PROVE m = n \/ Twins(m, n)
    OBVIOUS
  <2>1. PICK i \in DOMAIN nodes : m = nodes[i]
    BY <1>3
  <2>2. PICK j \in DOMAIN nodes : n = nodes[j]
    BY <1>3
  <2> QED
    BY <2>1, <2>2 DEF Candidates, Siblings
<1> QED
  BY <1>2, <1>4, <1>5 DEF Offered

LEMMA BranchingIs ==
    /\ \A depth \in Nat \ {0} : BranchingAt(depth) \in Nat
    /\ Branching[1] \in Nat /\ BelowFirst \in Nat
    /\ BranchingAt(1) = Branching[1] /\ BranchingAt(2) = BelowFirst
<1>1. Branching \in Seq(Nat) /\ Branching # <<>>
  BY RootCauseAssumption DEF RootCauseAssumption
<1>2. Len(Branching) \in Nat \ {0} /\ \A i \in 1..Len(Branching) : Branching[i] \in Nat
  BY <1>1
<1>3. \A depth \in Nat \ {0} : BranchingAt(depth) \in Nat
  BY <1>2 DEF BranchingAt
<1>4. BranchingAt(1) = Branching[1]
  BY <1>2 DEF BranchingAt
<1>5. BranchingAt(2) = BelowFirst
  BY <1>2 DEF BranchingAt, BelowFirst
<1> QED
  BY <1>2, <1>3, <1>4, <1>5

\* A placed node is material where FindingsRestOnEvidence asks for evidence.
LEMMA PlacedMaterial ==
    ASSUME Given, NEW d, NEW path, NEW N, Offered(N, d, path), NEW n \in N
    PROVE  LET p == Placed(n, N, Classified(N))
           IN  /\ p \in Fields(p) /\ p.path = n.path /\ p.contribution = n.contribution
               /\ p.other = n.other
               /\ n.contribution # {} \/ n.other => Material(p)
               /\ n \in Scored(N) => p.ranked
<1> DEFINE c == Classified(N)
           p == Placed(n, N, c)
<1>1. n \in Fields(n) /\ n.class = IF n.other THEN "residual" ELSE "immaterial"
  BY DEF Offered
<1>2. /\ p \in Fields(p) /\ p.path = n.path /\ p.contribution = n.contribution
      /\ p.other = n.other /\ p.class = ClassIn(n, c) /\ p.ranked = (n \in Scored(N))
  <2> DEFINE k == ClassIn(n, c)
             r == n \in Scored(N)
  <2>1. p = [n EXCEPT !.class = k, !.ranked = r]
    BY DEF Placed
  <2> HIDE DEF p, k, r
  <2>2. /\ p \in Fields(p) /\ p.path = n.path /\ p.contribution = n.contribution
        /\ p.other = n.other /\ p.class = k /\ p.ranked = r
    BY <1>1, <2>1 DEF Fields
  <2> QED
    BY <2>2 DEF k, r
<1>3. c.primary \in Seq(Scored(N)) /\ c.secondary \in Seq(Scored(N)) /\ c.offsetting \in Seq(Scored(N))
  BY ClassifiedIs DEF Offered
<1> HIDE DEF c, p
<1>4. n.other => ClassIn(n, c) = "residual"
  <2> SUFFICES ASSUME n.other PROVE ClassIn(n, c) = "residual"
    OBVIOUS
  <2>1. n \notin Scored(N)
    BY DEF Scored
  <2>2. n \notin ToSet(c.primary) /\ n \notin ToSet(c.secondary) /\ n \notin ToSet(c.offsetting)
    BY <1>3, <2>1 DEF ToSet
  <2> QED
    BY <1>1, <2>2 DEF ClassIn
<1>5. n.contribution # {} /\ ~n.other => n \in Scored(N)
  BY DEF Scored
<1>6. n.contribution # {} \/ n.other => Material(p)
  BY <1>2, <1>4, <1>5 DEF Material
<1> QED
  BY <1>2, <1>6 DEF p, c

LEMMA ForemostIs ==
    ASSUME Given, NEW S, IsFiniteSet(S), NEW primary \in Seq(S), NEW depth \in Nat \ {0}
    PROVE  /\ Foremost(primary, depth) \in Seq(S) /\ Once(Foremost(primary, depth))
           /\ Len(Foremost(primary, depth)) <= BranchingAt(depth)
<1> DEFINE P == ToSet(primary)
           order == SortedBy(P, GoesFirst)
<1>1. P \subseteq S
  BY DEF ToSet
<1>2. IsFiniteSet(P)
  BY <1>1, FS_Subset
<1> HIDE DEF P
<1>3. Lists(order, P)
  BY <1>2, ArrangedIs DEF SortedBy
<1>4. BranchingAt(depth) \in Nat
  BY BranchingIs
<1>5. Foremost(primary, depth) = Firsts(order, BranchingAt(depth))
  BY DEF Foremost, P
<1> HIDE DEF order
<1>6. Foremost(primary, depth) \in Seq(P) /\ Once(Foremost(primary, depth))
      /\ Len(Foremost(primary, depth)) <= BranchingAt(depth)
  BY <1>3, <1>4, <1>5, FirstsOnce
<1> QED
  BY <1>1, <1>6

\* What a choice adds: each of the nodes, settled, and of the strongest the paths.
Growth(e, N, d, depth) ==
    /\ e.dimension = d /\ e.from = N /\ e.classes = Classified(N)
    /\ IsFiniteSet(e.nodes)
    /\ \A t \in e.nodes :
         t \in Fields(t) /\ \E n \in N : t.path = n.path /\ t.contribution = n.contribution
                                           /\ t.other = n.other
    /\ \A s, t \in e.nodes : s.path = t.path => s = t \/ Twins(s, t)
    /\ e.frontier \in Seq({t.path : t \in e.nodes}) /\ Once(e.frontier)
    /\ Len(e.frontier) <= BranchingAt(depth)

LEMMA GrowthIs ==
    ASSUME Given, NEW choice, NEW d, choice.dimension = d, NEW path, NEW N, Offered(N, d, path),
           NEW depth \in Nat \ {0}
    PROVE  Growth(ExpandedBy(choice, N, depth), N, d, depth)
<1> DEFINE c == Classified(N)
           best == Foremost(c.primary, depth)
           settled == [n \in N |-> [Placed(n, N, c) EXCEPT
               !.stop = IF n \in ToSet(c.primary) \ ToSet(best) THEN "branching_limit" ELSE "no"]]
           e == ExpandedBy(choice, N, depth)
<1>1. /\ e.dimension = d /\ e.from = N /\ e.classes = c /\ e.nodes = Settled(N, c, best)
      /\ e.frontier = [i \in DOMAIN best |-> best[i].path]
  BY DEF ExpandedBy, Branched, Expansion
<1>2. e.nodes = {settled[n] : n \in DOMAIN settled}
  BY <1>1 DEF Settled
<1>3. DOMAIN settled = N
  OBVIOUS
<1>4. ASSUME NEW n \in N
      PROVE  /\ settled[n] \in Fields(settled[n]) /\ settled[n].path = n.path
             /\ settled[n].contribution = n.contribution /\ settled[n].other = n.other
  <2> DEFINE p == Placed(n, N, c)
             stop == IF n \in ToSet(c.primary) \ ToSet(best) THEN "branching_limit" ELSE "no"
  <2>1. p \in Fields(p) /\ p.path = n.path /\ p.contribution = n.contribution /\ p.other = n.other
    BY PlacedMaterial
  <2>2. settled[n] = [p EXCEPT !.stop = stop]
    OBVIOUS
  <2> HIDE DEF p, stop, settled
  <2> QED
    BY <2>1, <2>2, StoppedIs
<1>5. c.primary \in Seq(Scored(N))
  BY ClassifiedIs DEF Offered
<1>6. IsFiniteSet(Scored(N))
  BY FS_Subset DEF Offered, Scored
<1> HIDE DEF settled, c
<1>7. /\ best \in Seq(Scored(N)) /\ Len(best) <= BranchingAt(depth)
      /\ Once(best)
  BY <1>5, <1>6, ForemostIs
<1> HIDE DEF best, e
<1>8. IsFiniteSet(e.nodes)
  BY <1>2, <1>3, ImageFinite DEF Offered
<1>9. \A t \in e.nodes :
         t \in Fields(t) /\ \E n \in N : t.path = n.path /\ t.contribution = n.contribution
                                           /\ t.other = n.other
  BY <1>2, <1>3, <1>4
<1>10. \A s, t \in e.nodes : s.path = t.path => s = t \/ Twins(s, t)
  <2> SUFFICES ASSUME NEW s \in e.nodes, NEW t \in e.nodes, s.path = t.path
               PROVE  s = t \/ Twins(s, t)
    OBVIOUS
  <2>1. PICK m \in N : s = settled[m]
    BY <1>2, <1>3
  <2>2. PICK n \in N : t = settled[n]
    BY <1>2, <1>3
  <2>3. m = n \/ Twins(m, n)
    BY <1>4, <2>1, <2>2 DEF Offered
  <2> QED
    BY <1>4, <2>1, <2>2, <2>3 DEF Twins
<1>11. DOMAIN best = 1..Len(best) /\ Len(best) \in Nat /\ \A i \in DOMAIN best : best[i] \in N /\ ~best[i].other
  BY <1>7 DEF Scored
<1>12. \A n \in N : n.path \in {t.path : t \in e.nodes}
  BY <1>2, <1>3, <1>4
<1>13. /\ e.frontier \in Seq({t.path : t \in e.nodes}) /\ Len(e.frontier) = Len(best)
       /\ DOMAIN e.frontier = DOMAIN best
       /\ \A i \in DOMAIN best : e.frontier[i] = best[i].path
  BY <1>1, <1>11, <1>12
<1>14. Once(e.frontier)
  <2> SUFFICES ASSUME NEW i \in DOMAIN best, NEW j \in DOMAIN best, best[i].path = best[j].path
               PROVE  i = j
    BY <1>13 DEF Once
  <2>1. best[i] = best[j]
    BY <1>11 DEF Offered, Twins
  <2> QED
    BY <1>7, <2>1 DEF Once
<1> QED
  BY <1>1, <1>7, <1>8, <1>9, <1>10, <1>13, <1>14 DEF Growth, e, c

\* Nothing, or what one choice adds.
LEMMA ExpansionsAre ==
    ASSUME Given, NEW order \in Seq(Dimension), NEW candidates, NEW change, NEW path,
           \A d \in ToSet(order) : Candidates(candidates[d], d, path),
           NEW depth \in Nat \ {0}
    PROVE  LET found == Expansions(Choose(candidates, order, change), candidates, depth)
           IN  \/ found = {}
               \/ \E d \in ToSet(order) : \E e :
                    \E N \in SUBSET ToSet(candidates[d]) :
                       found = {e} /\ TheOne(found) = e /\ Offered(N, d, path) /\ Growth(e, N, d, depth)
<1> DEFINE choices == Choose(candidates, order, change)
           found == Expansions(choices, candidates, depth)
<1>1. \A c \in choices : c.dimension \in ToSet(order)
  BY ChooseIs
<1>2. \A b, c \in choices : b = c
  BY ChooseIs
<1> HIDE DEF choices
<1>3. CASE choices = {}
  BY <1>3 DEF Expansions, choices
<1>4. CASE choices # {}
  <2>1. PICK c \in choices : TRUE
    BY <1>4
  <2>2. choices = {c}
    BY <1>2, <2>1
  <2> DEFINE d == c.dimension
             N == ChosenNodes(c, candidates)
             e == ExpandedBy(c, N, depth)
  <2>3. d \in ToSet(order)
    BY <1>1
  <2>4. found = {e}
    BY <2>2 DEF Expansions
  <2>5. N \in SUBSET ToSet(candidates[d])
    BY DEF ChosenNodes, Populated
  <2>6. Offered(N, d, path)
    BY <2>3, <2>5, OfferedIs
  <2> HIDE DEF N
  <2>7. Growth(e, N, d, depth)
    BY <2>6, GrowthIs
  <2> HIDE DEF e, found, d
  <2>8. TheOne(found) = e
    BY <2>4 DEF TheOne
  <2>9. found = {e} /\ TheOne(found) = e /\ Offered(N, d, path) /\ Growth(e, N, d, depth)
    BY <2>4, <2>6, <2>7, <2>8
  <2>10. \E x \in ToSet(order) : \E y :
            \E M \in SUBSET ToSet(candidates[x]) :
               found = {y} /\ TheOne(found) = y /\ Offered(M, x, path) /\ Growth(y, M, x, depth)
    BY <2>3, <2>5, <2>9
  <2> QED
    BY <2>10 DEF found, choices
<1> QED
  BY <1>3, <1>4

-----------------------------------------------------------------------------
(***************************************************************************)
(* The steps of an analysis keep the invariant.                            *)
(***************************************************************************)

LEMMA StatementIs ==
    ASSUME NEW purpose \in Purposes, NEW path \in Path
    PROVE  /\ Statement(purpose, path) \in StatementType
           /\ Statement(purpose, path).purpose = purpose /\ Statement(purpose, path).node = path
  BY DEF Statement, StatementType

LEMMA ExecutedIs ==
    ASSUME trace \in Seq(StatementType), NEW purposes \in Seq(Purposes), Executed(purposes),
           \A i \in DOMAIN purposes : purposes[i] # "drilldown_breakdown"
    PROVE  /\ trace' \in Seq(StatementType)
           /\ \A i \in DOMAIN trace : i \in DOMAIN trace' /\ trace'[i] = trace[i]
           /\ Drills' = Drills /\ DrilledPaths' = DrilledPaths
           /\ \A i \in DOMAIN purposes :
                \E k \in DOMAIN trace' : trace'[k] = Statement(purposes[i], <<>>)
<1> DEFINE more == [i \in DOMAIN purposes |-> Statement(purposes[i], <<>>)]
<1>1. trace' = trace \o more
  BY DEF Executed
<1>2. <<>> \in Path
  BY DEF Path
<1>3. \A i \in DOMAIN purposes : purposes[i] \in Purposes
  OBVIOUS
<1>4. DOMAIN more = DOMAIN purposes /\ DOMAIN purposes = 1..Len(purposes) /\ Len(purposes) \in Nat
  OBVIOUS
<1>5. \A i \in DOMAIN more :
         more[i] = Statement(purposes[i], <<>>) /\ more[i] \in StatementType
           /\ more[i].purpose # "drilldown_breakdown"
  BY <1>2, <1>3, StatementIs
<1>6. more \in Seq(StatementType)
  <2>1. more = [i \in 1..Len(purposes) |-> Statement(purposes[i], <<>>)]
    BY <1>4
  <2>2. more \in [1..Len(purposes) -> StatementType]
    BY <1>4, <1>5, <2>1
  <2> HIDE DEF more
  <2> QED
    BY <1>4, <2>2
<1> HIDE DEF more
<1>7. /\ trace' \in Seq(StatementType)
      /\ \A i \in DOMAIN trace : i \in DOMAIN trace' /\ trace'[i] = trace[i]
      /\ \A i \in DOMAIN more : Len(trace) + i \in DOMAIN trace' /\ trace'[Len(trace) + i] = more[i]
      /\ \A i \in DOMAIN trace' :
           \/ i \in DOMAIN trace /\ trace'[i] = trace[i]
           \/ i - Len(trace) \in DOMAIN more /\ trace'[i] = more[i - Len(trace)]
  BY <1>1, <1>6, ConcatIs
<1>8. Drills' = Drills
  BY <1>5, <1>7 DEF Drills
<1>9. DrilledPaths' = DrilledPaths
  BY <1>7, <1>8 DEF DrilledPaths, Drills
<1>10. \A i \in DOMAIN purposes :
          \E k \in DOMAIN trace' : trace'[k] = Statement(purposes[i], <<>>)
  BY <1>4, <1>5, <1>7
<1> QED
  BY <1>7, <1>8, <1>9, <1>10

LEMMA DrilledIs ==
    ASSUME trace \in Seq(StatementType), NEW path \in Path, Drilled(path)
    PROVE  /\ trace' \in Seq(StatementType)
           /\ \A i \in DOMAIN trace : i \in DOMAIN trace' /\ trace'[i] = trace[i]
           /\ \A i \in Drills' : \/ i \in Drills
                                 \/ i = Len(trace) + 1 /\ trace'[i].node = path
           /\ \A i \in Drills : i \in DOMAIN trace
           /\ DrilledPaths' = DrilledPaths \cup {path}
<1> DEFINE last == Statement("drilldown_breakdown", path)
<1>1. trace' = Append(trace, last)
  BY DEF Drilled
<1>2. last \in StatementType /\ last.purpose = "drilldown_breakdown" /\ last.node = path
  BY DEF Statement, StatementType, Purposes
<1> HIDE DEF last
<1>3. /\ trace' \in Seq(StatementType) /\ DOMAIN trace' = 1..(Len(trace) + 1)
      /\ DOMAIN trace = 1..Len(trace) /\ Len(trace) \in Nat
      /\ \A i \in DOMAIN trace : trace'[i] = trace[i]
      /\ trace'[Len(trace) + 1] = last
  BY <1>1, <1>2
<1>4. \A i \in DOMAIN trace' : i \in DOMAIN trace \/ i = Len(trace) + 1
  BY <1>3
<1>5. \A i \in DOMAIN trace : i \in DOMAIN trace' /\ trace'[i] = trace[i]
  BY <1>3
<1>6. \A i \in Drills' : i \in Drills \/ (i = Len(trace) + 1 /\ trace'[i].node = path)
  BY <1>2, <1>3, <1>4 DEF Drills
<1>7. Len(trace) + 1 \in Drills' /\ \A i \in Drills : i \in Drills' /\ trace'[i] = trace[i] /\ i \in DOMAIN trace
  BY <1>2, <1>3, <1>5 DEF Drills
<1>8. DrilledPaths' = DrilledPaths \cup {path}
  <2>1. DrilledPaths' = {trace'[i].node : i \in Drills'}
    BY DEF DrilledPaths
  <2>2. DrilledPaths = {trace[i].node : i \in Drills}
    BY DEF DrilledPaths
  <2>3. \A p : p \in DrilledPaths' => p \in DrilledPaths \cup {path}
    <3> SUFFICES ASSUME NEW i \in Drills' PROVE trace'[i].node \in DrilledPaths \cup {path}
      BY <2>1
    <3> QED
      BY <1>6, <1>7, <2>2
  <2>4. \A p \in DrilledPaths : p \in DrilledPaths'
    BY <1>7, <2>1, <2>2
  <2>5. path \in DrilledPaths'
    BY <1>2, <1>3, <1>7, <2>1
  <2> QED
    BY <2>3, <2>4, <2>5
<1> QED
  BY <1>3, <1>5, <1>6, <1>7, <1>8

LEMMA Stays ==
    ASSUME task' = task
    PROVE  /\ The' = The /\ Usable' = Usable /\ UsableSet' = UsableSet
           /\ \A d : HasBucket(d)' <=> HasBucket(d)
           /\ \A m, n : Twins(m, n)' <=> Twins(m, n)
           /\ \A nodes, d, path : Siblings(nodes, d, path)' <=> Siblings(nodes, d, path)
           /\ Given => Given'
<1>1. The' = The
  BY DEF The
<1>2. Usable' = Usable
  BY <1>1 DEF Usable, Chosen
<1>3. UsableSet' = UsableSet
  BY <1>2 DEF UsableSet
<1>4. \A d : HasBucket(d)' <=> HasBucket(d)
  BY <1>1 DEF HasBucket
<1>5. \A m, n : Twins(m, n)' <=> Twins(m, n)
  BY <1>4 DEF Twins
<1>6. \A nodes, d, path : Siblings(nodes, d, path)' <=> Siblings(nodes, d, path)
  BY <1>5 DEF Siblings
<1>7. Given => Given'
  BY <1>1 DEF Given
<1> QED
  BY <1>1, <1>2, <1>3, <1>4, <1>5, <1>6, <1>7

LEMMA GrownStays ==
    ASSUME UNCHANGED <<task, level>>, DrilledPaths \subseteq DrilledPaths'
    PROVE  /\ \A n : Grown(n) => Grown(n)'
           /\ \A n : Driver(n) => Driver(n)'
           /\ \A c : DriverList(c) => DriverList(c)'
           /\ LevelListed => LevelListed'
<1>1. UsableSet' = UsableSet /\ level' = level
  BY Stays
<1>2. \A n : Driver(n) => Driver(n)'
  BY <1>1 DEF Driver
<1>3. \A c : DriverList(c) => DriverList(c)'
  BY <1>2 DEF DriverList
<1>4. \A n : Grown(n) => Grown(n)'
  BY <1>1 DEF Grown
<1>5. LevelListed => LevelListed'
  BY <1>1, Stays DEF LevelListed
<1> QED
  BY <1>2, <1>3, <1>4, <1>5

\* A step that touches neither the nodes nor what waits, and drills into nothing.
LEMMA QuietKeeps ==
    ASSUME RcaInv, UNCHANGED <<task, level, tree, queue, drivers>>,
           rcaStage = "idle" <=> rcaStage' = "idle",
           rcaStage' = "drill" => rcaStage = "drill", rcaStage' \in Early => rcaStage \in Early,
           trace' \in Seq(StatementType), Drills' = Drills, DrilledPaths' = DrilledPaths,
           \A i \in DOMAIN trace : i \in DOMAIN trace' /\ trace'[i] = trace[i],
           rcaStage' = "nodes" =>
             \/ rcaStage = "nodes"
             \/ \E i \in DOMAIN trace' : trace'[i] = Statement("dimension_breakdown", <<>>)
    PROVE  RcaInv'
<1>1. The' = The /\ \A m, n : Twins(m, n)' <=> Twins(m, n)
  BY Stays
<1>2. Shaped'
  BY DEF RcaInv, Shaped, Statement, StatementType
<1>3. LevelListed'
  BY GrownStays DEF RcaInv
<1>4. TreeGrown'
  BY <1>1, GrownStays DEF RcaInv, TreeGrown
<1>5. DriversListed'
  BY GrownStays DEF RcaInv, DriversListed
<1>6. Waiting'
  BY DEF RcaInv, Waiting, TreePaths
<1>7. Counted'
  <2>1. \A i \in Drills : trace'[i] = trace[i]
    BY DEF Drills
  <2> QED
    BY <1>1, <2>1 DEF RcaInv, Counted
<1> QED
  BY <1>2, <1>3, <1>4, <1>5, <1>6, <1>7 DEF RcaInv

LEMMA QuietStatement ==
    ASSUME RcaInv, NEW purposes \in Seq(Purposes), Executed(purposes),
           \A i \in DOMAIN purposes : purposes[i] # "drilldown_breakdown",
           UNCHANGED <<task, level, tree, queue, drivers>>,
           rcaStage = "idle" <=> rcaStage' = "idle",
           rcaStage' = "drill" => rcaStage = "drill", rcaStage' \in Early => rcaStage \in Early,
           rcaStage' = "nodes" =>
             rcaStage = "nodes" \/ \E i \in DOMAIN purposes : purposes[i] = "dimension_breakdown"
    PROVE  RcaInv'
<1>1. trace \in Seq(StatementType)
  BY DEF RcaInv, Shaped
<1>2. /\ trace' \in Seq(StatementType) /\ Drills' = Drills /\ DrilledPaths' = DrilledPaths
      /\ \A i \in DOMAIN trace : i \in DOMAIN trace' /\ trace'[i] = trace[i]
      /\ \A i \in DOMAIN purposes :
           \E k \in DOMAIN trace' : trace'[k] = Statement(purposes[i], <<>>)
  BY <1>1, ExecutedIs
<1>3. rcaStage' = "nodes" =>
        \/ rcaStage = "nodes"
        \/ \E i \in DOMAIN trace' : trace'[i] = Statement("dimension_breakdown", <<>>)
  BY <1>2
<1> QED
  BY <1>2, <1>3, QuietKeeps

LEMMA RcaStutterKeeps == ASSUME RcaInv, UNCHANGED rcaVars PROVE RcaInv'
<1>1. UNCHANGED <<rcaStage, task, level, tree, queue, drivers, trace>>
  BY DEF rcaVars, rcaResult
<1>2. trace \in Seq(StatementType) /\ Drills' = Drills /\ DrilledPaths' = DrilledPaths
  BY <1>1 DEF RcaInv, Shaped, Drills, DrilledPaths
<1> QED
  BY <1>1, <1>2, QuietKeeps

LEMMA DescribeKeeps == ASSUME RcaInv, Describe PROVE RcaInv'
<1>1. /\ Executed(<<"describe_relation">>) /\ rcaStage = "describe"
      /\ UNCHANGED <<task, level, tree, queue, drivers>>
  BY DEF Describe
<1>2. rcaStage' \in {"done", "bounds"}
  BY DEF Describe, Finish, Go
<1>3. <<"describe_relation">> \in Seq(Purposes)
  BY DEF Purposes
<1>4. \A i \in DOMAIN <<"describe_relation">> : <<"describe_relation">>[i] # "drilldown_breakdown"
  OBVIOUS
<1> QED
  BY <1>1, <1>2, <1>3, <1>4, QuietStatement DEF Early

LEMMA BoundsKeeps == ASSUME RcaInv, Bounds PROVE RcaInv'
<1>1. /\ Executed(<<"project_base_table", "resolve_period_bounds">>) /\ rcaStage = "bounds"
      /\ UNCHANGED <<task, level, tree, queue, drivers>>
  BY DEF Bounds
<1>2. rcaStage' \in {"done", "totals"}
  BY DEF Bounds, Finish, Go
<1>3. <<"project_base_table", "resolve_period_bounds">> \in Seq(Purposes)
  BY DEF Purposes
<1>4. \A i \in DOMAIN <<"project_base_table", "resolve_period_bounds">> : <<"project_base_table", "resolve_period_bounds">>[i] # "drilldown_breakdown"
  OBVIOUS
<1> QED
  BY <1>1, <1>2, <1>3, <1>4, QuietStatement DEF Early

LEMMA TotalKeeps == ASSUME RcaInv, Total PROVE RcaInv'
<1>1. /\ Executed(<<"kpi_period_totals">>) /\ rcaStage = "totals"
      /\ UNCHANGED <<task, level, tree, queue, drivers>>
  BY DEF Total
<1>2. rcaStage' \in {"done", "breakdown"}
  BY DEF Total, Finish, Go
<1>3. <<"kpi_period_totals">> \in Seq(Purposes)
  BY DEF Purposes
<1>4. \A i \in DOMAIN <<"kpi_period_totals">> : <<"kpi_period_totals">>[i] # "drilldown_breakdown"
  OBVIOUS
<1> QED
  BY <1>1, <1>2, <1>3, <1>4, QuietStatement DEF Early

LEMMA BreakDownKeeps == ASSUME RcaInv, BreakDown PROVE RcaInv'
<1> DEFINE one == <<"dimension_breakdown">>
           more == IF gap' = {} THEN <<>> ELSE <<"distinct_overlap_check">>
           both == one \o more
<1>1. /\ Executed(both) /\ rcaStage = "breakdown"
      /\ UNCHANGED <<task, level, tree, queue, drivers>>
  BY DEF BreakDown
<1>2. rcaStage' \in {"done", "nodes"}
  BY DEF BreakDown, Finish, Go
<1>3. one \in Seq(Purposes) /\ more \in Seq(Purposes)
  <2>1. <<>> \in Seq(Purposes) /\ <<"distinct_overlap_check">> \in Seq(Purposes)
    BY DEF Purposes
  <2>2. one \in Seq(Purposes)
    BY DEF Purposes
  <2>3. more = <<>> \/ more = <<"distinct_overlap_check">>
    OBVIOUS
  <2> HIDE DEF one, more
  <2> QED
    BY <2>1, <2>2, <2>3
<1>4. /\ \A i \in DOMAIN one : one[i] = "dimension_breakdown"
      /\ \A i \in DOMAIN more : more[i] = "distinct_overlap_check"
      /\ 1 \in DOMAIN one
  OBVIOUS
<1> HIDE DEF one, more
<1>5. /\ both \in Seq(Purposes)
      /\ \A i \in DOMAIN one : i \in DOMAIN both /\ both[i] = one[i]
      /\ \A i \in DOMAIN both :
           \/ i \in DOMAIN one /\ both[i] = one[i]
           \/ i - Len(one) \in DOMAIN more /\ both[i] = more[i - Len(one)]
  BY <1>3, ConcatIs
<1> HIDE DEF both
<1>6. /\ \A i \in DOMAIN both : both[i] # "drilldown_breakdown"
      /\ \E i \in DOMAIN both : both[i] = "dimension_breakdown"
  BY <1>4, <1>5
<1> QED
  BY <1>1, <1>2, <1>5, <1>6, QuietStatement DEF Early

\* Sets of paths by length.
LEMMA OfLengthIs ==
    ASSUME NEW P, IsFiniteSet(P), NEW k
    PROVE  IsFiniteSet(OfLength(P, k)) /\ Cardinality(OfLength(P, k)) \in Nat
           /\ Cardinality(OfLength(P, k)) <= Cardinality(P)
<1>1. OfLength(P, k) \subseteq P
  BY DEF OfLength
<1> QED
  BY <1>1, Fewer

LEMMA NothingCounted ==
    /\ Cardinality(OfLength({}, 1)) = 0 /\ Cardinality(OfLength({}, 2)) = 0
    /\ 0 <= Branching[1] /\ 0 <= BelowFirst * 0
<1>1. OfLength({}, 1) = {} /\ OfLength({}, 2) = {}
  BY DEF OfLength
<1>2. Cardinality({}) = 0
  BY FS_EmptySet
<1> QED
  BY <1>1, <1>2, BranchingIs

LEMMA NoneListed == DriverList(<<>>) /\ <<>> \in Seq(Path) /\ ToSet(<<>>) = {}
  BY DEF DriverList, ToSet

LEMMA InitKeeps == ASSUME RcaInit PROVE RcaInv
<1>1. /\ rcaStage = "idle" /\ task = {} /\ level = <<>> /\ tree = {} /\ queue = <<>>
      /\ drivers = NoDrivers /\ trace = <<>>
  BY DEF RcaInit
<1>2. Drills = {} /\ DrilledPaths = {}
  BY <1>1 DEF Drills, DrilledPaths
<1>3. Shaped
  BY <1>1, <1>2 DEF Shaped
<1>4. LevelListed /\ Waiting
  BY <1>1 DEF LevelListed, Waiting
<1>5. TreeGrown
  BY <1>1, FS_EmptySet DEF TreeGrown
<1>6. DriversListed
  BY <1>1, NoneListed DEF DriversListed, NoDrivers
<1>7. Counted
  <2>1. DrilledPaths \cup ToSet(queue) = {}
    BY <1>1, <1>2, NoneListed
  <2> QED
    BY <1>1, <1>2, <2>1, NothingCounted, NoneListed DEF Counted
<1> QED
  BY <1>3, <1>4, <1>5, <1>6, <1>7 DEF RcaInv

LEMMA StartKeeps == ASSUME RcaInv, NEW a \in Analyses, StartAnalysis(a) PROVE RcaInv'
<1>1. /\ rcaStage = "idle" /\ task' = {a} /\ rcaStage' = "describe"
      /\ UNCHANGED <<level, tree, queue, drivers, trace>>
  BY DEF StartAnalysis, Go
<1>2. /\ level' = <<>> /\ tree' = {} /\ queue' = <<>> /\ drivers' = NoDrivers /\ Drills' = {}
      /\ trace' \in Seq(StatementType)
  BY <1>1 DEF RcaInv, Shaped, Early, Drills
<1>3. DrilledPaths' = {}
  BY <1>2 DEF DrilledPaths
<1>4. Shaped'
  BY <1>1, <1>2 DEF Shaped
<1>5. LevelListed' /\ Waiting'
  BY <1>1, <1>2 DEF LevelListed, Waiting
<1>6. TreeGrown'
  BY <1>2, FS_EmptySet DEF TreeGrown
<1>7. DriversListed'
  BY <1>2 DEF DriversListed, NoDrivers, DriverList
<1>8. Counted'
  <2>1. DrilledPaths' \cup ToSet(queue') = {}
    BY <1>2, <1>3, NoneListed
  <2> QED
    BY <1>2, <1>3, <2>1, NothingCounted, NoneListed DEF Counted
<1> QED
  BY <1>4, <1>5, <1>6, <1>7, <1>8 DEF RcaInv

\* Below the roots nothing is asked, and nothing waits, when the tree is thrown away.
LEMMA ConcludeKeeps == ASSUME RcaInv, Conclude PROVE RcaInv'
<1>1. /\ rcaStage = "drill" /\ rcaStage' = "done" /\ UNCHANGED <<task, level, queue, trace>>
      /\ \/ drivers' = NoDrivers /\ tree' = {}
         \/ UNCHANGED <<drivers, tree>>
  BY DEF Conclude, Finish
<1>2. trace \in Seq(StatementType) /\ Drills' = Drills /\ DrilledPaths' = DrilledPaths
  BY <1>1 DEF RcaInv, Shaped, Drills, DrilledPaths
<1>3. CASE UNCHANGED <<drivers, tree>>
  BY <1>1, <1>2, <1>3, QuietKeeps DEF Early
<1>4. CASE drivers' = NoDrivers /\ tree' = {}
  <2>1. The' = The
    BY <1>1, Stays
  <2>2. Shaped'
    BY <1>1, <1>2 DEF RcaInv, Shaped, Early, Statement
  <2>3. LevelListed'
    BY <1>1, <1>2, GrownStays DEF RcaInv
  <2>4. TreeGrown'
    BY <1>4, FS_EmptySet DEF TreeGrown
  <2>5. DriversListed'
    BY <1>4 DEF DriversListed, NoDrivers, DriverList
  <2>6. Waiting'
    BY <1>1 DEF Waiting
  <2>7. Counted'
    BY <1>1, <1>2, <2>1 DEF RcaInv, Counted
  <2> QED
    BY <2>2, <2>3, <2>4, <2>5, <2>6, <2>7 DEF RcaInv
<1> QED
  BY <1>1, <1>3, <1>4

LEMMA PathStep ==
    ASSUME NEW path \in Path, NEW d \in Dimension, NEW s \in Segment
    PROVE  LET q == Append(path, <<d, s>>)
           IN  /\ q \in Path /\ q # <<>> /\ Len(q) = Len(path) + 1 /\ Front(q) = path
               /\ \A i \in DOMAIN path : q[i] = path[i]
               /\ SubSeq(q, 1, Len(path)) = path /\ Len(path) \in Nat
               /\ path = <<>> => q[1][1] = d /\ Len(q) = 1
<1> DEFINE q == Append(path, <<d, s>>)
<1>1. <<d, s>> \in Dimension \X Segment /\ <<d, s>>[1] = d
  OBVIOUS
<1>2. /\ q \in Path /\ Len(q) = Len(path) + 1 /\ q[Len(path) + 1] = <<d, s>>
      /\ \A i \in DOMAIN path : q[i] = path[i]
      /\ SubSeq(q, 1, Len(path)) = path /\ Front(q) = path
  BY <1>1, StepIs DEF Path
<1> HIDE DEF q
<1>3. Len(path) \in Nat
  BY DEF Path
<1>4. q # <<>>
  BY <1>2, <1>3 DEF Path
<1>5. path = <<>> => q[1][1] = d /\ Len(q) = 1
  <2> SUFFICES ASSUME path = <<>> PROVE q[1][1] = d /\ Len(q) = 1
    OBVIOUS
  <2>1. Len(path) = 0
    OBVIOUS
  <2>2. q[1] = <<d, s>>
    BY <1>2, <2>1
  <2> QED
    BY <1>1, <1>2, <2>1, <2>2
<1> QED
  BY <1>2, <1>3, <1>4, <1>5 DEF q

\* Marking nodes changes no path.
LEMMA MarkedIs ==
    ASSUME NEW nodes, NEW d, NEW path, Siblings(nodes, d, path), NEW f,
           \A i \in DOMAIN nodes :
              f[i] \in Fields(f[i]) /\ f[i].path = nodes[i].path /\ f[i].other = nodes[i].other,
           f = [i \in DOMAIN nodes |-> f[i]]
    PROVE  Siblings(f, d, path)
<1>1. nodes \in Seq(ToSet(nodes))
  BY DEF Siblings
<1>2. DOMAIN f = DOMAIN nodes
  OBVIOUS
<1>3. f \in Seq(ToSet(f))
  <2>1. DOMAIN f = 1..Len(nodes) /\ Len(nodes) \in Nat
    BY <1>1, <1>2
  <2>2. f \in [1..Len(nodes) -> ToSet(f)]
    BY <2>1 DEF ToSet
  <2> QED
    BY <2>1, <2>2
<1>4. \A i, j \in DOMAIN f : f[i].path = f[j].path => i = j \/ Twins(f[i], f[j])
  BY <1>2 DEF Siblings, Twins
<1> QED
  BY <1>2, <1>3, <1>4 DEF Siblings

LEMMA InLevelIs ==
    ASSUME NEW n, n \in Fields(n), NEW d, NEW found
    PROVE  LET m == InLevel(n, d, found)
           IN  m \in Fields(m) /\ m.path = n.path /\ m.other = n.other
<1> DEFINE N == TheOne(found).from
           c == TheOne(found).classes
           k == ClassIn(n, c)
           r == n \in Scored(N)
           p == [n EXCEPT !.class = k, !.ranked = r]
<1>1. Placed(n, N, c) = p
  BY DEF Placed
<1> HIDE DEF N, c, k, r
<1>2. p \in Fields(p) /\ p.path = n.path /\ p.other = n.other
  BY DEF Fields
<1> HIDE DEF p
<1>3. InLevel(n, d, found) = n \/ InLevel(n, d, found) = p
  BY <1>1 DEF InLevel, N, c
<1> QED
  BY <1>2, <1>3

LEMMA BuildLevelKeeps == ASSUME RcaInv, BuildLevel PROVE RcaInv'
<1> DEFINE groups == [d \in UsableSet |-> Breakdown(d, Base)]
           nodes == [d \in UsableSet |-> LevelNodes(WithResidual(d, groups[d]))]
           choices == IF basis = "unattributable" THEN {} ELSE Choose(nodes, Usable, GlobalChange)
           found == Expansions(choices, nodes, 1)
<1>1. /\ rcaStage = "nodes" /\ UNCHANGED <<task, trace>>
      /\ level' = [d \in UsableSet |-> [i \in DOMAIN nodes[d] |-> InLevel(nodes[d][i], d, found)]]
      /\ tree' = UNION {e.nodes : e \in found}
      /\ queue' = IF found = {} THEN <<>> ELSE TheOne(found).frontier
      /\ drivers' = IF found = {} THEN NoDrivers ELSE TheOne(found).classes
  <2>1. \E g \in {groups} :
          /\ truncated' = {d \in UsableSet : Len(g[d]) >= The.limit}
          /\ \E ns \in {[d \in UsableSet |-> LevelNodes(WithResidual(d, g[d]))]} :
             \E f \in {Expansions(IF basis = "unattributable" THEN {}
                                 ELSE Choose(ns, Usable, GlobalChange), ns, 1)} :
                /\ level' = [d \in UsableSet |-> [i \in DOMAIN ns[d] |-> InLevel(ns[d][i], d, f)]]
                /\ tree' = UNION {e.nodes : e \in f}
                /\ queue' = IF f = {} THEN <<>> ELSE TheOne(f).frontier
                /\ drivers' = IF f = {} THEN NoDrivers ELSE TheOne(f).classes
    BY DEF BuildLevel
  <2>2. rcaStage = "nodes" /\ UNCHANGED <<task, trace>>
    BY DEF BuildLevel
  <2> HIDE DEF groups
  <2>3. PICK g \in {groups} :
          \E ns \in {[d \in UsableSet |-> LevelNodes(WithResidual(d, g[d]))]} :
             \E f \in {Expansions(IF basis = "unattributable" THEN {}
                                 ELSE Choose(ns, Usable, GlobalChange), ns, 1)} :
                /\ level' = [d \in UsableSet |-> [i \in DOMAIN ns[d] |-> InLevel(ns[d][i], d, f)]]
                /\ tree' = UNION {e.nodes : e \in f}
                /\ queue' = IF f = {} THEN <<>> ELSE TheOne(f).frontier
                /\ drivers' = IF f = {} THEN NoDrivers ELSE TheOne(f).classes
    BY <2>1, Zenon
  <2>4. g = groups
    BY <2>3
  <2>5. PICK ns \in {[d \in UsableSet |-> LevelNodes(WithResidual(d, g[d]))]} :
             \E f \in {Expansions(IF basis = "unattributable" THEN {}
                                 ELSE Choose(ns, Usable, GlobalChange), ns, 1)} :
                /\ level' = [d \in UsableSet |-> [i \in DOMAIN ns[d] |-> InLevel(ns[d][i], d, f)]]
                /\ tree' = UNION {e.nodes : e \in f}
                /\ queue' = IF f = {} THEN <<>> ELSE TheOne(f).frontier
                /\ drivers' = IF f = {} THEN NoDrivers ELSE TheOne(f).classes
    BY <2>3, Zenon
  <2>6. ns = nodes
    BY <2>4, <2>5
  <2> HIDE DEF nodes
  <2>7. PICK f \in {Expansions(IF basis = "unattributable" THEN {}
                              ELSE Choose(ns, Usable, GlobalChange), ns, 1)} :
                /\ level' = [d \in UsableSet |-> [i \in DOMAIN ns[d] |-> InLevel(ns[d][i], d, f)]]
                /\ tree' = UNION {e.nodes : e \in f}
                /\ queue' = IF f = {} THEN <<>> ELSE TheOne(f).frontier
                /\ drivers' = IF f = {} THEN NoDrivers ELSE TheOne(f).classes
    BY <2>5, Zenon
  <2>8. f = found
    BY <2>6, <2>7
  <2> HIDE DEF found
  <2> QED
    BY <2>2, <2>6, <2>7, <2>8
<1>2. rcaStage' \in {"done", "drill"}
  BY DEF BuildLevel, Finish, Go
<1>3. Given
  <2>1. PICK a \in Analyses : task = {a}
    BY <1>1 DEF RcaInv, Shaped
  <2> QED
    BY <2>1, GivenIs
<1>4. Usable \in Seq(Dimension) /\ UsableSet = ToSet(Usable) /\ UsableSet \subseteq Dimension
  BY <1>3, UsableIs
<1>5. DOMAIN nodes = UsableSet /\ \A d \in UsableSet : Candidates(nodes[d], d, <<>>)
  <2>1. \A d \in UsableSet : nodes[d] = LevelNodes(WithResidual(d, Breakdown(d, Base)))
    OBVIOUS
  <2>2. DOMAIN nodes = UsableSet
    OBVIOUS
  <2> HIDE DEF nodes
  <2> QED
    BY <1>3, <1>4, <2>1, <2>2, LevelIs
<1> DEFINE root == <<>>
<1>0. root \in Path /\ \A d \in UsableSet : Candidates(nodes[d], d, root)
  BY <1>5 DEF Path
<1> HIDE DEF nodes
<1>6. \/ found = {}
      \/ \E d \in UsableSet : \E e :
           \E N \in SUBSET ToSet(nodes[d]) :
              found = {e} /\ TheOne(found) = e /\ Offered(N, d, <<>>) /\ Growth(e, N, d, 1)
  <2>1. CASE basis = "unattributable"
    BY <2>1 DEF Expansions
  <2>2. CASE basis # "unattributable"
    <3>1. choices = Choose(nodes, Usable, GlobalChange) /\ 1 \in Nat \ {0}
      BY <2>2
    <3> HIDE DEF root, choices
    <3>2. \/ found = {}
          \/ \E d \in UsableSet : \E e :
               \E N \in SUBSET ToSet(nodes[d]) :
                  found = {e} /\ TheOne(found) = e /\ Offered(N, d, root) /\ Growth(e, N, d, 1)
      BY <1>3, <1>4, <1>0, <3>1, ExpansionsAre
    <3> QED
      BY <3>2 DEF root
  <2> QED
    BY <2>1, <2>2
<1> HIDE DEF choices, found
<1>7. DOMAIN level' = UsableSet /\ \A d \in UsableSet :
         /\ DOMAIN level'[d] = DOMAIN nodes[d]
         /\ \A i \in DOMAIN nodes[d] : level'[d][i] = InLevel(nodes[d][i], d, found)
         /\ level'[d] = [i \in DOMAIN nodes[d] |-> level'[d][i]]
  BY <1>1
<1>8. \A d \in UsableSet : Siblings(level'[d], d, <<>>)
  <2> SUFFICES ASSUME NEW d \in UsableSet PROVE Siblings(level'[d], d, <<>>)
    OBVIOUS
  <2> DEFINE f == level'[d]
  <2>1. Siblings(nodes[d], d, <<>>)
    BY <1>5 DEF Candidates
  <2>2. \A i \in DOMAIN nodes[d] : f[i] = InLevel(nodes[d][i], d, found) /\ nodes[d][i] \in Fields(nodes[d][i])
    BY <1>7, <2>1 DEF Siblings
  <2>3. f = [i \in DOMAIN nodes[d] |-> f[i]]
    BY <1>7
  <2> HIDE DEF f
  <2>4. \A i \in DOMAIN nodes[d] :
           f[i] \in Fields(f[i]) /\ f[i].path = nodes[d][i].path /\ f[i].other = nodes[d][i].other
    BY <2>2, InLevelIs
  <2>5. Siblings(f, d, <<>>)
    BY <2>1, <2>3, <2>4, MarkedIs
  <2> QED
    BY <2>5 DEF f
<1>9. LevelListed'
  BY <1>1, <1>7, <1>8, Stays DEF LevelListed
<1>10. Drills' = {} /\ DrilledPaths' = {} /\ trace' \in Seq(StatementType)
  BY <1>1 DEF RcaInv, Shaped, Early, Drills, DrilledPaths
<1>11. Shaped'
  BY <1>1, <1>2, <1>10 DEF RcaInv, Shaped, Early, Statement
<1>12. CASE found = {}
  <2>1. tree' = {} /\ queue' = <<>> /\ drivers' = NoDrivers
    BY <1>1, <1>12
  <2>2. TreeGrown'
    BY <2>1, FS_EmptySet DEF TreeGrown
  <2>3. DriversListed'
    BY <2>1 DEF DriversListed, NoDrivers, DriverList
  <2>4. Waiting'
    BY <2>1, <1>10, NoneListed DEF Waiting, Once
  <2>5. Counted'
    <3>1. DrilledPaths' \cup ToSet(queue') = {}
      BY <1>10, <2>1, NoneListed
    <3> QED
      BY <1>10, <2>1, <3>1, NothingCounted, NoneListed DEF Counted
  <2> QED
    BY <1>9, <1>11, <2>2, <2>3, <2>4, <2>5 DEF RcaInv
<1>13. CASE found # {}
  <2>0. PICK d \in UsableSet :
           \E e : \E N \in SUBSET ToSet(nodes[d]) :
              found = {e} /\ TheOne(found) = e /\ Offered(N, d, <<>>) /\ Growth(e, N, d, 1)
    BY <1>6, <1>13
  <2>1. PICK e :
           \E N \in SUBSET ToSet(nodes[d]) :
              found = {e} /\ TheOne(found) = e /\ Offered(N, d, <<>>) /\ Growth(e, N, d, 1)
    BY <2>0
  <2>2. PICK N \in SUBSET ToSet(nodes[d]) :
           found = {e} /\ TheOne(found) = e /\ Offered(N, d, <<>>) /\ Growth(e, N, d, 1)
    BY <2>1
  <2> DEFINE c == Classified(N)
  <2>3. tree' = e.nodes /\ queue' = e.frontier /\ drivers' = c
    BY <1>1, <1>13, <2>2 DEF Growth
  <2>4. d \in Dimension /\ <<>> \in Path
    BY <1>4 DEF Path
  <2>5. \A n \in N : n.path \in Path /\ n.path # <<>> /\ Len(n.path) = 1 /\ n.path[1][1] = d
    <3> SUFFICES ASSUME NEW n \in N
                 PROVE  n.path \in Path /\ n.path # <<>> /\ Len(n.path) = 1 /\ n.path[1][1] = d
      OBVIOUS
    <3>1. PICK s \in Segment : n.path = Append(<<>>, <<d, s>>)
      BY <2>2 DEF Offered
    <3>2. root \in Path /\ root = <<>> /\ n.path = Append(root, <<d, s>>)
      BY <1>0, <3>1
    <3> DEFINE q == Append(root, <<d, s>>)
    <3> HIDE DEF root
    <3>3. /\ q \in Path /\ q # <<>>
          /\ root = <<>> => q[1][1] = d /\ Len(q) = 1
      BY <2>4, <3>2, PathStep
    <3> HIDE DEF q
    <3> QED
      BY <3>2, <3>3 DEF q
  <2>6. level' # <<>>
    BY <1>7
  <2>7. \A n \in N : \E i \in DOMAIN level'[d] : level'[d][i] = Placed(n, N, c)
    <3> SUFFICES ASSUME NEW n \in N PROVE \E i \in DOMAIN level'[d] : level'[d][i] = Placed(n, N, c)
      OBVIOUS
    <3>1. PICK i \in DOMAIN nodes[d] : nodes[d][i] = n
      BY DEF ToSet
    <3>2. InLevel(n, d, found) = Placed(n, N, c)
      <4>1. e.dimension = d /\ e.from = N /\ e.classes = c
        BY <2>2 DEF Growth
      <4> QED
        BY <2>2, <4>1 DEF InLevel
    <3> QED
      BY <1>7, <3>1, <3>2
  <2>8. \A n \in N : LET p == Placed(n, N, c)
                     IN  /\ p.path = n.path /\ p.contribution = n.contribution /\ p.other = n.other
                         /\ n.contribution # {} \/ n.other => Material(p)
                         /\ n \in Scored(N) => p.ranked
    BY <1>3, <2>2, PlacedMaterial
  <2>9. c.primary \in Seq(Scored(N)) /\ Once(c.primary)
        /\ c.secondary \in Seq(Scored(N)) /\ Once(c.secondary)
        /\ c.offsetting \in Seq(Scored(N)) /\ Once(c.offsetting)
    BY <1>3, <2>2, ClassifiedIs DEF Offered
  <2>10. UsableSet' = UsableSet /\ \A m, n : Twins(m, n)' <=> Twins(m, n)
    BY <1>1, Stays
  <2> HIDE DEF c
  <2>11. \A t \in e.nodes : Grown(t)'
    <3> SUFFICES ASSUME NEW t \in e.nodes PROVE Grown(t)'
      OBVIOUS
    <3>1. t \in Fields(t)
      BY <2>2 DEF Growth
    <3>2. PICK n \in N : t.path = n.path /\ t.contribution = n.contribution /\ t.other = n.other
      BY <2>2 DEF Growth
    <3>3. PICK i \in DOMAIN level'[d] : level'[d][i] = Placed(n, N, c)
      BY <2>7
    <3>4. /\ level'[d][i].path = t.path /\ level'[d][i].contribution = t.contribution
          /\ t.contribution # {} \/ t.other => Material(level'[d][i])
      BY <2>8, <3>2, <3>3
    <3>5. t.path \in Path /\ t.path # <<>> /\ Len(t.path) = 1 /\ t.path[1][1] = d
      BY <2>5, <3>2
    <3> QED
      BY <2>6, <2>10, <3>1, <3>4, <3>5 DEF Grown
  <2>12. TreeGrown'
    BY <2>2, <2>3, <2>10, <2>11 DEF TreeGrown, Growth
  <2>13. \A s \in Seq(Scored(N)) : Once(s) => DriverList(s)'
    <3> SUFFICES ASSUME NEW s \in Seq(Scored(N)), Once(s) PROVE DriverList(s)'
      OBVIOUS
    <3>1. s \in Seq(ToSet(s)) /\ \A i \in DOMAIN s : s[i] \in Scored(N)
      BY DEF ToSet
    <3>2. \A n \in Scored(N) : n \in N /\ n.contribution # {} /\ ~n.other
      BY DEF Scored
    <3>3. \A n \in Scored(N) : Driver(n)'
      <4> SUFFICES ASSUME NEW n \in Scored(N) PROVE Driver(n)'
        OBVIOUS
      <4>1. n \in N /\ n.contribution # {}
        BY <3>2
      <4>2. n \in Fields(n)
        BY <2>2, <4>1 DEF Offered
      <4>3. PICK i \in DOMAIN level'[d] : level'[d][i] = Placed(n, N, c)
        BY <2>7, <4>1
      <4>4. level'[d][i].path = n.path /\ level'[d][i].ranked /\ level'[d][i].contribution # {}
        BY <2>8, <4>1, <4>3
      <4>5. n.path \in Path /\ Len(n.path) = 1 /\ n.path[1][1] = d
        BY <2>5, <4>1
      <4> QED
        BY <2>6, <2>10, <4>2, <4>4, <4>5 DEF Driver
    <3>4. ASSUME NEW i \in DOMAIN s, NEW j \in DOMAIN s, s[i].path = s[j].path PROVE i = j
      <4>1. s[i] \in N /\ s[j] \in N /\ ~s[i].other
        BY <3>1, <3>2
      <4>2. s[i] = s[j]
        BY <2>2, <3>4, <4>1 DEF Offered, Twins
      <4> QED
        BY <4>2 DEF Once
    <3> QED
      BY <3>1, <3>3, <3>4 DEF DriverList
  <2>14. DriversListed'
    BY <2>3, <2>9, <2>13 DEF DriversListed
  <2>15. /\ queue' \in Seq(TreePaths') /\ Once(queue') /\ Len(queue') <= Branching[1]
         /\ \A p \in TreePaths' : p \in Path /\ Len(p) = 1
    <3>1. TreePaths' = {t.path : t \in e.nodes}
      BY <2>3 DEF TreePaths
    <3>2. \A t \in e.nodes : t.path \in Path /\ Len(t.path) = 1
      <4> SUFFICES ASSUME NEW t \in e.nodes PROVE t.path \in Path /\ Len(t.path) = 1
        OBVIOUS
      <4>1. PICK n \in N : t.path = n.path
        BY <2>2 DEF Growth
      <4> QED
        BY <2>5, <4>1
    <3> QED
      BY <2>2, <2>3, <3>1, <3>2, BranchingIs DEF Growth
  <2>16. queue' \in Seq(Path) /\ ToSet(queue') \subseteq TreePaths' /\ \A i \in DOMAIN queue' : queue'[i] \in TreePaths'
    BY <2>15 DEF ToSet
  <2>17. Waiting'
    <3>1. \A i \in DOMAIN queue' : \A p \in TreePaths' : ~Extends(p, queue'[i])
      BY <2>15, <2>16 DEF Extends
    <3> QED
      BY <1>10, <2>15, <2>16, <3>1 DEF Waiting
  <2>18. Counted'
    <3> DEFINE Q == ToSet(queue')
    <3>1. DrilledPaths' \cup Q = Q
      BY <1>10
    <3>2. IsFiniteSet(Q) /\ Cardinality(Q) <= Len(queue') /\ Len(queue') \in Nat
      BY <2>16, SequenceFinite
    <3>3. \A p \in Q : Len(p) = 1
      BY <2>15, <2>16
    <3> HIDE DEF Q
    <3>4. Cardinality(OfLength(Q, 1)) <= Branching[1]
      <4>1. Cardinality(OfLength(Q, 1)) \in Nat /\ Cardinality(OfLength(Q, 1)) <= Cardinality(Q)
            /\ Cardinality(Q) \in Nat
        BY <3>2, OfLengthIs, FS_CardinalityType
      <4> QED
        BY <2>15, <3>2, <4>1, BranchingIs
    <3>5. OfLength(Q, 2) = {}
      BY <3>3 DEF OfLength
    <3>6. Cardinality(OfLength(Q, 2)) = 0
      BY <3>5, FS_EmptySet
    <3>7. Cardinality(OfLength(DrilledPaths', 1)) = 0
      BY <1>10, NothingCounted
    <3> QED
      BY <1>10, <2>16, <3>1, <3>4, <3>6, <3>7, NothingCounted DEF Counted, Q
  <2> QED
    BY <1>9, <1>11, <2>12, <2>14, <2>17, <2>18 DEF RcaInv
<1> QED
  BY <1>12, <1>13

LEMMA TailIs ==
    ASSUME NEW T, NEW s \in Seq(T), s # <<>>
    PROVE  /\ 1 \in DOMAIN s /\ s[1] \in T /\ Tail(s) \in Seq(T)
           /\ \A i \in DOMAIN Tail(s) :
                i + 1 \in DOMAIN s /\ i + 1 # 1 /\ Tail(s)[i] = s[i + 1] /\ i \in Int
           /\ ToSet(Tail(s)) \subseteq ToSet(s)
<1>1. Len(s) \in Nat \ {0} /\ DOMAIN s = 1..Len(s)
  OBVIOUS
<1>2. /\ Tail(s) \in Seq(T) /\ Len(Tail(s)) = Len(s) - 1
      /\ \A i \in 1..(Len(s) - 1) : Tail(s)[i] = s[i + 1]
  OBVIOUS
<1>3. DOMAIN Tail(s) = 1..(Len(s) - 1)
  BY <1>2
<1>4. \A i \in DOMAIN Tail(s) :
         i + 1 \in DOMAIN s /\ i + 1 # 1 /\ Tail(s)[i] = s[i + 1] /\ i \in Int
  BY <1>1, <1>2, <1>3
<1>5. ToSet(Tail(s)) \subseteq ToSet(s)
  BY <1>4 DEF ToSet
<1> QED
  BY <1>1, <1>2, <1>4, <1>5

\* One path is the beginning of another.
LEMMA ExtendsIs ==
    ASSUME NEW p \in Path, NEW q \in Path
    PROVE  Extends(p, q) <=> Len(q) < Len(p) /\ \A i \in 1..Len(q) : p[i] = q[i]
<1>1. Len(p) \in Nat /\ Len(q) \in Nat /\ DOMAIN q = 1..Len(q)
  BY DEF Path
<1>2. q = [i \in 1..Len(q) |-> q[i]]
  BY DEF Path
<1>3. SubSeq(p, 1, Len(q)) = [i \in 1..Len(q) |-> p[i]]
  <2>1. SubSeq(p, 1, Len(q)) = [i \in 1..(Len(q) - 1 + 1) |-> p[i + 1 - 1]]
    BY <1>1 DEF Path
  <2>2. Len(q) - 1 + 1 = Len(q) /\ \A i \in 1..Len(q) : i + 1 - 1 = i
    BY <1>1
  <2> QED
    BY <2>1, <2>2
<1> DEFINE h == SubSeq(p, 1, Len(q))
<1>4. \A i \in 1..Len(q) : h[i] = p[i]
  BY <1>3
<1>5. h = q => \A i \in 1..Len(q) : p[i] = q[i]
  BY <1>4
<1>6. (\A i \in 1..Len(q) : p[i] = q[i]) => h = q
  BY <1>2, <1>3
<1> QED
  BY <1>5, <1>6 DEF Extends

\* What lies below a path and a step, above it, and at it.
LEMMA StepExtends ==
    ASSUME NEW p \in Path, NEW d \in Dimension, NEW s \in Segment
    PROVE  LET q == Append(p, <<d, s>>)
           IN  /\ Extends(q, p)
               /\ \A r \in Path : Extends(r, q) => Extends(r, p)
               /\ \A r \in Path : Extends(q, r) => r = p \/ Extends(p, r)
<1> DEFINE q == Append(p, <<d, s>>)
<1>1. /\ q \in Path /\ Len(q) = Len(p) + 1 /\ \A i \in DOMAIN p : q[i] = p[i]
      /\ Len(p) \in Nat
  BY PathStep
<1> HIDE DEF q
<1>2. DOMAIN p = 1..Len(p)
  BY DEF Path
<1>3. Extends(q, p)
  BY <1>1, <1>2, ExtendsIs
<1>4. ASSUME NEW r \in Path, Extends(r, q) PROVE Extends(r, p)
  <2>1. Len(q) < Len(r) /\ \A i \in 1..Len(q) : r[i] = q[i]
    BY <1>1, <1>4, ExtendsIs
  <2>2. Len(r) \in Nat
    BY DEF Path
  <2>3. Len(p) < Len(r) /\ \A i \in 1..Len(p) : r[i] = p[i]
    BY <1>1, <1>2, <2>1, <2>2
  <2> QED
    BY <2>3, ExtendsIs
<1>5. ASSUME NEW r \in Path, Extends(q, r) PROVE r = p \/ Extends(p, r)
  <2>1. Len(r) < Len(q) /\ \A i \in 1..Len(r) : q[i] = r[i]
    BY <1>1, <1>5, ExtendsIs
  <2>2. Len(r) \in Nat /\ DOMAIN r = 1..Len(r) /\ r = [i \in 1..Len(r) |-> r[i]]
    BY DEF Path
  <2>3. Len(r) <= Len(p) /\ \A i \in 1..Len(r) : p[i] = r[i]
    BY <1>1, <1>2, <2>1, <2>2
  <2>4. CASE Len(r) = Len(p)
    <3>1. p = [i \in 1..Len(p) |-> p[i]]
      BY DEF Path
    <3> QED
      BY <2>2, <2>3, <2>4, <3>1
  <2>5. CASE Len(r) # Len(p)
    BY <1>1, <2>2, <2>3, <2>5, ExtendsIs
  <2> QED
    BY <2>4, <2>5
<1> QED
  BY <1>3, <1>4, <1>5 DEF q

LEMMA OtherSuccessor == \A k \in Nat : k # 1 => k + 1 # 2
  OBVIOUS

\* One path more is drilled into, and some a step below it wait: the bounds still hold.
LEMMA CountMore ==
    ASSUME NEW D, NEW Q, IsFiniteSet(D), IsFiniteSet(Q), NEW p \in Q, p \notin D,
           p \in Path, p # <<>>,
           NEW F, IsFiniteSet(F), \A f \in F : Len(f) = Len(p) + 1,
           Cardinality(F) <= BranchingAt(Len(p) + 1), NEW R, R \subseteq Q \cup F,
           Cardinality(OfLength(D \cup Q, 1)) <= Branching[1],
           Cardinality(OfLength(D \cup Q, 2)) <= BelowFirst * Cardinality(OfLength(D, 1))
    PROVE  /\ Cardinality(OfLength(D \cup {p} \cup R, 1)) <= Branching[1]
           /\ Cardinality(OfLength(D \cup {p} \cup R, 2))
                <= BelowFirst * Cardinality(OfLength(D \cup {p}, 1))
<1> DEFINE E == D \cup {p}
           one == OfLength(D, 1)
           c == Cardinality(one)
           two == OfLength(D \cup Q, 2)
<1>1. IsFiniteSet(E) /\ IsFiniteSet(D \cup Q)
  BY FS_Union, FS_AddElement
<1>2. Len(p) \in Nat \ {0}
  BY DEF Path
<1>3. Branching[1] \in Nat /\ BelowFirst \in Nat /\ BranchingAt(2) = BelowFirst
  BY BranchingIs
<1>4. Cardinality(OfLength(E \cup R, 1)) <= Branching[1]
  <2>1. ASSUME NEW x \in OfLength(E \cup R, 1) PROVE x \in OfLength(D \cup Q, 1)
    <3>1. Len(x) = 1 /\ Len(p) + 1 # 1
      BY <1>2 DEF OfLength
    <3>2. x \notin F
      BY <3>1
    <3>3. x \in D \cup Q
      BY <3>2 DEF OfLength
    <3> QED
      BY <3>1, <3>3 DEF OfLength
  <2>2. IsFiniteSet(OfLength(D \cup Q, 1))
    BY <1>1, OfLengthIs
  <2> HIDE DEF E
  <2>3. /\ Cardinality(OfLength(E \cup R, 1)) \in Nat /\ Cardinality(OfLength(D \cup Q, 1)) \in Nat
        /\ Cardinality(OfLength(E \cup R, 1)) <= Cardinality(OfLength(D \cup Q, 1))
    BY <2>1, <2>2, Fewer
  <2> QED
    BY <1>3, <2>3
<1>5. IsFiniteSet(one) /\ c \in Nat
  BY OfLengthIs
<1>6. IsFiniteSet(two) /\ Cardinality(two) \in Nat
  BY <1>1, OfLengthIs
<1>7. CASE Len(p) = 1
  <2>1. OfLength(E, 1) = one \cup {p}
    BY <1>7 DEF OfLength
  <2>2. p \notin one
    BY DEF OfLength
  <2> HIDE DEF one
  <2>3. Cardinality(OfLength(E, 1)) = c + 1
    BY <1>5, <2>1, <2>2, FS_AddElement
  <2>4. OfLength(E \cup R, 2) \subseteq two \cup F
    BY <1>7 DEF OfLength
  <2> HIDE DEF two, E
  <2>5. IsFiniteSet(two \cup F) /\ Cardinality(two \cup F) <= Cardinality(two) + Cardinality(F)
        /\ Cardinality(F) \in Nat
    <3>1. /\ IsFiniteSet(two \cup F) /\ IsFiniteSet(two \cap F)
          /\ Cardinality(two \cup F) = Cardinality(two) + Cardinality(F) - Cardinality(two \cap F)
      BY <1>6, FS_Union, FS_Intersection
    <3>2. Cardinality(two \cap F) \in Nat /\ Cardinality(F) \in Nat /\ Cardinality(two \cup F) \in Nat
      BY <3>1, FS_CardinalityType
    <3> QED
      BY <1>6, <3>1, <3>2
  <2>6. /\ Cardinality(OfLength(E \cup R, 2)) \in Nat /\ Cardinality(two \cup F) \in Nat
        /\ Cardinality(OfLength(E \cup R, 2)) <= Cardinality(two \cup F)
    BY <2>4, <2>5, Fewer
  <2>7. Cardinality(F) <= BelowFirst
    BY <1>3, <1>7
  <2>8. Cardinality(two) <= BelowFirst * c
    BY DEF two, one
  <2> HIDE DEF c
  <2>9. BelowFirst * (c + 1) = BelowFirst * c + BelowFirst /\ BelowFirst * c \in Nat
    BY <1>3, <1>5
  <2>10. Cardinality(OfLength(E \cup R, 2)) <= BelowFirst * (c + 1)
    BY <1>3, <1>6, <2>5, <2>6, <2>7, <2>8, <2>9
  <2> QED
    BY <1>4, <2>3, <2>10 DEF E
<1>8. CASE Len(p) # 1
  <2>1. OfLength(E, 1) = one
    BY <1>8 DEF OfLength
  <2>2. ASSUME NEW x \in OfLength(E \cup R, 2) PROVE x \in two
    <3>1. Len(x) = 2
      BY DEF OfLength
    <3>2. x \notin F
      <4>1. Len(p) \in Nat
        BY <1>2
      <4>2. Len(p) + 1 # 2
        BY <1>8, <4>1, OtherSuccessor, Zenon
      <4> QED
        BY <3>1, <4>2, Zenon
    <3>3. x \in D \cup Q
      BY <3>2 DEF OfLength
    <3> QED
      BY <3>1, <3>3 DEF OfLength
  <2> HIDE DEF E, two
  <2>3. Cardinality(OfLength(E \cup R, 2)) \in Nat /\ Cardinality(OfLength(E \cup R, 2)) <= Cardinality(two)
    BY <1>6, <2>2, Fewer
  <2>4. Cardinality(two) <= BelowFirst * c
    BY DEF two
  <2> HIDE DEF c
  <2>5. BelowFirst * c \in Nat
    BY <1>3, <1>5
  <2>6. Cardinality(OfLength(E \cup R, 2)) <= BelowFirst * c
    BY <1>6, <2>3, <2>4, <2>5
  <2> QED
    BY <1>4, <2>1, <2>6 DEF E, c
<1> QED
  BY <1>7, <1>8

\* The node to expand: nothing is known below it.
LEMMA ExpandingIs ==
    ASSUME RcaInv, rcaStage = "drill", queue # <<>>
    PROVE  /\ Given /\ queue \in Seq(Path) /\ Once(queue) /\ trace \in Seq(StatementType)
           /\ Expanding \in tree /\ Expanding.path = queue[1]
           /\ Expanding \in Fields(Expanding)
           /\ queue[1] \in Path /\ queue[1] # <<>> /\ queue[1] \in TreePaths
           /\ queue[1] \notin DrilledPaths /\ \A p \in TreePaths : ~Extends(p, queue[1])
           /\ \A n \in tree : n.path \in Path
<1>1. PICK a \in Analyses : task = {a}
  BY DEF RcaInv, Shaped
<1>2. queue \in Seq(Path) /\ Once(queue) /\ trace \in Seq(StatementType)
  BY DEF RcaInv, Waiting, Shaped
<1>3. 1 \in DOMAIN queue /\ queue[1] \in Path
  BY <1>2, TailIs
<1>4. /\ queue[1] \in TreePaths /\ queue[1] \notin DrilledPaths
      /\ \A p \in TreePaths : ~Extends(p, queue[1])
  BY <1>3 DEF RcaInv, Waiting
<1>5. \E n \in tree : n.path = queue[1]
  BY <1>4 DEF TreePaths
<1>6. Expanding \in tree /\ Expanding.path = queue[1]
  BY <1>5 DEF Expanding
<1>7. \A n \in tree : n \in Fields(n) /\ n.path \in Path /\ n.path # <<>>
  BY DEF RcaInv, TreeGrown, Grown
<1>8. Expanding \in Fields(Expanding) /\ queue[1] # <<>>
  BY <1>6, <1>7
<1> QED
  BY <1>1, <1>2, <1>3, <1>4, <1>6, <1>7, <1>8, GivenIs

\* A node is marked, and others are found a step below it.
LEMMA Regrown ==
    ASSUME RcaInv, UNCHANGED <<task, level>>, NEW node \in tree, NEW x, x \in Fields(x),
           x.path = node.path, x.contribution = node.contribution, x.other = node.other,
           NEW new, IsFiniteSet(new), \A p \in TreePaths : ~Extends(p, node.path),
           \A t \in new : /\ t \in Fields(t) /\ ~t.other
                          /\ \E d \in Dimension, s \in Segment : t.path = Append(node.path, <<d, s>>),
           \A s, t \in new : s.path = t.path => s = t,
           DrilledPaths \subseteq DrilledPaths', new # {} => node.path \in DrilledPaths',
           tree' = (tree \ {node}) \cup {x} \cup new
    PROVE  TreeGrown' /\ TreePaths' = TreePaths \cup {t.path : t \in new}
<1>1. /\ IsFiniteSet(tree) /\ \A n \in tree : Grown(n)
      /\ \A m, n \in tree : m.path = n.path => m = n \/ Twins(m, n)
  BY DEF RcaInv, TreeGrown
<1>2. /\ \A n \in tree : Grown(n)'
      /\ \A m, n : Twins(m, n)' <=> Twins(m, n)
  BY <1>1, GrownStays, Stays
<1>3. IsFiniteSet(tree')
  <2>1. IsFiniteSet(tree \ {node})
    BY <1>1, FS_RemoveElement
  <2>2. IsFiniteSet((tree \ {node}) \cup {x})
    BY <2>1, FS_AddElement
  <2>3. IsFiniteSet((tree \ {node}) \cup {x} \cup new)
    BY <2>2, FS_Union
  <2> QED
    BY <2>3
<1>4. Grown(x)'
  <2>1. Grown(node)'
    BY <1>2
  <2> QED
    BY <2>1 DEF Grown
<1>5. node.path \in Path /\ node.path # <<>> /\ node.path \in TreePaths
  BY <1>1 DEF Grown, TreePaths
<1>6. \A t \in new : Grown(t)' /\ Extends(t.path, node.path) /\ t.path # node.path
  <2> SUFFICES ASSUME NEW t \in new PROVE Grown(t)' /\ Extends(t.path, node.path) /\ t.path # node.path
    OBVIOUS
  <2>1. PICK d \in Dimension, s \in Segment : t.path = Append(node.path, <<d, s>>)
    OBVIOUS
  <2> DEFINE p == node.path
             q == Append(p, <<d, s>>)
  <2>0. p \in Path /\ p # <<>> /\ t.path = q
    BY <1>5, <2>1
  <2> HIDE DEF p
  <2>2. /\ q \in Path /\ q # <<>> /\ Len(q) = Len(p) + 1 /\ Front(q) = p /\ Len(p) \in Nat
    BY <2>0, PathStep
  <2>3. Extends(q, p)
    BY <2>0, StepExtends
  <2>4. Len(p) # 0
    BY <2>0 DEF Path
  <2>5. t.path = q /\ p \in DrilledPaths'
    BY <2>0 DEF p
  <2> HIDE DEF q
  <2>6. Len(t.path) > 1 /\ Len(t.path) # 1
    BY <2>2, <2>4, <2>5
  <2>7. Grown(t)'
    BY <2>2, <2>5, <2>6 DEF Grown
  <2>8. t.path # p
    BY <2>2, <2>5
  <2> QED
    BY <2>3, <2>5, <2>7, <2>8 DEF p
<1>7. \A n \in tree' : Grown(n)'
  BY <1>2, <1>4, <1>6
<1>8. \A n \in (tree \ {node}) \cup {x} : n.path \in TreePaths
  BY <1>5 DEF TreePaths
<1>9. ASSUME NEW m \in tree', NEW n \in tree', m.path = n.path PROVE m = n \/ Twins(m, n)
  <2>1. CASE m \in new
    <3>1. n \notin (tree \ {node}) \cup {x}
      BY <1>6, <1>8, <1>9, <2>1
    <3> QED
      BY <1>9, <2>1, <3>1
  <2>2. CASE n \in new
    <3>1. m \notin (tree \ {node}) \cup {x}
      BY <1>6, <1>8, <1>9, <2>2
    <3> QED
      BY <1>9, <2>2, <3>1
  <2>3. CASE m \in tree \ {node} /\ n \in tree \ {node}
    BY <1>1, <1>9, <2>3
  <2>4. CASE m \in tree \ {node} /\ n = x
    <3>1. Twins(m, node)
      BY <1>1, <1>9, <2>4
    <3> QED
      BY <2>4, <3>1 DEF Twins
  <2>5. CASE m = x /\ n \in tree \ {node}
    <3>1. Twins(node, n)
      BY <1>1, <1>9, <2>5
    <3> QED
      BY <2>5, <3>1 DEF Twins
  <2>6. CASE m = x /\ n = x
    BY <2>6
  <2> QED
    BY <1>9, <2>1, <2>2, <2>3, <2>4, <2>5, <2>6
<1>10. TreeGrown'
  BY <1>2, <1>3, <1>7, <1>9 DEF TreeGrown
<1>11. TreePaths' = TreePaths \cup {t.path : t \in new}
  <2>1. TreePaths' = {n.path : n \in tree'} /\ TreePaths = {n.path : n \in tree}
    BY DEF TreePaths
  <2>2. \A p : p \in TreePaths' => p \in TreePaths \cup {t.path : t \in new}
    BY <1>8, <2>1
  <2>3. \A p \in TreePaths : p \in TreePaths'
    <3> SUFFICES ASSUME NEW n \in tree PROVE n.path \in TreePaths'
      BY <2>1
    <3>1. CASE n = node
      BY <2>1, <3>1
    <3>2. CASE n # node
      BY <2>1, <3>2
    <3> QED
      BY <3>1, <3>2
  <2>4. \A t \in new : t.path \in TreePaths'
    BY <2>1
  <2> QED
    BY <2>2, <2>3, <2>4
<1> QED
  BY <1>10, <1>11

\* What one step of _drill does, without the singletons that name its values.
LEMMA DrillOutcome ==
    ASSUME DrillNode
    PROVE  LET remaining == Remaining(queue[1])
               found == Descend(Expanding, remaining)
           IN  /\ rcaStage = "drill" /\ queue # <<>>
               /\ UNCHANGED <<rcaStage, task, level, drivers>>
               /\ \/ /\ \E stop : tree' = (tree \ {Expanding}) \cup {[Expanding EXCEPT !.stop = stop]}
                     /\ queue' = Tail(queue) /\ trace' = trace
                  \/ /\ StopReason(Expanding, remaining) = "no"
                     /\ tree' = (tree \ {Expanding}) \cup {Expanded(Expanding, found)}
                                   \cup UNION {e.nodes : e \in found}
                     /\ queue' = Tail(queue)
                                   \o (IF found = {} THEN <<>> ELSE TheOne(found).frontier)
                     /\ Drilled(Expanding.path)
<1>1. /\ rcaStage = "drill" /\ queue # <<>>
      /\ UNCHANGED <<rcaStage, task, level, drivers>>
  BY DEF DrillNode
<1>2. PICK node \in {Expanding}, remaining \in {Remaining(queue[1])} :
       \E stop \in {StopReason(node, remaining)} :
          IF stop # "no"
          THEN /\ tree' = (tree \ {node}) \cup {[node EXCEPT !.stop = stop]}
               /\ queue' = Tail(queue)
               /\ UNCHANGED trace
          ELSE \E found \in {Descend(node, remaining)} :
               /\ tree' = (tree \ {node}) \cup {Expanded(node, found)}
                             \cup UNION {e.nodes : e \in found}
               /\ queue' = Tail(queue) \o (IF found = {} THEN <<>> ELSE TheOne(found).frontier)
               /\ Drilled(node.path)
  BY Zenon DEF DrillNode
<1>3. node = Expanding /\ remaining = Remaining(queue[1])
  OBVIOUS
<1>4. CASE StopReason(node, remaining) # "no"
  <2>1. /\ tree' = (tree \ {node}) \cup {[node EXCEPT !.stop = StopReason(node, remaining)]}
        /\ queue' = Tail(queue) /\ trace' = trace
    BY <1>2, <1>4
  <2>2. \E stop : tree' = (tree \ {Expanding}) \cup {[Expanding EXCEPT !.stop = stop]}
    BY <1>3, <2>1
  <2> QED
    BY <1>1, <2>1, <2>2
<1>5. CASE StopReason(node, remaining) = "no"
  <2>1. \E found \in {Descend(node, remaining)} :
               /\ tree' = (tree \ {node}) \cup {Expanded(node, found)}
                             \cup UNION {e.nodes : e \in found}
               /\ queue' = Tail(queue) \o (IF found = {} THEN <<>> ELSE TheOne(found).frontier)
               /\ Drilled(node.path)
    BY <1>2, <1>5
  <2> QED
    BY <1>1, <1>3, <1>5, <2>1, Zenon
<1> QED
  BY <1>4, <1>5

LEMMA DescendIs ==
    ASSUME Given, NEW node, node.path \in Path, node.path # <<>>,
           NEW remaining \in Seq(Dimension)
    PROVE  LET found == Descend(node, remaining)
           IN  \/ found = {}
               \/ \E d \in Dimension : \E e, N :
                    /\ found = {e} /\ TheOne(found) = e
                    /\ Offered(N, d, node.path) /\ Growth(e, N, d, Len(node.path) + 1)
<1> DEFINE nodes == [d \in ToSet(remaining) |-> NodesUnder(node.path, Breakdown(d, Under(node.path)))]
           found == Descend(node, remaining)
<1>1. found = Descended(node, remaining, nodes)
  BY DEF Descend
<1>2. \A d \in ToSet(remaining) : d \in Dimension
  BY DEF ToSet
<1>3. \A d \in ToSet(remaining) : Candidates(nodes[d], d, node.path)
  BY <1>2, UnderIs
<1> HIDE DEF nodes
<1>4. found = Expansions(Choose(nodes, remaining, node.change), nodes, Len(node.path) + 1)
  BY <1>1 DEF Descended
<1> HIDE DEF found
<1> DEFINE path == node.path
           depth == Len(node.path) + 1
           change == node.change
<1>5. depth \in Nat \ {0} /\ \A d \in ToSet(remaining) : Candidates(nodes[d], d, path)
  BY <1>3 DEF Path
<1>6. found = Expansions(Choose(nodes, remaining, change), nodes, depth)
  BY <1>4
<1> HIDE DEF path, depth, change
<1> DEFINE g == Expansions(Choose(nodes, remaining, change), nodes, depth)
<1>7. \/ g = {}
      \/ \E d \in ToSet(remaining) : \E e :
           \E N \in SUBSET ToSet(nodes[d]) :
              g = {e} /\ TheOne(g) = e /\ Offered(N, d, path) /\ Growth(e, N, d, depth)
  BY <1>5, ExpansionsAre
<1>8. found = g
  BY <1>6
<1> HIDE DEF g
<1>9. \/ found = {}
      \/ \E d \in Dimension : \E e, N :
           found = {e} /\ TheOne(found) = e /\ Offered(N, d, path) /\ Growth(e, N, d, depth)
  BY <1>2, <1>7, <1>8
<1> QED
  BY <1>9 DEF found, path, depth

\* What is found under a path, whether anything was or not.
LEMMA FoundIs ==
    ASSUME NEW path \in Path, path # <<>>, NEW found,
           \/ found = {}
           \/ \E d \in Dimension : \E e, N :
                /\ found = {e} /\ TheOne(found) = e
                /\ Offered(N, d, path) /\ Growth(e, N, d, Len(path) + 1)
    PROVE  LET new == UNION {e.nodes : e \in found}
               F == IF found = {} THEN <<>> ELSE TheOne(found).frontier
           IN  /\ IsFiniteSet(new)
               /\ \A t \in new : /\ t \in Fields(t) /\ ~t.other
                                 /\ \E d \in Dimension, s \in Segment : t.path = Append(path, <<d, s>>)
               /\ \A s, t \in new : s.path = t.path => s = t
               /\ F \in Seq({t.path : t \in new}) /\ Once(F)
               /\ Len(F) <= BranchingAt(Len(path) + 1)
<1> DEFINE new == UNION {e.nodes : e \in found}
           F == IF found = {} THEN <<>> ELSE TheOne(found).frontier
<1>1. CASE found = {}
  <2>1. new = {} /\ F = <<>>
    BY <1>1
  <2>2. Len(path) + 1 \in Nat \ {0}
    BY DEF Path
  <2>3. 0 <= BranchingAt(Len(path) + 1)
    BY <2>2, BranchingIs
  <2> HIDE DEF new, F
  <2>4. IsFiniteSet(new)
    BY <2>1, FS_EmptySet
  <2>5. F \in Seq({t.path : t \in new}) /\ Once(F) /\ Len(F) = 0
    BY <2>1 DEF Once
  <2>6. /\ IsFiniteSet(new)
        /\ \A t \in new : /\ t \in Fields(t) /\ ~t.other
                          /\ \E d \in Dimension, s \in Segment : t.path = Append(path, <<d, s>>)
        /\ \A s, t \in new : s.path = t.path => s = t
    BY <2>1, <2>4
  <2> QED
    BY <2>3, <2>5, <2>6 DEF new, F
<1>2. CASE found # {}
  <2>0. PICK d \in Dimension :
           \E e, N : /\ found = {e} /\ TheOne(found) = e
                     /\ Offered(N, d, path) /\ Growth(e, N, d, Len(path) + 1)
    BY <1>2
  <2>1. PICK e, N : /\ found = {e} /\ TheOne(found) = e
                    /\ Offered(N, d, path) /\ Growth(e, N, d, Len(path) + 1)
    BY <2>0
  <2>2. new = e.nodes /\ F = e.frontier
    BY <1>2, <2>1
  <2> HIDE DEF new, F
  <2>3. /\ IsFiniteSet(new) /\ F \in Seq({t.path : t \in new}) /\ Once(F)
        /\ Len(F) <= BranchingAt(Len(path) + 1)
    BY <2>1, <2>2 DEF Growth
  <2>4. ASSUME NEW t \in new
        PROVE  /\ t \in Fields(t) /\ ~t.other
               /\ \E s \in Segment : t.path = Append(path, <<d, s>>)
    <3>1. t \in Fields(t)
      BY <2>1, <2>2 DEF Growth
    <3>2. PICK n \in N : t.path = n.path /\ t.other = n.other
      BY <2>1, <2>2 DEF Growth
    <3> QED
      BY <2>1, <3>1, <3>2 DEF Offered
  <2>5. \A s, t \in new : s.path = t.path => s = t
    BY <2>1, <2>2, <2>4 DEF Growth, Twins
  <2>6. \A t \in new : \E x \in Dimension, s \in Segment : t.path = Append(path, <<x, s>>)
    BY <2>1, <2>4
  <2> QED
    BY <2>3, <2>4, <2>5, <2>6 DEF new, F
<1> QED
  BY <1>1, <1>2

LEMMA ExpandedIs ==
    ASSUME NEW node, node \in Fields(node), NEW found
    PROVE  LET x == Expanded(node, found)
           IN  x \in Fields(x) /\ x.path = node.path /\ x.contribution = node.contribution
               /\ x.other = node.other
<1> DEFINE c == TheOne(found).dimension
           s == TheOne(found).split
           p == [node EXCEPT !.child = c, !.split = s]
           u == [node EXCEPT !.stop = "uniform_within_segment"]
<1>1. u \in Fields(u) /\ u.path = node.path /\ u.contribution = node.contribution /\ u.other = node.other
  BY StoppedIs
<1>2. p \in Fields(p) /\ p.path = node.path /\ p.contribution = node.contribution /\ p.other = node.other
  <2> HIDE DEF c, s
  <2> QED
    BY DEF Fields
<1>3. Expanded(node, found) = IF found = {} THEN u ELSE p
  BY DEF Expanded
<1> HIDE DEF u, p
<1> QED
  BY <1>1, <1>2, <1>3

\* What waits after a drill-down: the others, and what was found.
LEMMA WaitingBelow ==
    ASSUME RcaInv, rcaStage = "drill", queue # <<>>, NEW path, path = queue[1],
           NEW below, \A q \in below : \E d \in Dimension, s \in Segment : q = Append(path, <<d, s>>),
           NEW F \in Seq(below), Once(F), queue' = Tail(queue) \o F,
           TreePaths' = TreePaths \cup below, DrilledPaths' = DrilledPaths \cup {path}
    PROVE  /\ Waiting' /\ queue' \in Seq(Path)
           /\ ToSet(queue') \subseteq ToSet(queue) \cup ToSet(F)
           /\ \A q \in ToSet(F) : Len(q) = Len(path) + 1
<1>1. /\ queue \in Seq(Path) /\ Once(queue) /\ path \in Path
      /\ path \in TreePaths /\ path \notin DrilledPaths /\ \A p \in TreePaths : p \in Path /\ ~Extends(p, path)
  BY ExpandingIs DEF TreePaths
<1>2. /\ DrilledPaths \subseteq TreePaths
      /\ \A i \in DOMAIN queue :
           /\ queue[i] \in TreePaths /\ queue[i] \notin DrilledPaths
           /\ \A p \in TreePaths : ~Extends(p, queue[i])
  BY DEF RcaInv, Waiting
<1>3. \A q \in below :
        /\ q \in Path /\ Len(q) = Len(path) + 1 /\ Extends(q, path)
        /\ \A r \in Path : Extends(r, q) => Extends(r, path)
        /\ \A r \in Path : Extends(q, r) => r = path \/ Extends(path, r)
  <2> SUFFICES ASSUME NEW q \in below
               PROVE  /\ q \in Path /\ Len(q) = Len(path) + 1 /\ Extends(q, path)
                      /\ \A r \in Path : Extends(r, q) => Extends(r, path)
                      /\ \A r \in Path : Extends(q, r) => r = path \/ Extends(path, r)
    OBVIOUS
  <2>1. PICK d \in Dimension, s \in Segment : q = Append(path, <<d, s>>)
    OBVIOUS
  <2> DEFINE x == Append(path, <<d, s>>)
  <2>2. x \in Path /\ Len(x) = Len(path) + 1
    BY <1>1, PathStep
  <2>3. /\ Extends(x, path)
        /\ \A r \in Path : Extends(r, x) => Extends(r, path)
        /\ \A r \in Path : Extends(x, r) => r = path \/ Extends(path, r)
    BY <1>1, StepExtends
  <2> HIDE DEF x
  <2>4. q = x
    BY <2>1 DEF x
  <2> QED
    BY <2>2, <2>3, <2>4
<1>4. \A q \in below : q \notin TreePaths
  BY <1>1, <1>3
<1> DEFINE t == Tail(queue)
<1>5. /\ t \in Seq(Path) /\ ToSet(t) \subseteq ToSet(queue) /\ 1 \in DOMAIN queue
      /\ \A i \in DOMAIN t : i + 1 \in DOMAIN queue /\ i + 1 # 1 /\ t[i] = queue[i + 1] /\ i \in Int
  BY <1>1, TailIs
<1>6. F \in Seq(Path) /\ \A i \in DOMAIN F : F[i] \in below
  <2>1. \A i \in DOMAIN F : F[i] \in below
    OBVIOUS
  <2>2. below \subseteq Path
    BY <1>3
  <2> QED
    BY <2>1, <2>2
<1>7. \A i \in DOMAIN t : t[i] \in TreePaths /\ t[i] \notin DrilledPaths /\ t[i] # path
         /\ \A p \in TreePaths : ~Extends(p, t[i])
  <2> SUFFICES ASSUME NEW i \in DOMAIN t
               PROVE  t[i] \in TreePaths /\ t[i] \notin DrilledPaths /\ t[i] # path
                       /\ \A p \in TreePaths : ~Extends(p, t[i])
    OBVIOUS
  <2>1. i + 1 \in DOMAIN queue /\ i + 1 # 1 /\ t[i] = queue[i + 1]
    BY <1>5
  <2>2. queue[i + 1] # queue[1]
    BY <1>1, <1>5, <2>1 DEF Once
  <2> QED
    BY <1>2, <2>1, <2>2
<1>8. Once(t)
  <2> SUFFICES ASSUME NEW i \in DOMAIN t, NEW j \in DOMAIN t, t[i] = t[j] PROVE i = j
    BY DEF Once
  <2>1. i + 1 = j + 1 /\ i \in Int /\ j \in Int
    BY <1>1, <1>5 DEF Once
  <2> QED
    BY <2>1
<1> HIDE DEF t
<1> DEFINE Q == t \o F
<1>9. /\ Q \in Seq(Path) /\ ToSet(Q) = ToSet(t) \cup ToSet(F)
      /\ \A i \in DOMAIN Q :
           \/ i \in DOMAIN t /\ Q[i] = t[i]
           \/ i - Len(t) \in DOMAIN F /\ Q[i] = F[i - Len(t)]
      /\ \A i \in DOMAIN Q : i \in Int /\ Len(t) \in Int
  <2>1. /\ Q \in Seq(Path) /\ ToSet(Q) = ToSet(t) \cup ToSet(F)
        /\ \A i \in DOMAIN Q :
             \/ i \in DOMAIN t /\ Q[i] = t[i]
             \/ i - Len(t) \in DOMAIN F /\ Q[i] = F[i - Len(t)]
    BY <1>5, <1>6, ConcatIs
  <2> HIDE DEF Q
  <2>2. \A i \in DOMAIN Q : i \in Int
    BY <2>1
  <2>3. Len(t) \in Int
    BY <1>5
  <2> QED
    BY <2>1, <2>2, <2>3
<1>10. queue' = Q
  BY DEF t
<1> HIDE DEF Q
<1>11. Once(Q)
  <2> SUFFICES ASSUME NEW i \in DOMAIN Q, NEW j \in DOMAIN Q, Q[i] = Q[j] PROVE i = j
    BY DEF Once
  <2>1. CASE i \in DOMAIN t /\ Q[i] = t[i]
    <3>1. Q[i] \notin below
      BY <1>4, <1>7, <2>1
    <3>2. j \in DOMAIN t /\ Q[j] = t[j]
      BY <1>6, <1>9, <3>1
    <3> QED
      BY <1>8, <2>1, <3>2 DEF Once
  <2>2. CASE i - Len(t) \in DOMAIN F /\ Q[i] = F[i - Len(t)]
    <3>1. Q[i] \notin TreePaths
      BY <1>4, <1>6, <2>2
    <3>2. j - Len(t) \in DOMAIN F /\ Q[j] = F[j - Len(t)]
      BY <1>7, <1>9, <3>1
    <3>3. i - Len(t) = j - Len(t)
      BY <2>2, <3>2 DEF Once
    <3> QED
      BY <1>9, <3>3
  <2> QED
    BY <1>9, <2>1, <2>2
<1>12. \A i \in DOMAIN Q :
         /\ Q[i] \in TreePaths \cup below /\ Q[i] \notin DrilledPaths /\ Q[i] # path
         /\ \A p \in TreePaths \cup below : ~Extends(p, Q[i])
  <2> SUFFICES ASSUME NEW i \in DOMAIN Q
               PROVE  /\ Q[i] \in TreePaths \cup below /\ Q[i] \notin DrilledPaths /\ Q[i] # path
                      /\ \A p \in TreePaths \cup below : ~Extends(p, Q[i])
    OBVIOUS
  <2>1. CASE i \in DOMAIN t /\ Q[i] = t[i]
    <3>1. /\ Q[i] \in TreePaths /\ Q[i] \notin DrilledPaths /\ Q[i] # path
          /\ \A p \in TreePaths : ~Extends(p, Q[i])
      BY <1>7, <2>1
    <3>2. \A p \in below : ~Extends(p, Q[i])
      BY <1>1, <1>3, <3>1
    <3> QED
      BY <3>1, <3>2
  <2>2. CASE i - Len(t) \in DOMAIN F /\ Q[i] = F[i - Len(t)]
    <3>1. Q[i] \in below
      BY <1>6, <2>2
    <3>2. Q[i] \notin TreePaths
      BY <1>4, <3>1
    <3>3. \A p \in TreePaths : ~Extends(p, Q[i])
      BY <1>1, <1>3, <3>1
    <3>4. \A p \in below : ~Extends(p, Q[i])
      <4> SUFFICES ASSUME NEW p \in below, Extends(p, Q[i]) PROVE FALSE
        OBVIOUS
      <4>1. Len(Q[i]) < Len(p) /\ Len(Q[i]) = Len(path) + 1 /\ Len(p) = Len(path) + 1
        BY <1>3, <3>1 DEF Extends
      <4>2. Len(path) \in Nat
        BY <1>1 DEF Path
      <4> QED
        BY <4>1, <4>2
    <3> QED
      BY <1>1, <1>2, <3>1, <3>2, <3>3, <3>4
  <2> QED
    BY <1>9, <2>1, <2>2
<1>13. Waiting'
  <2>1. DrilledPaths' \subseteq TreePaths'
    BY <1>1, <1>2
  <2> QED
    BY <1>9, <1>10, <1>11, <1>12, <2>1 DEF Waiting
<1>14. \A q \in ToSet(F) : Len(q) = Len(path) + 1
  BY <1>3, <1>6 DEF ToSet
<1> QED
  BY <1>5, <1>9, <1>10, <1>13, <1>14

\* What was drilled into so far, as a set.
LEMMA DrilledFinite ==
    ASSUME trace \in Seq(StatementType) PROVE IsFiniteSet(DrilledPaths)
<1> DEFINE f == [i \in Drills |-> trace[i].node]
<1>1. IsFiniteSet(Drills)
  <2>1. IsFiniteSet(DOMAIN trace) /\ Drills \subseteq DOMAIN trace
    BY SequenceFinite DEF Drills
  <2> QED
    BY <2>1, Fewer
<1>2. DOMAIN f = Drills /\ DrilledPaths = {f[i] : i \in DOMAIN f}
  BY DEF DrilledPaths
<1> HIDE DEF f
<1> QED
  BY <1>1, <1>2, ImageFinite

\* A statement below a path that waited: it stays within the bounds.
LEMMA CountedBelow ==
    ASSUME RcaInv, rcaStage = "drill", queue # <<>>, NEW path, path = queue[1],
           The' = The, Len(path) < The.maxDepth, Drilled(path),
           NEW F, IsFiniteSet(F), \A q \in F : Len(q) = Len(path) + 1,
           Cardinality(F) <= BranchingAt(Len(path) + 1),
           queue' \in Seq(Path), ToSet(queue') \subseteq ToSet(queue) \cup F
    PROVE  Counted' /\ DrilledPaths' = DrilledPaths \cup {path} /\ trace' \in Seq(StatementType)
           /\ \A i \in DOMAIN trace : i \in DOMAIN trace' /\ trace'[i] = trace[i]
<1>1. /\ queue \in Seq(Path) /\ trace \in Seq(StatementType) /\ path \in Path /\ path # <<>>
      /\ path \notin DrilledPaths /\ 1 \in DOMAIN queue
  BY ExpandingIs, TailIs
<1>2. /\ \A i, j \in Drills : trace[i].node = trace[j].node => i = j
      /\ \A p \in DrilledPaths : p # <<>> /\ Len(p) < The.maxDepth
      /\ Cardinality(OfLength(DrilledPaths \cup ToSet(queue), 1)) <= Branching[1]
      /\ Cardinality(OfLength(DrilledPaths \cup ToSet(queue), 2))
           <= BelowFirst * Cardinality(OfLength(DrilledPaths, 1))
  BY DEF RcaInv, Counted
<1>3. /\ trace' \in Seq(StatementType)
      /\ \A i \in DOMAIN trace : i \in DOMAIN trace' /\ trace'[i] = trace[i]
      /\ \A i \in Drills' : \/ i \in Drills
                            \/ i = Len(trace) + 1 /\ trace'[i].node = path
      /\ \A i \in Drills : i \in DOMAIN trace
      /\ DrilledPaths' = DrilledPaths \cup {path}
  BY <1>1, DrilledIs
<1>4. \A i \in Drills : trace'[i].node \in DrilledPaths /\ trace'[i] = trace[i]
  BY <1>3 DEF DrilledPaths
<1>5. \A i, j \in Drills' : trace'[i].node = trace'[j].node => i = j
  <2> SUFFICES ASSUME NEW i \in Drills', NEW j \in Drills', trace'[i].node = trace'[j].node
               PROVE  i = j
    OBVIOUS
  <2>1. CASE i \in Drills
    <3>1. j \in Drills
      BY <1>1, <1>3, <1>4, <2>1
    <3> QED
      BY <1>2, <1>4, <2>1, <3>1
  <2>2. CASE i \notin Drills
    <3>1. j \notin Drills
      BY <1>1, <1>3, <1>4, <2>2
    <3> QED
      BY <1>3, <2>2, <3>1
  <2> QED
    BY <2>1, <2>2
<1>6. \A p \in DrilledPaths' : p # <<>> /\ Len(p) < The'.maxDepth
  BY <1>1, <1>2, <1>3
<1> DEFINE D == DrilledPaths
           Q == ToSet(queue)
           R == ToSet(queue')
<1>7. IsFiniteSet(D) /\ IsFiniteSet(Q) /\ path \in Q
  <2>1. path \in Q
    BY <1>1 DEF ToSet
  <2> QED
    BY <1>1, <2>1, DrilledFinite, SequenceFinite
<1>8. /\ path \notin D /\ R \subseteq Q \cup F
      /\ Cardinality(OfLength(D \cup Q, 1)) <= Branching[1]
      /\ Cardinality(OfLength(D \cup Q, 2)) <= BelowFirst * Cardinality(OfLength(D, 1))
  BY <1>1, <1>2
<1> HIDE DEF D, Q, R
<1>9. /\ Cardinality(OfLength(D \cup {path} \cup R, 1)) <= Branching[1]
      /\ Cardinality(OfLength(D \cup {path} \cup R, 2))
           <= BelowFirst * Cardinality(OfLength(D \cup {path}, 1))
  BY <1>1, <1>7, <1>8, CountMore, Zenon
<1>10. D \cup {path} = DrilledPaths'
  BY <1>3 DEF D
<1>11. /\ Cardinality(OfLength(DrilledPaths' \cup ToSet(queue'), 1)) <= Branching[1]
       /\ Cardinality(OfLength(DrilledPaths' \cup ToSet(queue'), 2))
            <= BelowFirst * Cardinality(OfLength(DrilledPaths', 1))
  BY <1>9, <1>10, Zenon DEF R
<1>12. Counted'
  BY <1>5, <1>6, <1>11, Zenon DEF Counted, OfLength, BelowFirst
<1> QED
  BY <1>3, <1>12

LEMMA StopIs ==
    ASSUME Given, NEW node, node.path \in Path, NEW remaining, StopReason(node, remaining) = "no"
    PROVE  Len(node.path) < The.maxDepth
<1>1. Len(node.path) \in Nat /\ The.maxDepth \in Nat
  BY GivenFields DEF Path
<1>2. Len(node.path) >= The.maxDepth => StopReason(node, remaining) = "max_depth_reached"
  BY <1>1 DEF StopReason
<1> QED
  BY <1>1, <1>2

LEMMA DrillNodeKeeps == ASSUME RcaInv, DrillNode PROVE RcaInv'
<1> DEFINE node == Expanding
           path == queue[1]
           remaining == Remaining(path)
           found == Descend(node, remaining)
           new == UNION {e.nodes : e \in found}
           F == IF found = {} THEN <<>> ELSE TheOne(found).frontier
<1>1. /\ rcaStage = "drill" /\ queue # <<>> /\ rcaStage' = "drill"
      /\ UNCHANGED <<task, level, drivers>>
      /\ \/ /\ \E stop : tree' = (tree \ {node}) \cup {[node EXCEPT !.stop = stop]}
            /\ queue' = Tail(queue) /\ trace' = trace
         \/ /\ StopReason(node, remaining) = "no"
            /\ tree' = (tree \ {node}) \cup {Expanded(node, found)} \cup new
            /\ queue' = Tail(queue) \o F
            /\ Drilled(node.path)
  BY DrillOutcome
<1>2. /\ Given /\ queue \in Seq(Path) /\ Once(queue) /\ trace \in Seq(StatementType)
      /\ node \in tree /\ node.path = path /\ node \in Fields(node)
      /\ path \in Path /\ path # <<>> /\ path \in TreePaths
      /\ path \notin DrilledPaths /\ \A p \in TreePaths : ~Extends(p, path)
  BY <1>1, ExpandingIs
<1>3. The' = The /\ (DrilledPaths \subseteq DrilledPaths' => LevelListed' /\ DriversListed')
  <2>1. ASSUME DrilledPaths \subseteq DrilledPaths' PROVE LevelListed' /\ DriversListed'
    BY <1>1, <2>1, GrownStays DEF RcaInv, DriversListed
  <2> QED
    BY <1>1, <2>1, Stays
<1>4. CASE /\ \E stop : tree' = (tree \ {node}) \cup {[node EXCEPT !.stop = stop]}
           /\ queue' = Tail(queue) /\ trace' = trace
  <2>1. Drills' = Drills /\ DrilledPaths' = DrilledPaths
    BY <1>4 DEF Drills, DrilledPaths
  <2>2. PICK stop : tree' = (tree \ {node}) \cup {[node EXCEPT !.stop = stop]}
    BY <1>4
  <2> DEFINE x == [node EXCEPT !.stop = stop]
             none == {}
  <2> HIDE DEF node, found
  <2>3. x \in Fields(x) /\ x.path = node.path /\ x.contribution = node.contribution /\ x.other = node.other
    BY <1>2, StoppedIs
  <2>4. tree' = (tree \ {node}) \cup {x} \cup none
    BY <2>2
  <2> HIDE DEF x
  <2>5. TreeGrown' /\ TreePaths' = TreePaths \cup {t.path : t \in none}
    <3>1. IsFiniteSet(none)
      BY FS_EmptySet
    <3> QED
      BY <1>1, <1>2, <2>1, <2>3, <2>4, <3>1, Regrown
  <2>6. TreePaths' = TreePaths
    BY <2>5
  <2>7. /\ Tail(queue) \in Seq(Path) /\ ToSet(Tail(queue)) \subseteq ToSet(queue)
        /\ \A i \in DOMAIN Tail(queue) :
             i + 1 \in DOMAIN queue /\ Tail(queue)[i] = queue[i + 1] /\ i \in Int
    BY <1>1, <1>2, TailIs
  <2>8. Once(queue')
    <3> SUFFICES ASSUME NEW i \in DOMAIN queue', NEW j \in DOMAIN queue', queue'[i] = queue'[j]
                 PROVE  i = j
      BY DEF Once
    <3>1. i + 1 = j + 1 /\ i \in Int /\ j \in Int
      BY <1>2, <1>4, <2>7 DEF Once
    <3> QED
      BY <3>1
  <2>9. Waiting'
    BY <1>1, <1>4, <2>1, <2>6, <2>7, <2>8 DEF RcaInv, Waiting
  <2>10. Shaped'
    BY <1>1, <1>4, <2>1 DEF RcaInv, Shaped, Early, Statement
  <2>11. Counted'
    <3> DEFINE D == DrilledPaths
               Q == ToSet(queue)
               R == ToSet(queue')
    <3>1. IsFiniteSet(D) /\ IsFiniteSet(Q)
      BY <1>2, DrilledFinite, SequenceFinite
    <3>2. /\ Cardinality(OfLength(D \cup Q, 1)) <= Branching[1]
          /\ Cardinality(OfLength(D \cup Q, 2)) <= BelowFirst * Cardinality(OfLength(D, 1))
      BY DEF RcaInv, Counted
    <3>3. R \subseteq Q
      BY <1>4, <2>7
    <3> HIDE DEF D, Q, R
    <3>4. IsFiniteSet(D \cup Q) /\ OfLength(D \cup R, 1) \subseteq OfLength(D \cup Q, 1)
          /\ OfLength(D \cup R, 2) \subseteq OfLength(D \cup Q, 2)
      BY <3>1, <3>3, FS_Union DEF OfLength
    <3>5. /\ Cardinality(OfLength(D \cup R, 1)) \in Nat /\ Cardinality(OfLength(D \cup Q, 1)) \in Nat
          /\ Cardinality(OfLength(D \cup R, 1)) <= Cardinality(OfLength(D \cup Q, 1))
          /\ Cardinality(OfLength(D \cup R, 2)) \in Nat /\ Cardinality(OfLength(D \cup Q, 2)) \in Nat
          /\ Cardinality(OfLength(D \cup R, 2)) <= Cardinality(OfLength(D \cup Q, 2))
      BY <3>4, OfLengthIs, Fewer
    <3>6. Cardinality(OfLength(D, 1)) \in Nat /\ BelowFirst \in Nat /\ Branching[1] \in Nat
      BY <3>1, OfLengthIs, BranchingIs
    <3>7. /\ Cardinality(OfLength(D \cup R, 1)) <= Branching[1]
          /\ Cardinality(OfLength(D \cup R, 2)) <= BelowFirst * Cardinality(OfLength(D, 1))
      <4> DEFINE b == BelowFirst * Cardinality(OfLength(D, 1))
      <4>1. b \in Nat
        BY <3>6
      <4>2. Cardinality(OfLength(D \cup Q, 2)) <= b
        BY <3>2
      <4> HIDE DEF b
      <4>3. Cardinality(OfLength(D \cup R, 2)) <= b
        BY <3>5, <4>1, <4>2
      <4>4. Cardinality(OfLength(D \cup R, 1)) <= Branching[1]
        BY <3>2, <3>5, <3>6
      <4> QED
        BY <4>3, <4>4 DEF b
    <3>8. /\ Cardinality(OfLength(DrilledPaths' \cup ToSet(queue'), 1)) <= Branching[1]
          /\ Cardinality(OfLength(DrilledPaths' \cup ToSet(queue'), 2))
               <= BelowFirst * Cardinality(OfLength(DrilledPaths', 1))
      BY <2>1, <3>7, Zenon DEF D, R
    <3>9. /\ \A i, j \in Drills' : trace'[i].node = trace'[j].node => i = j
          /\ \A p \in DrilledPaths' : p # <<>> /\ Len(p) < The'.maxDepth
          /\ queue' \in Seq(Path)
      BY <1>3, <1>4, <2>1, <2>7 DEF RcaInv, Counted
    <3> QED
      BY <3>8, <3>9, Zenon DEF Counted, OfLength, BelowFirst
  <2> QED
    BY <1>3, <2>1, <2>5, <2>9, <2>10, <2>11 DEF RcaInv
<1>5. CASE /\ StopReason(node, remaining) = "no"
           /\ tree' = (tree \ {node}) \cup {Expanded(node, found)} \cup new
           /\ queue' = Tail(queue) \o F
           /\ Drilled(node.path)
  <2>1. remaining \in Seq(Dimension)
    BY <1>2, RemainingIs
  <2>2. Len(path) < The.maxDepth /\ Drilled(path)
    BY <1>2, <1>5, StopIs
  <2>3. found = {} \/
        \E d \in Dimension : \E e, N : /\ found = {e} /\ TheOne(found) = e
                                   /\ Offered(N, d, path) /\ Growth(e, N, d, Len(path) + 1)
    <3> HIDE DEF node, path, remaining
    <3>1. node.path \in Path /\ node.path # <<>>
      BY <1>2
    <3>2. found = {} \/
          \E d \in Dimension : \E e, N : /\ found = {e} /\ TheOne(found) = e
                                     /\ Offered(N, d, node.path) /\ Growth(e, N, d, Len(node.path) + 1)
      BY <1>2, <2>1, <3>1, DescendIs
    <3> QED
      BY <1>2, <3>2, Zenon
  <2> DEFINE x == Expanded(node, found)
             below == {t.path : t \in new}
  <2> HIDE DEF node, path, remaining, found
  <2>4. x \in Fields(x) /\ x.path = node.path /\ x.contribution = node.contribution /\ x.other = node.other
    BY <1>2, ExpandedIs
  <2>5. /\ IsFiniteSet(new)
        /\ \A t \in new : /\ t \in Fields(t) /\ ~t.other
                          /\ \E d \in Dimension, s \in Segment : t.path = Append(path, <<d, s>>)
        /\ \A s, t \in new : s.path = t.path => s = t
        /\ F \in Seq(below) /\ Once(F)
        /\ Len(F) <= BranchingAt(Len(path) + 1)
    BY <1>2, <2>3, FoundIs
  <2>6. tree' = (tree \ {node}) \cup {x} \cup new
    BY <1>5
  <2> HIDE DEF x, new, F
  <2>7. DrilledPaths' = DrilledPaths \cup {path}
    BY <1>2, <2>2, DrilledIs
  <2>8. TreeGrown' /\ TreePaths' = TreePaths \cup below
    <3>1. /\ \A t \in new : /\ t \in Fields(t) /\ ~t.other
                            /\ \E d \in Dimension, s \in Segment : t.path = Append(node.path, <<d, s>>)
          /\ \A p \in TreePaths : ~Extends(p, node.path)
          /\ node.path \in DrilledPaths' /\ DrilledPaths \subseteq DrilledPaths'
      BY <1>2, <2>5, <2>7
    <3> QED
      BY <1>1, <1>2, <2>4, <2>5, <2>6, <3>1, Regrown
  <2>9. \A q \in below : \E d \in Dimension, s \in Segment : q = Append(path, <<d, s>>)
    BY <2>5
  <2> HIDE DEF below
  <2>10. /\ Waiting' /\ queue' \in Seq(Path)
         /\ ToSet(queue') \subseteq ToSet(queue) \cup ToSet(F)
         /\ \A q \in ToSet(F) : Len(q) = Len(path) + 1
    BY <1>1, <1>5, <2>5, <2>7, <2>8, <2>9, WaitingBelow DEF path
  <2>11. /\ IsFiniteSet(ToSet(F)) /\ Cardinality(ToSet(F)) <= BranchingAt(Len(path) + 1)
    <3>1. IsFiniteSet(ToSet(F)) /\ Cardinality(ToSet(F)) <= Len(F) /\ Len(F) \in Nat
      BY <2>5, SequenceFinite
    <3>2. Cardinality(ToSet(F)) \in Nat
      BY <3>1, FS_CardinalityType
    <3>3. BranchingAt(Len(path) + 1) \in Nat
      <4>1. Len(path) + 1 \in Nat \ {0}
        BY <1>2 DEF Path
      <4> QED
        BY <4>1, BranchingIs
    <3> QED
      BY <2>5, <3>1, <3>2, <3>3
  <2>12. Counted' /\ trace' \in Seq(StatementType)
         /\ \A i \in DOMAIN trace : i \in DOMAIN trace' /\ trace'[i] = trace[i]
    BY <1>1, <1>3, <2>2, <2>10, <2>11, CountedBelow DEF path
  <2>13. Shaped'
    BY <1>1, <2>12 DEF RcaInv, Shaped, Early, Statement
  <2> QED
    BY <1>3, <2>7, <2>8, <2>10, <2>12, <2>13 DEF RcaInv
<1> QED
  BY <1>1, <1>4, <1>5

LEMMA StatementFailsKeeps == ASSUME RcaInv, StatementFails PROVE RcaInv'
<1>1. rcaStage' = "done" /\ UNCHANGED <<task, level, tree, queue, drivers>>
  BY DEF StatementFails, Finish
<1>2. CASE rcaStage = "drill"
  <2> DEFINE path == queue[1]
             F == {}
  <2>1. queue # <<>> /\ StopReason(Expanding, Remaining(path)) = "no" /\ Drilled(path)
    BY <1>2 DEF StatementFails
  <2>2. /\ Given /\ queue \in Seq(Path) /\ Expanding.path = path /\ path \in Path /\ path # <<>>
    BY <1>2, <2>1, ExpandingIs
  <2>3. Len(path) < The.maxDepth
    BY <2>1, <2>2, StopIs
  <2>4. The' = The
    BY <1>1, Stays
  <2>5. /\ IsFiniteSet(F) /\ Cardinality(F) <= BranchingAt(Len(path) + 1)
        /\ \A q \in F : Len(q) = Len(path) + 1
    <3>1. Cardinality(F) = 0 /\ IsFiniteSet(F)
      BY FS_EmptySet
    <3>2. Len(path) + 1 \in Nat \ {0}
      BY <2>2 DEF Path
    <3> QED
      BY <3>1, <3>2, BranchingIs
  <2>6. queue' \in Seq(Path) /\ ToSet(queue') \subseteq ToSet(queue) \cup F
    BY <1>1, <2>2
  <2> HIDE DEF F, path
  <2>7. /\ Counted' /\ DrilledPaths' = DrilledPaths \cup {path} /\ trace' \in Seq(StatementType)
        /\ \A i \in DOMAIN trace : i \in DOMAIN trace' /\ trace'[i] = trace[i]
    BY <1>2, <2>1, <2>3, <2>4, <2>5, <2>6, CountedBelow DEF path
  <2>8. \A m, n : Twins(m, n)' <=> Twins(m, n)
    BY <1>1, Stays
  <2>9. LevelListed' /\ DriversListed' /\ TreeGrown'
    BY <1>1, <2>7, <2>8, GrownStays DEF RcaInv, DriversListed, TreeGrown
  <2>10. Shaped'
    BY <1>1, <1>2, <2>7 DEF RcaInv, Shaped, Early, Statement
  <2>11. Waiting'
    BY <1>1 DEF Waiting
  <2> QED
    BY <2>7, <2>9, <2>10, <2>11 DEF RcaInv
<1>3. CASE rcaStage # "drill"
  <2>1. PICK ps \in {<<"describe_relation">>, <<"project_base_table">>,
                     <<"project_base_table", "resolve_period_bounds">>, <<"kpi_period_totals">>,
                     <<"dimension_breakdown">>, <<"dimension_breakdown", "distinct_overlap_check">>} :
           Executed(ps)
    BY <1>3 DEF StatementFails
  <2>2. ps \in Seq(Purposes) /\ \A i \in DOMAIN ps : ps[i] # "drilldown_breakdown"
    <3>1. CASE \E p \in {"describe_relation", "project_base_table", "kpi_period_totals",
                        "dimension_breakdown"} : ps = <<p>>
      BY <3>1 DEF Purposes
    <3>2. CASE ps = <<"project_base_table", "resolve_period_bounds">>
      BY <3>2 DEF Purposes
    <3>3. CASE ps = <<"dimension_breakdown", "distinct_overlap_check">>
      BY <3>3 DEF Purposes
    <3> QED
      BY <3>1, <3>2, <3>3
  <2>3. rcaStage # "idle"
    BY DEF StatementFails
  <2> QED
    BY <1>1, <2>1, <2>2, <2>3, QuietStatement DEF Early
<1> QED
  BY <1>2, <1>3

LEMMA RcaKeeps == ASSUME RcaInv, [RcaNext]_rcaVars PROVE RcaInv'
<1>1. CASE \E a \in Analyses : StartAnalysis(a)
  BY <1>1, StartKeeps
<1>2. CASE Describe
  BY <1>2, DescribeKeeps
<1>3. CASE Bounds
  BY <1>3, BoundsKeeps
<1>4. CASE Total
  BY <1>4, TotalKeeps
<1>5. CASE BreakDown
  BY <1>5, BreakDownKeeps
<1>6. CASE BuildLevel
  BY <1>6, BuildLevelKeeps
<1>7. CASE DrillNode
  BY <1>7, DrillNodeKeeps
<1>8. CASE Conclude
  BY <1>8, ConcludeKeeps
<1>9. CASE StatementFails
  BY <1>9, StatementFailsKeeps
<1>10. CASE UNCHANGED rcaVars
  BY <1>10, RcaStutterKeeps
<1> QED
  BY <1>1, <1>2, <1>3, <1>4, <1>5, <1>6, <1>7, <1>8, <1>9, <1>10 DEF RcaNext, RcaStep

-----------------------------------------------------------------------------
(***************************************************************************)
(* What an analysis costs.                                                 *)
(***************************************************************************)

LEMMA TimesGrows ==
    ASSUME NEW a \in Nat, NEW b \in Nat, a <= b, NEW k \in Nat PROVE a * k <= b * k
<1> DEFINE d == b - a
<1>1. d \in Nat /\ b = a + d
  OBVIOUS
<1> HIDE DEF d
<1>2. b * k = a * k + d * k /\ a * k \in Nat /\ d * k \in Nat
  BY <1>1
<1> QED
  BY <1>2

LEMMA UpToTwo == \A k \in Nat \ {0} : k < 3 => k = 1 \/ k = 2
  OBVIOUS

LEMMA CostIs ==
    ASSUME RcaInv
    PROVE  /\ StatementsBounded
<1> DEFINE D == DrilledPaths
           one == OfLength(D, 1)
           two == OfLength(D, 2)
<1>1. trace \in Seq(StatementType) /\ \A i, j \in Drills : trace[i].node = trace[j].node => i = j
  BY DEF RcaInv, Shaped, Counted
<1>2. IsFiniteSet(D)
  BY <1>1, DrilledFinite
<1>3. IsFiniteSet(Drills) /\ Cardinality(Drills) \in Nat /\ Cardinality(Drills) <= Cardinality(D)
  <2> DEFINE g == [p \in D |-> CHOOSE i \in Drills : trace[i].node = p]
  <2>1. DOMAIN g = D /\ \A p \in D : g[p] \in Drills /\ trace[g[p]].node = p
    BY DEF DrilledPaths
  <2> HIDE DEF g
  <2>2. \A i \in Drills : trace[i].node \in D /\ g[trace[i].node] = i
    BY <1>1, <2>1 DEF DrilledPaths
  <2> HIDE DEF D
  <2>3. Drills \subseteq {g[p] : p \in DOMAIN g}
    BY <2>1, <2>2
  <2>4. {g[p] : p \in DOMAIN g} \subseteq Drills
    BY <2>1
  <2>5. Drills = {g[p] : p \in DOMAIN g}
    BY <2>3, <2>4
  <2>6. IsFiniteSet(Drills) /\ Cardinality(Drills) <= Cardinality(D)
    BY <1>2, <2>1, <2>5, ImageFinite
  <2> QED
    BY <2>6, FS_CardinalityType
<1>4. Branching[1] \in Nat /\ BelowFirst \in Nat
  BY BranchingIs
<1>5. /\ IsFiniteSet(one) /\ Cardinality(one) \in Nat /\ IsFiniteSet(two) /\ Cardinality(two) \in Nat
      /\ Cardinality(D) \in Nat
  BY <1>2, OfLengthIs, FS_CardinalityType
<1> DEFINE Q == ToSet(queue)
<1>6. Cardinality(one) <= Branching[1] /\ Cardinality(two) <= BelowFirst * Cardinality(one)
  <2>1. /\ Cardinality(OfLength(D \cup Q, 1)) <= Branching[1]
        /\ Cardinality(OfLength(D \cup Q, 2)) <= BelowFirst * Cardinality(one)
    BY DEF RcaInv, Counted
  <2>2. IsFiniteSet(Q)
    BY SequenceFinite DEF RcaInv, Counted
  <2>3. IsFiniteSet(D \cup Q)
    BY <1>2, <2>2, FS_Union
  <2>4. one \subseteq OfLength(D \cup Q, 1) /\ two \subseteq OfLength(D \cup Q, 2)
    BY DEF OfLength
  <2>5. IsFiniteSet(OfLength(D \cup Q, 1)) /\ IsFiniteSet(OfLength(D \cup Q, 2))
    BY <2>3, OfLengthIs
  <2> DEFINE a == Cardinality(OfLength(D \cup Q, 1))
             b == Cardinality(OfLength(D \cup Q, 2))
             m == BelowFirst * Cardinality(one)
             x == Cardinality(one)
             y == Cardinality(two)
  <2>6. a \in Nat /\ b \in Nat /\ x <= a /\ y <= b /\ x \in Nat /\ y \in Nat
    BY <2>4, <2>5, Fewer
  <2>7. a <= Branching[1] /\ b <= m /\ m \in Nat
    BY <1>4, <1>5, <2>1
  <2> HIDE DEF a, b, m, x, y
  <2>8. x <= Branching[1] /\ y <= m
    BY <1>4, <2>6, <2>7
  <2> QED
    BY <2>8 DEF x, y, m
<1>7. ASSUME task # {}, The.maxDepth \in 1..3
      PROVE  Cardinality(Drills) <= <<0, Branching[1], Branching[1] * (1 + BelowFirst)>>[The.maxDepth]
  <2>1. \A p \in D : p \in Path /\ p # <<>> /\ Len(p) < The.maxDepth /\ Len(p) \in Nat \ {0}
    <3>1. \A p \in D : p # <<>> /\ Len(p) < The.maxDepth
      BY DEF RcaInv, Counted
    <3>2. \A p \in D : p \in Path
      <4>1. \A i \in DOMAIN trace : trace[i] \in StatementType
        BY <1>1
      <4>2. \A i \in DOMAIN trace : trace[i].node \in Path
        BY <4>1 DEF StatementType
      <4> QED
        BY <4>2 DEF DrilledPaths, Drills
    <3> QED
      BY <3>1, <3>2 DEF Path
  <2> HIDE DEF D
  <2>2. CASE The.maxDepth = 1
    <3>1. D = {}
      BY <2>1, <2>2
    <3>2. Cardinality(D) = 0
      BY <3>1, FS_EmptySet
    <3> QED
      BY <1>3, <2>2, <3>2
  <2>3. CASE The.maxDepth = 2
    <3>1. D = one
      BY <2>1, <2>3 DEF OfLength
    <3>2. Cardinality(Drills) <= Branching[1]
      BY <1>3, <1>4, <1>5, <1>6, <3>1
    <3> QED
      BY <2>3, <3>2
  <2>4. CASE The.maxDepth = 3
    <3>0. \A p \in D : Len(p) = 1 \/ Len(p) = 2
      <4>1. \A p \in D : Len(p) \in Nat \ {0} /\ Len(p) < 3
        BY <2>1, <2>4, Zenon
      <4> QED
        BY <4>1, UpToTwo, Zenon
    <3>1. D = one \cup two
      BY <3>0 DEF OfLength
    <3> HIDE DEF one, two
    <3>2. Cardinality(D) <= Cardinality(one) + Cardinality(two)
      <4>1. /\ Cardinality(D) = Cardinality(one) + Cardinality(two) - Cardinality(one \cap two)
            /\ IsFiniteSet(one \cap two)
        BY <1>5, <3>1, FS_Union, FS_Intersection
      <4>2. Cardinality(one \cap two) \in Nat
        BY <4>1, FS_CardinalityType
      <4> QED
        BY <1>5, <4>1, <4>2
    <3> DEFINE x == Cardinality(one)
               y == Cardinality(two)
               u == Branching[1]
               v == BelowFirst
               k == 1 + v
               c == Cardinality(Drills)
    <3>3. /\ x \in Nat /\ y \in Nat /\ u \in Nat /\ v \in Nat /\ k \in Nat /\ c \in Nat
          /\ x <= u /\ y <= v * x /\ c <= x + y
      BY <1>3, <1>4, <1>5, <1>6, <3>2
    <3>4. x + v * x = x * k
      BY <3>3
    <3> HIDE DEF x, y, u, v, c
    <3>5. x * k <= u * k
      BY <3>3, TimesGrows
    <3>6. c <= u * k
      <4> DEFINE m == v * x
                 n == x * k
                 o == u * k
      <4>1. m \in Nat /\ n \in Nat /\ o \in Nat /\ y <= m /\ x + m = n /\ n <= o
        BY <3>3, <3>4, <3>5
      <4> HIDE DEF m, n, o, k
      <4>2. c <= o
        BY <3>3, <4>1
      <4> QED
        BY <4>2 DEF o
    <3>7. Cardinality(Drills) <= Branching[1] * (1 + BelowFirst)
      BY <3>6 DEF c, u, v
    <3> QED
      BY <2>4, <3>7
  <2> QED
    BY <1>7, <2>2, <2>3, <2>4
<1>8. \A i, j \in Drills : trace[i].node = trace[j].node => i = j
  BY <1>1
<1> QED
  BY <1>7, <1>8, Zenon DEF StatementsBounded, Drills, BelowFirst

\* An analysis costs a bounded number of drill-downs, however wide the file and however
\* deep the rows, and drills into nothing twice: the branching of BRANCHING_BY_DEPTH and
\* MAX_DEPTH are all that _drill needs.
THEOREM DrillsAreBounded == RcaSpec => []StatementsBounded
<1>1. RcaInit => RcaInv
  BY InitKeeps
<1>2. RcaInv /\ [RcaNext]_rcaVars => RcaInv'
  BY RcaKeeps
<1>3. RcaInv => StatementsBounded
  BY CostIs
<1> QED
  BY <1>1, <1>2, <1>3, PTL DEF RcaSpec

-----------------------------------------------------------------------------
(***************************************************************************)
(* The investigation keeps the invariant of its analysis, whatever the     *)
(* detection traces after it.                                              *)
(***************************************************************************)

LEMMA PieceIs ==
    ASSUME NEW T, NEW s \in Seq(T), NEW k \in 0..Len(s)
    PROVE  /\ SubSeq(s, 1, k) \in Seq(T)
           /\ \A i \in DOMAIN SubSeq(s, 1, k) : i \in DOMAIN s /\ SubSeq(s, 1, k)[i] = s[i]
  OBVIOUS

LEMMA SeriesPieces ==
    /\ SeriesStatements \in Seq(Purposes)
    /\ \A i \in DOMAIN SeriesStatements : SeriesStatements[i] # "drilldown_breakdown"
    /\ \A k \in 0..4 :
         LET piece == SubSeq(SeriesStatements, 1, k)
         IN  piece \in Seq(Purposes) /\ \A i \in DOMAIN piece : piece[i] # "drilldown_breakdown"
<1>1. /\ SeriesStatements \in Seq(Purposes) /\ Len(SeriesStatements) = 4
      /\ \A i \in DOMAIN SeriesStatements : SeriesStatements[i] # "drilldown_breakdown"
  BY DEF SeriesStatements, Purposes
<1>2. ASSUME NEW k \in 0..4
      PROVE  LET piece == SubSeq(SeriesStatements, 1, k)
             IN  piece \in Seq(Purposes) /\ \A i \in DOMAIN piece : piece[i] # "drilldown_breakdown"
  <2>1. k \in 0..Len(SeriesStatements)
    BY <1>1
  <2> DEFINE piece == SubSeq(SeriesStatements, 1, k)
  <2>2. /\ piece \in Seq(Purposes)
        /\ \A i \in DOMAIN piece : i \in DOMAIN SeriesStatements /\ piece[i] = SeriesStatements[i]
    BY <1>1, <2>1, PieceIs
  <2> HIDE DEF piece
  <2>3. \A i \in DOMAIN piece : piece[i] # "drilldown_breakdown"
    BY <1>1, <2>2, Zenon
  <2> QED
    BY <2>2, <2>3 DEF piece
<1> QED
  BY <1>1, <1>2

LEMMA SeriesKeeps ==
    ASSUME RcaInv, UNCHANGED rcaResult, NEW purposes \in Seq(Purposes), Executed(purposes),
           \A i \in DOMAIN purposes : purposes[i] # "drilldown_breakdown"
    PROVE  RcaInv'
<1>1. UNCHANGED <<rcaStage, task, level, tree, queue, drivers>>
  BY DEF rcaResult
<1> QED
  BY <1>1, QuietStatement

LEMMA InvestigationKeeps == ASSUME RcaInv, [InvestigationNext]_invVars PROVE RcaInv'
<1>1. CASE Analyse
  BY <1>1, RcaKeeps DEF Analyse
<1>2. CASE UNCHANGED rcaVars
  BY <1>2, RcaStutterKeeps
<1>3. CASE Detected
  BY <1>3, SeriesPieces, SeriesKeeps DEF Detected
<1>4. CASE DetectionRefused
  <2>1. PICK k \in 0..4 : Executed(SubSeq(SeriesStatements, 1, k))
    BY <1>4 DEF DetectionRefused
  <2>2. UNCHANGED rcaResult
    BY <1>4 DEF DetectionRefused
  <2> QED
    BY <2>1, <2>2, SeriesPieces, SeriesKeeps
<1>5. CASE DetectionEscapes
  <2>1. PICK k \in 0..4 : Executed(SubSeq(SeriesStatements, 1, k))
    BY <1>5 DEF DetectionEscapes
  <2>2. UNCHANGED rcaResult
    BY <1>5 DEF DetectionEscapes
  <2> QED
    BY <2>1, <2>2, SeriesPieces, SeriesKeeps
<1>6. CASE RecordAnalysis
  BY <1>2, <1>6 DEF RecordAnalysis
<1>7. CASE SkipDetection \/ NoGrain
  BY <1>2, <1>7 DEF SkipDetection, NoGrain
<1>8. CASE Reconcile \/ BuildEvidence
  BY <1>2, <1>8 DEF Reconcile, BuildEvidence
<1>9. CASE Assess \/ ConcludeInvestigation
  BY <1>2, <1>9 DEF Assess, ConcludeInvestigation
<1>10. CASE UNCHANGED invVars
  BY <1>2, <1>10 DEF invVars
<1> QED
  BY <1>1, <1>3, <1>4, <1>5, <1>6, <1>7, <1>8, <1>9, <1>10 DEF InvestigationNext

\* The detection of anomalies, whose statements share the trace, adds to no drill-down.
THEOREM InvestigationsAreBounded == InvestigationSpec => []StatementsBounded
<1>1. InvestigationInit => RcaInv
  BY InitKeeps DEF InvestigationInit
<1>2. RcaInv /\ [InvestigationNext]_invVars => RcaInv'
  BY InvestigationKeeps
<1>3. RcaInv => StatementsBounded
  BY CostIs
<1> QED
  BY <1>1, <1>2, <1>3, PTL DEF InvestigationSpec

-----------------------------------------------------------------------------
(***************************************************************************)
(* "Completed" is said of whole answers only.                              *)
(***************************************************************************)

Concluding == step = "conclude" \/ outcome \in {"completed", "partial"}

\* What the verdict rests on: the checks that were made, and no record stands against it.
Judged ==
    /\ outcome # "none" => step = "over"
    /\ Concluding =>
         /\ quality.checks["data_period_coverage"] = CheckCoverage
         /\ quality.checks["contribution_reconciliation"] = CheckReconciliation
         /\ quality.verdict = QualityOf(quality.checks)
         /\ \A i \in DOMAIN records :
              records[i].status = "failed" => With(quality.checks, "failed") # {}

\* What the checks look at does not change when the analysis does not.
LEMMA AnalysisStays ==
    ASSUME UNCHANGED rcaVars
    PROVE  /\ Dated' = Dated /\ Base' = Base /\ Measured(Base)' = Measured(Base)
           /\ CheckCoverage' = CheckCoverage /\ Unanalysed' = Unanalysed
<1>1. /\ task' = task /\ windows' = windows /\ totals' = totals /\ rcaState' = rcaState
  BY DEF rcaVars, rcaResult
<1>2. The' = The
  BY <1>1 DEF The
<1>3. Base' = Base
  BY <1>2 DEF Base, Passes
<1>4. Dated' = Dated
  BY <1>2, <1>3 DEF Dated
<1>5. Measured(Base)' = Measured(Base)
  BY <1>2, <1>3 DEF Measured, CellValue
<1>6. Unanalysed' = Unanalysed
  BY <1>1 DEF Unanalysed
<1>7. \A w : Within(Base, w)' = Within(Base, w)
  BY <1>2, <1>3 DEF Within
<1>8. CheckCoverage' = CheckCoverage
  <2>1. Within(Base, windows.current)' = Within(Base, windows.current)
        /\ Within(Base, windows.previous)' = Within(Base, windows.previous)
    BY <1>1, <1>2, <1>3 DEF Within
  <2> QED
    BY <1>1, <1>3, <1>4, <1>5, <1>6, <2>1 DEF CheckCoverage
<1> QED
  BY <1>3, <1>4, <1>5, <1>6, <1>8

LEMMA StampedIs ==
    ASSUME NEW r, NEW checks, Stamped(r, checks).status = "failed",
           r.status # "failed" 
    PROVE  With(checks, "failed") # {}
  BY DEF Stamped

LEMMA AssessJudges == ASSUME Judged, Assess, \A i \in DOMAIN records : records[i].status # "failed",
                             DOMAIN records = 1..Len(records), Len(records) \in Nat
                      PROVE  Judged'
<1> DEFINE checks == Checks
<1>1. /\ quality'.checks = checks /\ quality'.verdict = QualityOf(checks)
      /\ UNCHANGED <<rcaVars, reconciled, outcome>> /\ step = "assess" /\ step' = "conclude"
      /\ records' = [i \in DOMAIN records |-> Stamped(records[i], checks)]
                \o [i \in 1..6 |-> ValidationRecord(CheckOrder[i], checks)]
  BY DEF Assess
<1>2. checks["data_period_coverage"] = CheckCoverage
      /\ checks["contribution_reconciliation"] = CheckReconciliation
  BY DEF Checks
<1> HIDE DEF checks
<1>3. CheckCoverage' = CheckCoverage /\ Unanalysed' = Unanalysed
  BY <1>1, AnalysisStays
<1>4. CheckReconciliation' = CheckReconciliation
  BY <1>1 DEF CheckReconciliation, ReconciliationPassed
<1>5. QualityOf(quality.checks)' = QualityOf(checks)
  BY <1>1, <1>3 DEF QualityOf, With
<1>6. With(quality.checks, "failed")' = With(checks, "failed")
  BY <1>1 DEF With
<1>7. ASSUME NEW i \in DOMAIN records', records'[i].status = "failed"
      PROVE  With(checks, "failed") # {}
  <2> DEFINE a == [k \in DOMAIN records |-> Stamped(records[k], checks)]
             b == [k \in 1..6 |-> ValidationRecord(CheckOrder[k], checks)]
  <2>1. \A k \in DOMAIN a : k \in DOMAIN records /\ a[k] = Stamped(records[k], checks)
    OBVIOUS
  <2>2. \A k \in DOMAIN b : k \in 1..6 /\ b[k] = ValidationRecord(CheckOrder[k], checks)
    OBVIOUS
  <2>3. a \in Seq({a[k] : k \in DOMAIN a} \cup {b[k] : k \in DOMAIN b})
        /\ b \in Seq({a[k] : k \in DOMAIN a} \cup {b[k] : k \in DOMAIN b})
    <3>1. DOMAIN a = 1..Len(records) /\ DOMAIN b = 1..6
      OBVIOUS
    <3> QED
      BY <3>1
  <2>4. records' = a \o b
    BY <1>1
  <2> HIDE DEF a, b
  <2>5. (\E k \in DOMAIN a : records'[i] = a[k]) \/ (\E k \in DOMAIN b : records'[i] = b[k])
    BY <2>3, <2>4, ConcatIs
  <2>6. CASE \E k \in DOMAIN a : records'[i] = a[k]
    BY <1>7, <2>1, <2>6, StampedIs
  <2>7. CASE \E k \in DOMAIN b : records'[i] = b[k]
    <3>1. PICK k \in DOMAIN b : records'[i] = b[k]
      BY <2>7
    <3>2. k \in 1..6 /\ ValidationRecord(CheckOrder[k], checks).status = "failed"
      BY <1>7, <2>2, <3>1
    <3>3. CheckOrder[k] \in Check
      BY <3>2 DEF Check
    <3>4. checks[CheckOrder[k]] = "failed"
      BY <3>2 DEF ValidationRecord, Record
    <3> QED
      BY <3>3, <3>4 DEF With
  <2> QED
    BY <2>5, <2>6, <2>7
<1> QED
  BY <1>1, <1>2, <1>3, <1>4, <1>5, <1>6, <1>7 DEF Judged, Concluding

LEMMA ConcludeCompletes ==
    ASSUME Judged, ConcludeInvestigation PROVE Judged' /\ CompletedIsWhole'
<1>1. /\ step = "conclude" /\ step' = "over" /\ UNCHANGED <<rcaVars, reconciled, records, quality>>
      /\ limitations' = limitations \cup Limitations
      /\ outcome' \in {"partial", "completed"}
      /\ outcome' = "completed" =>
           limitations' = {} /\ quality.verdict # "failed" /\ reconciled.drift # "drift_unexplained"
  BY DEF ConcludeInvestigation
<1>2. /\ quality.checks["data_period_coverage"] = CheckCoverage
      /\ quality.checks["contribution_reconciliation"] = CheckReconciliation
      /\ quality.verdict = QualityOf(quality.checks)
      /\ \A i \in DOMAIN records :
           records[i].status = "failed" => With(quality.checks, "failed") # {}
  BY <1>1 DEF Judged, Concluding
<1>3. /\ Dated' = Dated /\ Base' = Base /\ Measured(Base)' = Measured(Base)
      /\ CheckCoverage' = CheckCoverage /\ Unanalysed' = Unanalysed /\ truncated' = truncated
  BY <1>1, AnalysisStays DEF rcaVars, rcaResult
<1>4. /\ CheckReconciliation' = CheckReconciliation
      /\ QualityOf(quality.checks)' = QualityOf(quality.checks)
      /\ With(quality.checks, "failed")' = With(quality.checks, "failed")
  BY <1>1, <1>3 DEF CheckReconciliation, ReconciliationPassed, QualityOf, With
<1>5. Judged'
  BY <1>1, <1>2, <1>3, <1>4 DEF Judged, Concluding
<1>6. ASSUME outcome' = "completed"
      PROVE  /\ truncated = {} /\ \A i \in DOMAIN records : records[i].status # "failed"
             /\ reconciled.status # "failed" /\ Dated = Base /\ Measured(Base) = Base
  <2>1. Limitations = {}
    BY <1>1, <1>6
  <2>2. truncated = {}
    BY <2>1 DEF Limitations
  <2>3. ~Unanalysed
    BY <2>1 DEF Limitations
  <2>4. With(quality.checks, "warning") = {}
    BY <2>1, <2>3 DEF Limitations
  <2>5. With(quality.checks, "failed") = {}
    BY <1>1, <1>2, <1>6, <2>3 DEF QualityOf
  <2>6. "data_period_coverage" \in Check /\ "contribution_reconciliation" \in Check
    BY DEF Check, CheckOrder
  <2>7. CheckReconciliation # "failed" /\ CheckCoverage \notin {"failed", "warning"}
    BY <1>2, <2>4, <2>5, <2>6 DEF With
  <2>8. reconciled.status # "failed"
    BY <2>7 DEF CheckReconciliation, ReconciliationPassed
  <2>9. Dated = Base /\ Measured(Base) = Base
    BY <2>3, <2>7 DEF CheckCoverage
  <2> QED
    BY <1>2, <2>2, <2>5, <2>8, <2>9
<1>7. CompletedIsWhole'
  BY <1>1, <1>3, <1>6 DEF CompletedIsWhole
<1> QED
  BY <1>5, <1>7

-----------------------------------------------------------------------------
(***************************************************************************)
(* The statement a record cites.                                           *)
(***************************************************************************)

\* QueryTracer.find: the latest of the statements asked for, or none.
LEMMA FoundLatest ==
    ASSUME trace \in Seq(StatementType), NEW purpose, NEW nodes
    PROVE  LET hits == {i \in DOMAIN trace : trace[i].purpose = purpose /\ trace[i].node \in nodes}
           IN  IF hits = {} THEN Found(purpose, nodes) = 0
               ELSE Found(purpose, nodes) \in hits /\ Found(purpose, nodes) # 0
<1> DEFINE hits == {i \in DOMAIN trace : trace[i].purpose = purpose /\ trace[i].node \in nodes}
<1>1. Len(trace) \in Nat /\ DOMAIN trace = 1..Len(trace)
  OBVIOUS
<1>2. hits \subseteq 1..Len(trace)
  BY <1>1
<1>3. Found(purpose, nodes) = IF hits = {} THEN 0 ELSE CHOOSE i \in hits : \A j \in hits : j <= i
  BY DEF Found
<1> HIDE DEF hits
<1>4. CASE hits # {}
  <2> DEFINE T == {Len(trace) - i : i \in hits}
  <2>1. T \in SUBSET Nat /\ T # {}
    BY <1>1, <1>2, <1>4
  <2>2. PICK n \in T : \A m \in T : n <= m
    BY <2>1, LeastOf
  <2>3. PICK i \in hits : n = Len(trace) - i
    BY <2>2
  <2>4. \A j \in hits : j <= i
    <3> SUFFICES ASSUME NEW j \in hits PROVE j <= i
      OBVIOUS
    <3>1. Len(trace) - i <= Len(trace) - j
      BY <2>2, <2>3
    <3> QED
      BY <1>1, <1>2, <3>1
  <2>5. (CHOOSE k \in hits : \A j \in hits : j <= k) \in hits
    BY <2>3, <2>4
  <2>6. Found(purpose, nodes) \in hits
    BY <1>3, <1>4, <2>5
  <2> QED
    BY <1>2, <1>4, <2>6 DEF hits
<1> QED
  BY <1>3, <1>4 DEF hits

\* What a record about a node says of its statement.
Cites(path, query) ==
    LET parent == SubSeq(path, 1, Len(path) - 1)
    IN  IF query # 0
        THEN trace[query] = IF Len(path) = 1 THEN Statement("dimension_breakdown", <<>>)
                            ELSE Statement("drilldown_breakdown", parent)
        ELSE \E k \in DOMAIN parent : parent[k][2] = "NULL"

\* A node whose statement was made: one of the level, or below a path drilled into.
Citable(n) ==
    /\ n.path \in Path /\ n.path # <<>>
    /\ Len(n.path) = 1 => level # <<>>
    /\ Len(n.path) > 1 => Front(n.path) \in DrilledPaths

LEMMA AboveOne == \A k \in Nat \ {0} : k # 1 => k > 1 /\ ~(k <= 1)
  OBVIOUS

LEMMA NodeQueryIs ==
    ASSUME RcaInv, NEW n, Citable(n) PROVE Cites(n.path, NodeQuery(n.path))
<1> DEFINE path == n.path
           parent == SubSeq(path, 1, Len(path) - 1)
<1>1. trace \in Seq(StatementType) /\ \A i \in DOMAIN trace : trace[i] \in StatementType
  BY DEF RcaInv, Shaped
<1>2. /\ path \in Path /\ Len(path) \in Nat \ {0} /\ (Len(path) = 1 => level # <<>>)
      /\ Len(path) > 1 => parent \in DrilledPaths
  BY DEF Citable, Path, Front
<1> HIDE DEF path, parent
<1>3. CASE Len(path) = 1
  <2> DEFINE q == Found("dimension_breakdown", {<<>>})
  <2>1. NodeQuery(path) = q
    BY <1>3 DEF NodeQuery
  <2>2. PICK i \in DOMAIN trace : trace[i] = Statement("dimension_breakdown", <<>>)
    BY <1>2, <1>3 DEF RcaInv, Shaped
  <2>3. trace[i].purpose = "dimension_breakdown" /\ trace[i].node \in {<<>>}
    BY <2>2 DEF Statement
  <2>4. q \in DOMAIN trace /\ trace[q].purpose = "dimension_breakdown" /\ trace[q].node \in {<<>>}
        /\ q # 0
    BY <1>1, <2>3, FoundLatest
  <2> HIDE DEF q
  <2>5. trace[q] = Statement("dimension_breakdown", <<>>)
    BY <1>1, <2>4 DEF StatementType, Statement
  <2> QED
    BY <1>3, <2>1, <2>4, <2>5 DEF Cites, path
<1>4. CASE Len(path) # 1
  <2> DEFINE readable == \A i \in DOMAIN parent : parent[i][2] # "NULL"
             nodes == IF readable THEN {parent} ELSE {}
             q == Found("drilldown_breakdown", nodes)
  <2>0. Len(path) > 1 /\ ~(Len(path) <= 1)
    BY <1>2, <1>4, AboveOne, Zenon
  <2>1. NodeQuery(path) = q
    BY <2>0 DEF NodeQuery, parent
  <2>2. parent \in DrilledPaths
    BY <1>2, <2>0
  <2>3. CASE readable
    <3>1. nodes = {parent}
      BY <2>3
    <3>2. PICK i \in DOMAIN trace : trace[i].purpose = "drilldown_breakdown" /\ trace[i].node = parent
      BY <2>2 DEF DrilledPaths, Drills
    <3> HIDE DEF nodes, readable
    <3>3. q \in DOMAIN trace /\ trace[q].purpose = "drilldown_breakdown" /\ trace[q].node \in nodes
          /\ q # 0
      BY <1>1, <3>1, <3>2, FoundLatest
    <3> HIDE DEF q
    <3>4. trace[q] = Statement("drilldown_breakdown", parent)
      BY <1>1, <3>1, <3>3 DEF StatementType, Statement
    <3> QED
      BY <1>4, <2>1, <3>3, <3>4 DEF Cites, path, parent
  <2>4. CASE ~readable
    <3>1. nodes = {}
      BY <2>4
    <3>2. \E k \in DOMAIN parent : parent[k][2] = "NULL"
      BY <2>4
    <3> HIDE DEF nodes, readable
    <3>3. q = 0
      BY <1>1, <3>1, FoundLatest
    <3> QED
      BY <2>1, <3>2, <3>3 DEF Cites, path, parent
  <2> QED
    BY <2>3, <2>4
<1> QED
  BY <1>3, <1>4

-----------------------------------------------------------------------------
(***************************************************************************)
(* The records, block by block.                                            *)
(***************************************************************************)

\* A record is a record of its fields; if it is about a node, it cites its statement.
RecordFields(r) ==
    [kind : {r.kind}, tag : {r.tag}, path : {r.path}, query : {r.query}, class : {r.class},
     derived : {r.derived}, status : {r.status}]
Attested(r) == r \in RecordFields(r) /\ (r.tag = "node" => Cites(r.path, r.query))
Fresh(r) == Attested(r) /\ r.status = "unverified"

\* A list of fresh records of some kinds, and one without two of one key.
Block(s, kinds) ==
    /\ s \in Seq(ToSet(s))
    /\ \A i \in DOMAIN s : Fresh(s[i]) /\ <<s[i].kind, s[i].tag>> \in kinds
Keyed(s) ==
    \A i, j \in DOMAIN s :
        s[i].kind = s[j].kind /\ s[i].tag = s[j].tag /\ s[i].path = s[j].path => i = j

LEMMA BlocksJoin ==
    ASSUME NEW s, NEW t, NEW kinds, NEW others, Block(s, kinds), Block(t, others)
    PROVE  /\ Block(s \o t, kinds \cup others) /\ ToSet(s \o t) = ToSet(s) \cup ToSet(t)
           /\ Keyed(s) /\ Keyed(t) /\ kinds \cap others = {} => Keyed(s \o t)
<1> DEFINE T == ToSet(s) \cup ToSet(t)
           st == s \o t
<1>1. s \in Seq(T) /\ t \in Seq(T)
  <2>1. s \in Seq(ToSet(s)) /\ t \in Seq(ToSet(t))
    BY DEF Block
  <2>2. ToSet(s) \subseteq T /\ ToSet(t) \subseteq T
    OBVIOUS
  <2> HIDE DEF T
  <2> QED
    BY <2>1, <2>2
<1>2. /\ st \in Seq(T) /\ ToSet(st) = T
      /\ \A i \in DOMAIN st :
           \/ i \in DOMAIN s /\ st[i] = s[i]
           \/ i - Len(s) \in DOMAIN t /\ st[i] = t[i - Len(s)]
  BY <1>1, ConcatIs
<1>3. Len(s) \in Int /\ \A i \in DOMAIN st : i \in Int
  <2> HIDE DEF st
  <2>1. \A i \in DOMAIN st : i \in Int
    BY <1>2
  <2> QED
    BY <1>1, <2>1
<1> HIDE DEF st, T
<1>4. Block(st, kinds \cup others)
  BY <1>2 DEF Block
<1>5. ASSUME Keyed(s), Keyed(t), kinds \cap others = {} PROVE Keyed(st)
  <2> SUFFICES ASSUME NEW i \in DOMAIN st, NEW j \in DOMAIN st,
                      st[i].kind = st[j].kind, st[i].tag = st[j].tag, st[i].path = st[j].path
               PROVE  i = j
    BY DEF Keyed
  <2>1. CASE i \in DOMAIN s /\ st[i] = s[i]
    <3>1. <<st[i].kind, st[i].tag>> \in kinds
      BY <2>1 DEF Block
    <3>2. <<st[j].kind, st[j].tag>> \notin others
      BY <1>5, <3>1
    <3>3. j \in DOMAIN s /\ st[j] = s[j]
      BY <1>2, <3>2 DEF Block
    <3> QED
      BY <1>5, <2>1, <3>3 DEF Keyed
  <2>2. CASE i - Len(s) \in DOMAIN t /\ st[i] = t[i - Len(s)]
    <3>1. <<st[i].kind, st[i].tag>> \in others
      BY <2>2 DEF Block
    <3>2. <<st[j].kind, st[j].tag>> \notin kinds
      BY <1>5, <3>1
    <3>3. j - Len(s) \in DOMAIN t /\ st[j] = t[j - Len(s)]
      BY <1>2, <3>2 DEF Block
    <3>4. i - Len(s) = j - Len(s)
      BY <1>5, <2>2, <3>3 DEF Keyed
    <3> QED
      BY <1>3, <3>4
  <2> QED
    BY <1>2, <2>1, <2>2
<1> QED
  BY <1>2, <1>4, <1>5 DEF st, T

LEMMA OneRecord ==
    ASSUME NEW kind, NEW tag, tag # "node", NEW path, NEW query, NEW condition \in BOOLEAN
    PROVE  LET s == OnlyIf(condition, Record(kind, tag, path, query))
           IN  Block(s, {<<kind, tag>>}) /\ Keyed(s)
<1> DEFINE r == Record(kind, tag, path, query)
           s == OnlyIf(condition, r)
<1>1. r \in RecordFields(r) /\ r.kind = kind /\ r.tag = tag /\ r.status = "unverified"
  BY DEF Record, RecordFields
<1> HIDE DEF r
<1>2. Fresh(r)
  BY <1>1 DEF Fresh, Attested
<1>3. s = <<r>> \/ s = <<>>
  BY DEF OnlyIf
<1>4. CASE s = <<r>>
  <2>1. s \in Seq({r}) /\ DOMAIN s = 1..1 /\ \A i \in DOMAIN s : s[i] = r
    BY <1>4
  <2> HIDE DEF s
  <2>2. ToSet(s) = {r}
    BY <2>1 DEF ToSet
  <2>3. \A i, j \in DOMAIN s : i = j
    BY <2>1
  <2> QED
    BY <1>1, <1>2, <2>1, <2>2, <2>3 DEF Block, Keyed, r, s
<1>5. CASE s = <<>>
  BY <1>5 DEF Block, Keyed, r, s
<1> QED
  BY <1>3, <1>4, <1>5

LEMMA AboutIs ==
    ASSUME RcaInv, NEW kind, NEW n, Citable(n)
    PROVE  /\ Fresh(About(kind, n)) /\ About(kind, n).kind = kind /\ About(kind, n).tag = "node"
           /\ About(kind, n).path = n.path
<1> DEFINE path == n.path
           query == NodeQuery(path)
           b == Record(kind, "node", path, query)
           class == n.class
           r == [b EXCEPT !.class = class]
<1>1. /\ b \in RecordFields(b) /\ b.kind = kind /\ b.tag = "node" /\ b.path = path
      /\ b.query = query /\ b.status = "unverified" /\ b.derived = FALSE
  BY DEF Record, RecordFields
<1>2. Cites(path, query)
  BY NodeQueryIs
<1>3. About(kind, n) = r
  BY DEF About
<1> HIDE DEF b, class, path, query
<1>4. /\ r \in RecordFields(r) /\ r.kind = kind /\ r.tag = "node" /\ r.path = path
      /\ r.query = query /\ r.status = "unverified" /\ r.derived = FALSE
  BY <1>1 DEF RecordFields
<1> HIDE DEF r
<1> QED
  BY <1>2, <1>3, <1>4 DEF Fresh, Attested, path

\* Records about the nodes of a list, one about each.
CitableList(nodes) == nodes \in Seq(ToSet(nodes)) /\ \A i \in DOMAIN nodes : Citable(nodes[i])
Tells(s, nodes, kinds) ==
    /\ s \in Seq(ToSet(s)) /\ DOMAIN s = DOMAIN nodes
    /\ \A i \in DOMAIN nodes : \E kind \in kinds : s[i] = About(kind, nodes[i])
PathsOnce(nodes) == \A i, j \in DOMAIN nodes : nodes[i].path = nodes[j].path => i = j

LEMMA ListedIs ==
    ASSUME RcaInv, NEW kinds, NEW nodes, CitableList(nodes), NEW s, Tells(s, nodes, kinds)
    PROVE  /\ Block(s, kinds \X {"node"})
           /\ DOMAIN s = DOMAIN nodes /\ \A i \in DOMAIN nodes : s[i].path = nodes[i].path
           /\ PathsOnce(nodes) => Keyed(s)
<1>1. DOMAIN s = DOMAIN nodes /\ s \in Seq(ToSet(s))
  BY DEF Tells
<1>3. \A i \in DOMAIN nodes : /\ Fresh(s[i]) /\ s[i].kind \in kinds /\ s[i].tag = "node"
                              /\ s[i].path = nodes[i].path
  <2> SUFFICES ASSUME NEW i \in DOMAIN nodes
               PROVE  /\ Fresh(s[i]) /\ s[i].kind \in kinds /\ s[i].tag = "node"
                      /\ s[i].path = nodes[i].path
    OBVIOUS
  <2> DEFINE n == nodes[i]
  <2>1. PICK kind \in kinds : s[i] = About(kind, n)
    BY DEF Tells
  <2> DEFINE r == About(kind, n)
  <2>2. Citable(n) /\ s[i] = r
    BY <2>1 DEF CitableList
  <2> HIDE DEF n
  <2>3. Fresh(r) /\ r.kind = kind /\ r.tag = "node" /\ r.path = n.path
    BY <2>2, AboutIs, Zenon
  <2> HIDE DEF r
  <2> QED
    BY <2>2, <2>3 DEF n
<1>5. \A i \in DOMAIN s : Fresh(s[i]) /\ <<s[i].kind, s[i].tag>> \in kinds \X {"node"}
  BY <1>1, <1>3
<1> QED
  BY <1>1, <1>3, <1>5 DEF Block, Keyed, PathsOnce

LEMMA AboutEachIs ==
    ASSUME RcaInv, NEW kind, NEW nodes, CitableList(nodes)
    PROVE  LET s == AboutEach(kind, nodes)
           IN  /\ Block(s, {kind} \X {"node"})
               /\ DOMAIN s = DOMAIN nodes
               /\ \A i \in DOMAIN nodes : s[i].path = nodes[i].path
               /\ PathsOnce(nodes) => Keyed(s)
<1> DEFINE s == AboutEach(kind, nodes)
           kinds == {kind}
<1>1. DOMAIN s = DOMAIN nodes /\ \A i \in DOMAIN nodes : s[i] = About(kind, nodes[i])
  BY DEF AboutEach
<1>2. s \in Seq(ToSet(s))
  <2>1. DOMAIN s = 1..Len(nodes) /\ Len(nodes) \in Nat
    BY <1>1 DEF CitableList
  <2>2. s \in [1..Len(nodes) -> ToSet(s)]
    BY <2>1 DEF ToSet, AboutEach
  <2> QED
    BY <2>1, <2>2
<1>3. \A i \in DOMAIN nodes : \E k \in kinds : s[i] = About(k, nodes[i])
  BY <1>1
<1>4. Tells(s, nodes, kinds)
  BY <1>1, <1>2, <1>3 DEF Tells
<1> HIDE DEF s, kinds
<1>5. /\ Block(s, kinds \X {"node"})
      /\ DOMAIN s = DOMAIN nodes /\ \A i \in DOMAIN nodes : s[i].path = nodes[i].path
      /\ PathsOnce(nodes) => Keyed(s)
  BY <1>4, ListedIs, Zenon
<1> QED
  BY <1>5 DEF s, kinds

\* Some of the nodes of a list.
LEMMA SomeNodes ==
    ASSUME NEW nodes, CitableList(nodes), NEW places \in SUBSET (DOMAIN nodes)
    PROVE  LET p == Picked(nodes, places)
           IN  /\ CitableList(p)
               /\ \A k \in places : \E i \in DOMAIN p : p[i] = nodes[k]
               /\ \A i \in DOMAIN p : \E k \in places : p[i] = nodes[k]
               /\ PathsOnce(nodes) => PathsOnce(p)
<1> DEFINE p == Picked(nodes, places)
<1>0. nodes \in Seq(ToSet(nodes)) /\ \A i \in DOMAIN nodes : Citable(nodes[i])
  BY DEF CitableList
<1>1. p \in Seq(ToSet(nodes)) /\ ToSet(p) = {nodes[i] : i \in places}
  BY <1>0, PickedIs
<1>2. PICK o : Lists(o, places) /\ DOMAIN p = DOMAIN o /\ \A k \in DOMAIN o : p[k] = nodes[o[k]]
  BY <1>0, PickedIs
<1> HIDE DEF p
<1>3. \A k \in DOMAIN o : o[k] \in places
  BY <1>2 DEF Lists, ToSet
<1>4. p \in Seq(ToSet(p))
  <2>1. \A i \in DOMAIN p : p[i] \in ToSet(p)
    BY DEF ToSet
  <2> QED
    BY <1>1, <2>1
<1>5. \A i \in DOMAIN p : \E k \in places : p[i] = nodes[k]
  BY <1>2, <1>3
<1>6. \A k \in places : \E i \in DOMAIN p : p[i] = nodes[k]
  BY <1>1 DEF ToSet
<1>7. ASSUME PathsOnce(nodes),
             NEW i \in DOMAIN p, NEW j \in DOMAIN p, p[i].path = p[j].path
      PROVE  i = j
  <2>1. o[i] = o[j]
    BY <1>2, <1>3, <1>7 DEF PathsOnce
  <2> QED
    BY <1>2, <2>1 DEF Lists
<1>8. CitableList(p) /\ (PathsOnce(nodes) => PathsOnce(p))
  BY <1>0, <1>4, <1>5, <1>7 DEF CitableList, PathsOnce
<1> QED
  BY <1>5, <1>6, <1>8 DEF p

-----------------------------------------------------------------------------
(***************************************************************************)
(* The nodes the records are about.                                        *)
(***************************************************************************)

\* No segment of a file is called like the bucket of the rest.
NoBucket ==
    \A a \in Analyses : \A i \in DOMAIN a.rows : \A d \in Dimension :
        a.rows[i].segment[d] # OtherBucket

LEMMA GivenNow ==
    ASSUME RcaInv, level # <<>> \/ tree # {}
    PROVE  Given /\ (NoBucket => \A d \in Dimension : ~HasBucket(d))
<1>1. rcaStage # "idle"
  BY DEF RcaInv, Shaped, Early
<1>2. PICK a \in Analyses : task = {a}
  BY <1>1 DEF RcaInv, Shaped
<1>3. Given /\ The = a
  BY <1>2, GivenIs
<1> QED
  BY <1>3 DEF NoBucket, HasBucket

\* The nodes of the level: each has a path of one step, in its dimension.
LEMMA LevelNodesAre ==
    ASSUME RcaInv, level # <<>>, NEW d \in UsableSet
    PROVE  /\ d \in Dimension /\ level[d] \in Seq(ToSet(level[d]))
           /\ \A i \in DOMAIN level[d] :
                Citable(level[d][i]) /\ Len(level[d][i].path) = 1 /\ level[d][i].path[1][1] = d
           /\ NoBucket => PathsOnce(level[d])
<1>1. Given /\ UsableSet \subseteq Dimension
  BY GivenNow, UsableIs
<1>2. Siblings(level[d], d, <<>>)
  BY DEF RcaInv, LevelListed
<1>3. d \in Dimension /\ level[d] \in Seq(ToSet(level[d]))
  BY <1>1, <1>2 DEF Siblings
<1>4. ASSUME NEW i \in DOMAIN level[d]
      PROVE  Citable(level[d][i]) /\ Len(level[d][i].path) = 1 /\ level[d][i].path[1][1] = d
  <2> DEFINE none == <<>>
             path == level[d][i].path
  <2>1. PICK s \in Segment : path = Append(none, <<d, s>>)
    BY <1>2 DEF Siblings
  <2>2. none \in Path /\ none = <<>> /\ Len(none) = 0
    BY DEF Path
  <2> HIDE DEF none, path
  <2>3. path \in Path /\ path # <<>> /\ path[1][1] = d /\ Len(path) = 1
    BY <1>3, <2>1, <2>2, PathStep
  <2>4. path \in Path /\ path # <<>> /\ (Len(path) = 1 => level # <<>>) /\ ~(Len(path) > 1)
    BY <2>3
  <2> QED
    BY <2>3, <2>4 DEF Citable, path
<1>5. ASSUME NoBucket PROVE PathsOnce(level[d])
  <2>1. ~HasBucket(d)
    BY <1>3, <1>5, GivenNow
  <2> SUFFICES ASSUME NEW i \in DOMAIN level[d], NEW j \in DOMAIN level[d],
                      level[d][i].path = level[d][j].path
               PROVE  i = j
    BY DEF PathsOnce
  <2>2. i = j \/ Twins(level[d][i], level[d][j])
    BY <1>2 DEF Siblings
  <2> QED
    BY <1>4, <2>1, <2>2 DEF Twins
<1> QED
  BY <1>3, <1>4, <1>5

\* dimension_results in order: every node of the level, and each once if paths are.
LEMMA OrderedIs ==
    ASSUME RcaInv
    PROVE  /\ CitableList(Ordered)
           /\ level # <<>> => \A d \in UsableSet : \A i \in DOMAIN level[d] :
                                \E k \in DOMAIN Ordered : Ordered[k] = level[d][i]
           /\ NoBucket => PathsOnce(Ordered)
<1>1. CASE level = <<>>
  <2>1. Ordered = <<>>
    BY <1>1 DEF Ordered, HasLevel
  <2> QED
    BY <1>1, <2>1 DEF CitableList, PathsOnce
<1>2. CASE level # <<>>
  <2> DEFINE ss == [k \in DOMAIN Usable |-> level[Usable[k]]]
             T == UNION {ToSet(level[d]) : d \in UsableSet}
             o == FlattenSeq(ss)
  <2>1. Ordered = o
    BY <1>2 DEF Ordered, HasLevel
  <2>2. Given /\ Usable \in Seq(Dimension) /\ Once(Usable) /\ UsableSet = ToSet(Usable)
    BY <1>2, GivenNow, UsableIs
  <2>3. \A d \in UsableSet : level[d] \in Seq(ToSet(level[d])) /\ level[d] \in Seq(T)
    <3> SUFFICES ASSUME NEW d \in UsableSet
                 PROVE  level[d] \in Seq(ToSet(level[d])) /\ level[d] \in Seq(T)
      OBVIOUS
    <3>1. level[d] \in Seq(ToSet(level[d]))
      BY <1>2, LevelNodesAre
    <3>2. ToSet(level[d]) \subseteq T
      OBVIOUS
    <3> HIDE DEF T
    <3> QED
      BY <3>1, <3>2
  <2>4. DOMAIN ss = DOMAIN Usable /\ \A k \in DOMAIN Usable :
           Usable[k] \in UsableSet /\ ss[k] = level[Usable[k]]
    BY <2>2 DEF ToSet
  <2>5. ss \in Seq(Seq(T))
    <3>1. DOMAIN Usable = 1..Len(Usable) /\ Len(Usable) \in Nat
      BY <2>2
    <3>2. \A k \in 1..Len(Usable) : level[Usable[k]] \in Seq(T)
      BY <2>3, <2>4, <3>1
    <3> HIDE DEF T
    <3>3. ss \in [1..Len(Usable) -> Seq(T)]
      BY <3>1, <3>2
    <3> QED
      BY <3>1, <3>3
  <2>6. \A d \in UsableSet : \E k \in DOMAIN Usable : Usable[k] = d
    BY <2>2 DEF ToSet
  <2> HIDE DEF T, ss
  <2>7. /\ o \in Seq(T)
        /\ \A x : x \in ToSet(o) <=> \E k \in DOMAIN ss : x \in ToSet(ss[k])
        /\ (\A k, l \in DOMAIN ss : \A i \in DOMAIN ss[k], j \in DOMAIN ss[l] :
              ss[k][i] = ss[l][j] => k = l /\ i = j)
           => \A i, j \in DOMAIN o : o[i] = o[j] => i = j
    BY <2>5, FlattenIs
  <2> HIDE DEF o
  <2>8. o \in Seq(ToSet(o))
    BY <2>7 DEF ToSet
  <2>9. \A i \in DOMAIN o : \E d \in UsableSet : \E j \in DOMAIN level[d] : o[i] = level[d][j]
    <3> SUFFICES ASSUME NEW i \in DOMAIN o
                 PROVE  \E d \in UsableSet : \E j \in DOMAIN level[d] : o[i] = level[d][j]
      OBVIOUS
    <3>1. o[i] \in ToSet(o)
      BY DEF ToSet
    <3>2. PICK k \in DOMAIN ss : o[i] \in ToSet(ss[k])
      BY <2>7, <3>1
    <3> QED
      BY <2>4, <3>2 DEF ToSet
  <2>10. \A i \in DOMAIN o : Citable(o[i])
    BY <1>2, <2>9, LevelNodesAre
  <2>11. ASSUME NEW d \in UsableSet, NEW i \in DOMAIN level[d]
         PROVE  \E k \in DOMAIN o : o[k] = level[d][i]
    <3>1. PICK k \in DOMAIN Usable : Usable[k] = d
      BY <2>6
    <3>2. level[d][i] \in ToSet(ss[k])
      BY <2>4, <3>1 DEF ToSet
    <3>3. level[d][i] \in ToSet(o)
      BY <2>4, <2>7, <3>2
    <3> QED
      BY <3>3 DEF ToSet
  <2>12. ASSUME NoBucket PROVE PathsOnce(o)
    <3>1. ASSUME NEW d \in UsableSet, NEW e \in UsableSet, NEW i \in DOMAIN level[d],
                 NEW j \in DOMAIN level[e], level[d][i].path = level[e][j].path
          PROVE  d = e /\ i = j
      BY <1>2, <2>12, <3>1, LevelNodesAre DEF PathsOnce
    <3>2. \A k, l \in DOMAIN ss : \A i \in DOMAIN ss[k], j \in DOMAIN ss[l] :
              ss[k][i] = ss[l][j] => k = l /\ i = j
      BY <2>2, <2>4, <3>1 DEF Once
    <3>3. \A i, j \in DOMAIN o : o[i] = o[j] => i = j
      BY <2>7, <3>2
    <3> SUFFICES ASSUME NEW i \in DOMAIN o, NEW j \in DOMAIN o, o[i].path = o[j].path
                 PROVE  i = j
      BY DEF PathsOnce
    <3>4. o[i] = o[j]
      BY <2>9, <3>1
    <3> QED
      BY <3>3, <3>4
  <2> QED
    BY <2>1, <2>8, <2>10, <2>11, <2>12 DEF CitableList
<1> QED
  BY <1>1, <1>2

\* Siblings have paths of their own, if no segment is called like the bucket of the rest: the
\* breakdown has one group per segment, and the bucket is added once.
THEOREM SiblingsAreDistinct == ASSUME NoBucket PROVE RcaSpec => []SiblingsDistinct
<1>1. RcaInit => RcaInv
  BY InitKeeps
<1>2. RcaInv /\ [RcaNext]_rcaVars => RcaInv'
  BY RcaKeeps
<1>3. RcaInv => SiblingsDistinct
  BY LevelNodesAre DEF SiblingsDistinct, PathsOnce
<1> QED
  BY <1>1, <1>2, <1>3, PTL DEF RcaSpec

\* The nodes of the tree as a list.
LEMMA TreeListIs ==
    ASSUME RcaInv, NEW S \in SUBSET tree
    PROVE  LET s == SetToSeq(S)
           IN  /\ CitableList(s) /\ ToSet(s) = S
               /\ (\A n \in S : ~n.other) \/ NoBucket => PathsOnce(s)
<1> DEFINE s == SetToSeq(S)
<1>1. Lists(s, S)
  <2>1. IsFiniteSet(S)
    BY Fewer DEF RcaInv, TreeGrown
  <2> QED
    BY <2>1, SetToSeqIs
<1> HIDE DEF s
<1>2. s \in Seq(ToSet(s)) /\ ToSet(s) = S /\ \A i \in DOMAIN s : s[i] \in S
  BY <1>1 DEF Lists, ToSet
<1>3. \A n \in S : Grown(n)
  BY DEF RcaInv, TreeGrown
<1>4. \A n \in S : Citable(n)
  BY <1>3 DEF Grown, Citable
<1>5. ASSUME (\A n \in S : ~n.other) \/ NoBucket PROVE PathsOnce(s)
  <2> SUFFICES ASSUME NEW i \in DOMAIN s, NEW j \in DOMAIN s, s[i].path = s[j].path
               PROVE  i = j
    BY DEF PathsOnce
  <2>1. s[i] = s[j] \/ Twins(s[i], s[j])
    BY <1>2 DEF RcaInv, TreeGrown
  <2>2. ~Twins(s[i], s[j])
    <3>1. CASE \A n \in S : ~n.other
      BY <1>2, <3>1 DEF Twins
    <3>2. CASE NoBucket
      <4> DEFINE path == s[i].path
      <4>1. path \in Path /\ path # <<>>
        BY <1>2, <1>4 DEF Citable
      <4> HIDE DEF path
      <4>2. path[1] \in Dimension \X Segment
        BY <4>1 DEF Path
      <4>3. path[1][1] \in Dimension
        BY <4>2
      <4>4. tree # {}
        BY <1>2
      <4>5. ~HasBucket(path[1][1])
        BY <3>2, <4>3, <4>4, GivenNow
      <4> QED
        BY <4>5 DEF Twins, path
    <3> QED
      BY <1>5, <3>1, <3>2
  <2> QED
    BY <1>1, <2>1, <2>2 DEF Lists
<1> QED
  BY <1>2, <1>4, <1>5 DEF CitableList, s

LEMMA OffsettingIs == ASSUME RcaInv PROVE CitableList(drivers.offsetting) /\ PathsOnce(drivers.offsetting)
<1>1. DriverList(drivers.offsetting)
  BY DEF RcaInv, DriversListed
<1>2. \A i \in DOMAIN drivers.offsetting : Citable(drivers.offsetting[i])
  <2> SUFFICES ASSUME NEW i \in DOMAIN drivers.offsetting PROVE Citable(drivers.offsetting[i])
    OBVIOUS
  <2> DEFINE n == drivers.offsetting[i]
  <2>1. Driver(n)
    BY <1>1 DEF DriverList
  <2> HIDE DEF n
  <2>2. n.path \in Path /\ Len(n.path) = 1 /\ level # <<>>
    BY <2>1 DEF Driver
  <2>3. n.path # <<>> /\ ~(Len(n.path) > 1)
    BY <2>2 DEF Path
  <2> QED
    BY <2>2, <2>3 DEF Citable, n
<1> QED
  BY <1>1, <1>2 DEF DriverList, CitableList, PathsOnce

-----------------------------------------------------------------------------
(***************************************************************************)
(* The evidence.                                                           *)
(***************************************************************************)

\* What the findings need of the records: one for each segment of the level that is
\* material, of its contribution if it has one, one for each node below, and one for each
\* stop.
Backs(rs) ==
    /\ level # <<>> =>
         \A d \in UsableSet : \A i \in DOMAIN level[d] : Material(level[d][i]) =>
            /\ \E r \in rs : r.path = level[d][i].path
            /\ level[d][i].contribution # {} =>
                 \E r \in rs : r.path = level[d][i].path /\ r.kind = "contribution"
    /\ \A n \in tree :
         /\ Len(n.path) >= 2 => \E r \in rs : r.path = n.path
         /\ n.stop # "no" => \E r \in rs : r.path = n.path /\ r.derived

\* The records about the nodes of the level that pass a test.
LEMMA LevelEvidence ==
    ASSUME RcaInv, NEW kind, NEW places \in SUBSET (DOMAIN Ordered)
    PROVE  LET s == AboutEach(kind, Picked(Ordered, places))
           IN  /\ Block(s, {kind} \X {"node"})
               /\ NoBucket => Keyed(s)
               /\ \A k \in places :
                    \E r \in ToSet(s) : r.path = Ordered[k].path /\ r.kind = kind
<1> DEFINE nodes == Ordered
           p == Picked(nodes, places)
           s == AboutEach(kind, p)
<1>1. CitableList(nodes) /\ (NoBucket => PathsOnce(nodes))
  BY OrderedIs
<1> HIDE DEF nodes
<1>2. places \in SUBSET (DOMAIN nodes)
  BY DEF nodes
<1>3. /\ CitableList(p) /\ \A k \in places : \E i \in DOMAIN p : p[i] = nodes[k]
      /\ PathsOnce(nodes) => PathsOnce(p)
  BY <1>1, <1>2, SomeNodes
<1> HIDE DEF p
<1>4. /\ Block(s, {kind} \X {"node"}) /\ DOMAIN s = DOMAIN p
      /\ \A i \in DOMAIN p : s[i].path = p[i].path
      /\ PathsOnce(p) => Keyed(s)
  BY <1>3, AboutEachIs
<1>5. \A i \in DOMAIN p : s[i].kind = kind
  BY <1>4 DEF Block
<1> HIDE DEF s
<1>6. ASSUME NEW k \in places
      PROVE  \E r \in ToSet(s) : r.path = nodes[k].path /\ r.kind = kind
  <2>1. PICK i \in DOMAIN p : p[i] = nodes[k]
    BY <1>3
  <2>2. s[i].path = nodes[k].path /\ s[i].kind = kind /\ s[i] \in ToSet(s)
    BY <1>4, <1>5, <2>1 DEF ToSet
  <2> QED
    BY <2>2
<1> QED
  BY <1>1, <1>3, <1>4, <1>6 DEF s, p, nodes

LEMMA LifecycleIs ==
    ASSUME RcaInv
    PROVE  /\ Block(LifecycleEvidence, {"gone_segment", "new_segment"} \X {"node"})
           /\ NoBucket => Keyed(LifecycleEvidence)
<1> DEFINE mentioned == {i \in DOMAIN Ordered : Ordered[i].born \/ Ordered[i].gone}
           first == {i \in mentioned :
                       \A j \in mentioned : Ordered[j].path = Ordered[i].path => i <= j}
           nodes == Picked(Ordered, first)
           s == LifecycleEvidence
           kinds == {"gone_segment", "new_segment"}
<1>1. CitableList(Ordered) /\ (NoBucket => PathsOnce(Ordered))
  BY OrderedIs
<1>2. first \in SUBSET (DOMAIN Ordered)
  OBVIOUS
<1>3. s = [k \in DOMAIN nodes |->
             About(IF nodes[k].gone THEN "gone_segment" ELSE "new_segment", nodes[k])]
  BY DEF LifecycleEvidence
<1> HIDE DEF first
<1>4. CitableList(nodes) /\ (PathsOnce(Ordered) => PathsOnce(nodes))
  BY <1>1, <1>2, SomeNodes
<1> HIDE DEF nodes, s
<1>5. DOMAIN s = DOMAIN nodes
  BY <1>3
<1>6. s \in Seq(ToSet(s))
  <2>1. DOMAIN s = 1..Len(nodes) /\ Len(nodes) \in Nat
    BY <1>4, <1>5 DEF CitableList
  <2>2. s \in [1..Len(nodes) -> ToSet(s)]
    BY <1>3, <2>1 DEF ToSet
  <2> QED
    BY <2>1, <2>2
<1>7. \A i \in DOMAIN nodes : \E kind \in kinds : s[i] = About(kind, nodes[i])
  BY <1>3
<1>8. Tells(s, nodes, kinds)
  BY <1>5, <1>6, <1>7 DEF Tells
<1> HIDE DEF kinds
<1>9. Block(s, kinds \X {"node"}) /\ (PathsOnce(nodes) => Keyed(s))
  BY <1>4, <1>8, ListedIs, Zenon
<1> QED
  BY <1>1, <1>4, <1>9 DEF s, kinds

LEMMA StopRecordIs ==
    ASSUME NEW n
    PROVE  LET r == [Record("drill_down", StopTag, n.path, 0) EXCEPT
                       !.class = n.class, !.derived = TRUE]
           IN  /\ Fresh(r) /\ <<r.kind, r.tag>> = <<"drill_down", "stop">>
               /\ r.path = n.path /\ r.derived
<1> DEFINE path == n.path
           class == n.class
           r == [Record("drill_down", StopTag, path, 0) EXCEPT !.class = class, !.derived = TRUE]
<1> HIDE DEF path, class
<1>1. /\ r \in RecordFields(r) /\ r.kind = "drill_down" /\ r.tag = "stop" /\ r.path = path
      /\ r.status = "unverified" /\ r.derived
  BY DEF Record, RecordFields, StopTag
<1> HIDE DEF r
<1>2. Fresh(r) /\ <<r.kind, r.tag>> = <<"drill_down", "stop">> /\ r.path = path /\ r.derived
  BY <1>1 DEF Fresh, Attested
<1> QED
  BY <1>2 DEF r, path, class

LEMMA StopsAre ==
    ASSUME RcaInv
    PROVE  LET S == {n \in tree : n.stop # "no"}
               s == Stops(SetToSeq(S))
           IN  /\ Block(s, {<<"drill_down", "stop">>}) /\ (NoBucket => Keyed(s))
               /\ \A n \in S : \E r \in ToSet(s) : r.path = n.path /\ r.derived
<1> DEFINE S == {n \in tree : n.stop # "no"}
           nodes == SetToSeq(S)
           s == Stops(nodes)
           stop(n) == [Record("drill_down", StopTag, n.path, 0) EXCEPT
                         !.class = n.class, !.derived = TRUE]
<1>1. CitableList(nodes) /\ ToSet(nodes) = S /\ (NoBucket => PathsOnce(nodes))
  BY TreeListIs
<1> HIDE DEF nodes
<1>2. s = [i \in DOMAIN nodes |-> stop(nodes[i])]
  BY DEF Stops
<1>3. \A n : /\ Fresh(stop(n)) /\ <<stop(n).kind, stop(n).tag>> = <<"drill_down", "stop">>
             /\ stop(n).path = n.path /\ stop(n).derived
  BY StopRecordIs
<1> HIDE DEF stop, s
<1>4. DOMAIN s = DOMAIN nodes
      /\ \A i \in DOMAIN s : /\ Fresh(s[i]) /\ <<s[i].kind, s[i].tag>> = <<"drill_down", "stop">>
                             /\ s[i].path = nodes[i].path /\ s[i].derived
  BY <1>2, <1>3
<1>5. s \in Seq(ToSet(s))
  <2>1. DOMAIN s = 1..Len(nodes) /\ Len(nodes) \in Nat
    BY <1>1, <1>4 DEF CitableList
  <2>2. s \in [1..Len(nodes) -> ToSet(s)]
    BY <1>2, <2>1 DEF ToSet
  <2> QED
    BY <2>1, <2>2
<1>6. Block(s, {<<"drill_down", "stop">>})
  BY <1>4, <1>5 DEF Block
<1>7. NoBucket => Keyed(s)
  BY <1>1, <1>4 DEF Keyed, PathsOnce
<1>8. ASSUME NEW n \in S PROVE \E r \in ToSet(s) : r.path = n.path /\ r.derived
  <2>1. PICK i \in DOMAIN nodes : nodes[i] = n
    BY <1>1, <1>8 DEF ToSet
  <2>2. s[i] \in ToSet(s) /\ s[i].path = n.path /\ s[i].derived
    BY <1>4, <2>1 DEF ToSet
  <2> QED
    BY <2>2
<1> QED
  BY <1>6, <1>7, <1>8 DEF s, nodes

LEMMA RunRecords ==
    /\ Block(RunEvidence, {"execution", "coverage", "reconciliation"} \X {"run"})
    /\ Keyed(RunEvidence)
<1> DEFINE names == <<"execution", "coverage", "reconciliation">>
           none == <<>>
           r(i) == Record(names[i], "run", none, 0)
           s == [i \in 1..3 |-> r(i)]
<1>1. RunEvidence = s
  BY DEF RunEvidence
<1>2. \A i \in 1..3 : names[i] \in {"execution", "coverage", "reconciliation"}
  OBVIOUS
<1>3. \A i, j \in 1..3 : names[i] = names[j] => i = j
  OBVIOUS
<1> HIDE DEF names, none
<1>4. \A i \in 1..3 : /\ r(i) \in RecordFields(r(i)) /\ r(i).kind = names[i] /\ r(i).tag = "run"
                      /\ r(i).status = "unverified"
  BY DEF Record, RecordFields
<1> HIDE DEF r
<1>5. \A i \in 1..3 : Fresh(r(i))
  BY <1>4 DEF Fresh, Attested
<1>6. DOMAIN s = 1..3 /\ \A i \in 1..3 : s[i] = r(i)
  OBVIOUS
<1>7. s \in Seq(ToSet(s))
  <2>1. s \in [1..3 -> ToSet(s)]
    BY <1>6 DEF ToSet
  <2> QED
    BY <2>1
<1> HIDE DEF s
<1>8. Block(s, {"execution", "coverage", "reconciliation"} \X {"run"})
  BY <1>2, <1>4, <1>5, <1>6, <1>7 DEF Block
<1>9. Keyed(s)
  BY <1>3, <1>4, <1>6 DEF Keyed
<1> QED
  BY <1>1, <1>8, <1>9

\* A block whose records have ids of their own, if paths do.
Joinable(s, kinds) == Block(s, kinds) /\ (NoBucket => Keyed(s))

LEMMA JoinIs ==
    ASSUME NEW s, NEW t, NEW kinds, NEW others, Joinable(s, kinds), Joinable(t, others),
           kinds \cap others = {}
    PROVE  Joinable(s \o t, kinds \cup others) /\ ToSet(s \o t) = ToSet(s) \cup ToSet(t)
  BY BlocksJoin DEF Joinable

LEMMA DrillDownIs ==
    ASSUME RcaInv
    PROVE  /\ Joinable(DrillDownEvidence, {<<"drill_down", "node">>, <<"drill_down", "stop">>})
           /\ \A n \in tree :
                /\ Len(n.path) >= 2 => \E r \in ToSet(DrillDownEvidence) : r.path = n.path
                /\ n.stop # "no" =>
                     \E r \in ToSet(DrillDownEvidence) : r.path = n.path /\ r.derived
<1> DEFINE below == {n \in tree : Len(n.path) >= 2}
           nodes == SetToSeq(below)
           a == AboutEach("drill_down", nodes)
           b == Stops(SetToSeq({n \in tree : n.stop # "no"}))
<1>1. DrillDownEvidence = a \o b
  BY DEF DrillDownEvidence
<1>2. \A n \in below : ~n.other
  <2> SUFFICES ASSUME NEW n \in below PROVE ~n.other
    OBVIOUS
  <2>1. Grown(n)
    BY DEF RcaInv, TreeGrown
  <2>2. Len(n.path) > 1
    BY <2>1 DEF Grown, Path
  <2> QED
    BY <2>1, <2>2 DEF Grown
<1>3. CitableList(nodes) /\ ToSet(nodes) = below /\ PathsOnce(nodes)
  BY <1>2, TreeListIs
<1>0. \A n \in tree : Len(n.path) >= 2 => n \in below
  OBVIOUS
<1> HIDE DEF nodes, below
<1>4. /\ Block(a, {"drill_down"} \X {"node"}) /\ Keyed(a)
      /\ DOMAIN a = DOMAIN nodes /\ \A i \in DOMAIN nodes : a[i].path = nodes[i].path
  <2>1. CitableList(nodes) /\ PathsOnce(nodes)
    BY <1>3
  <2> QED
    BY <2>1, AboutEachIs
<1>5. {"drill_down"} \X {"node"} = {<<"drill_down", "node">>}
  OBVIOUS
<1>6. Joinable(a, {<<"drill_down", "node">>})
  BY <1>4, <1>5 DEF Joinable
<1>7. /\ Joinable(b, {<<"drill_down", "stop">>})
      /\ \A n \in tree : n.stop # "no" => \E r \in ToSet(b) : r.path = n.path /\ r.derived
  BY StopsAre DEF Joinable
<1> HIDE DEF a, b
<1> DEFINE k == {<<"drill_down", "node">>}
           l == {<<"drill_down", "stop">>}
<1>8. k \cap l = {} /\ k \cup l = {<<"drill_down", "node">>, <<"drill_down", "stop">>}
  OBVIOUS
<1> HIDE DEF k, l
<1>9. Joinable(a \o b, k \cup l) /\ ToSet(a \o b) = ToSet(a) \cup ToSet(b)
  <2>1. Joinable(a, k) /\ Joinable(b, l)
    BY <1>6, <1>7 DEF k, l
  <2> QED
    BY <1>8, <2>1, JoinIs
<1>10. ASSUME NEW n \in below PROVE \E r \in ToSet(a) : r.path = n.path
  <2>1. PICK i \in DOMAIN nodes : nodes[i] = n
    BY <1>3, <1>10 DEF ToSet
  <2>2. a[i] \in ToSet(a) /\ a[i].path = n.path
    BY <1>4, <2>1 DEF ToSet
  <2> QED
    BY <2>2
<1> QED
  BY <1>0, <1>1, <1>7, <1>8, <1>9, <1>10

\* What build says of anomalies: two records or fewer.
AnomaliesTyped == anomalies.inside \in BOOLEAN /\ anomalies.trend \in BOOLEAN

LEMMA SingleRecord ==
    ASSUME NEW kind, NEW tag, tag # "node", NEW path, NEW query, NEW condition \in BOOLEAN
    PROVE  Joinable(OnlyIf(condition, Record(kind, tag, path, query)), {<<kind, tag>>})
  BY OneRecord DEF Joinable

LEMMA AnomalyRecords ==
    ASSUME AnomaliesTyped
    PROVE  Joinable(AnomalyEvidence, {<<"anomaly", "series">>, <<"trend", "baseline">>})
<1> DEFINE none == <<>>
           query == Found("series_aggregate", {none})
           a == OnlyIf(anomalies.inside, Record("anomaly", "series", none, query))
           b == OnlyIf(anomalies.trend, Record("trend", "baseline", none, 0))
<1>1. AnomalyEvidence = a \o b
  BY DEF AnomalyEvidence
<1> HIDE DEF none, query
<1>2. Joinable(a, {<<"anomaly", "series">>})
  <2>1. "series" # "node" /\ anomalies.inside \in BOOLEAN
    BY DEF AnomaliesTyped
  <2> QED
    BY <2>1, SingleRecord, Zenon
<1>3. Joinable(b, {<<"trend", "baseline">>})
  <2>1. "baseline" # "node" /\ anomalies.trend \in BOOLEAN
    BY DEF AnomaliesTyped
  <2> QED
    BY <2>1, SingleRecord, Zenon
<1> HIDE DEF a, b
<1>4. {<<"anomaly", "series">>} \cap {<<"trend", "baseline">>} = {}
      /\ {<<"anomaly", "series">>} \cup {<<"trend", "baseline">>}
           = {<<"anomaly", "series">>, <<"trend", "baseline">>}
  OBVIOUS
<1> QED
  BY <1>1, <1>2, <1>3, <1>4, JoinIs

LEMMA MaterialEvidence ==
    ASSUME RcaInv
    PROVE  /\ Joinable(DimensionEvidence, {"dimension_change"} \X {"node"})
           /\ Joinable(ContributionEvidence, {"contribution"} \X {"node"})
           /\ \A k \in DOMAIN Ordered : Material(Ordered[k]) =>
                /\ \E r \in ToSet(DimensionEvidence) : r.path = Ordered[k].path
                /\ Ordered[k].contribution # {} =>
                     \E r \in ToSet(ContributionEvidence) :
                        r.path = Ordered[k].path /\ r.kind = "contribution"
<1> DEFINE A == {i \in DOMAIN Ordered : Material(Ordered[i])}
           B == {i \in DOMAIN Ordered : Material(Ordered[i]) /\ Ordered[i].contribution # {}}
           a == AboutEach("dimension_change", Picked(Ordered, A))
           b == AboutEach("contribution", Picked(Ordered, B))
<1>1. DimensionEvidence = a /\ ContributionEvidence = b
  BY DEF DimensionEvidence, ContributionEvidence, Chosen
<1>2. A \in SUBSET (DOMAIN Ordered) /\ B \in SUBSET (DOMAIN Ordered)
  OBVIOUS
<1>3. \A k \in DOMAIN Ordered : Material(Ordered[k]) =>
        k \in A /\ (Ordered[k].contribution # {} => k \in B)
  OBVIOUS
<1> HIDE DEF A, B
<1>4. /\ Block(a, {"dimension_change"} \X {"node"}) /\ (NoBucket => Keyed(a))
      /\ \A k \in A : \E r \in ToSet(a) : r.path = Ordered[k].path /\ r.kind = "dimension_change"
  BY <1>2, LevelEvidence
<1>5. /\ Block(b, {"contribution"} \X {"node"}) /\ (NoBucket => Keyed(b))
      /\ \A k \in B : \E r \in ToSet(b) : r.path = Ordered[k].path /\ r.kind = "contribution"
  BY <1>2, LevelEvidence
<1> HIDE DEF a, b
<1> QED
  BY <1>1, <1>3, <1>4, <1>5 DEF Joinable

\* The records build makes: fresh, about nothing else's id, and enough of them.
LEMMA EvidenceIs ==
    ASSUME RcaInv, AnomaliesTyped
    PROVE  /\ Evidence \in Seq(ToSet(Evidence))
           /\ \A i \in DOMAIN Evidence : Fresh(Evidence[i]) /\ Evidence[i].kind # "validation"
           /\ NoBucket => Keyed(Evidence)
           /\ Backs(ToSet(Evidence))
<1> DEFINE none == <<>>
           k1 == {<<"kpi_change", "root">>}
           k2 == {<<"comparison", "periods">>}
           k3 == {"dimension_change"} \X {"node"}
           k4 == {"contribution"} \X {"node"}
           k5 == {"gone_segment", "new_segment"} \X {"node"}
           k6 == {"offsetting_factor"} \X {"node"}
           k7 == {<<"drill_down", "node">>, <<"drill_down", "stop">>}
           k8 == {<<"anomaly", "series">>, <<"trend", "baseline">>}
           k9 == {"execution", "coverage", "reconciliation"} \X {"run"}
<1>1. Joinable(KpiChangeEvidence, k1)
  <2> DEFINE query == Found("kpi_period_totals", {none})
             r == Record("kpi_change", "root", none, query)
  <2>1. KpiChangeEvidence = OnlyIf(TRUE, r)
    BY DEF KpiChangeEvidence, OnlyIf
  <2> HIDE DEF query, none
  <2>2. Joinable(OnlyIf(TRUE, r), k1)
    <3>1. "root" # "node" /\ TRUE \in BOOLEAN
      OBVIOUS
    <3> QED
      BY <3>1, SingleRecord, Zenon
  <2> QED
    BY <2>1, <2>2
<1>2. Joinable(ComparisonEvidence, k2)
  <2> DEFINE query == Found("resolve_period_bounds", {none})
             condition == ~Unanalysed
             r == Record("comparison", "periods", none, query)
  <2>1. ComparisonEvidence = OnlyIf(condition, r)
    BY DEF ComparisonEvidence
  <2>2. condition \in BOOLEAN /\ "periods" # "node"
    OBVIOUS
  <2> HIDE DEF query, none, condition
  <2>3. Joinable(OnlyIf(condition, r), k2)
    BY <2>2, SingleRecord, Zenon
  <2> QED
    BY <2>1, <2>3
<1>3. Joinable(DimensionEvidence, k3) /\ Joinable(ContributionEvidence, k4)
  BY MaterialEvidence
<1>4. Joinable(LifecycleEvidence, k5)
  BY LifecycleIs DEF Joinable
<1>5. Joinable(OffsettingEvidence, k6)
  <2> DEFINE nodes == drivers.offsetting
  <2>1. CitableList(nodes) /\ PathsOnce(nodes)
    BY OffsettingIs
  <2>2. OffsettingEvidence = AboutEach("offsetting_factor", nodes)
    BY DEF OffsettingEvidence
  <2> HIDE DEF nodes
  <2>3. Block(AboutEach("offsetting_factor", nodes), k6)
        /\ Keyed(AboutEach("offsetting_factor", nodes))
    BY <2>1, AboutEachIs
  <2> QED
    BY <2>2, <2>3 DEF Joinable
<1>6. Joinable(DrillDownEvidence, k7)
  BY DrillDownIs
<1>7. Joinable(AnomalyEvidence, k8)
  BY AnomalyRecords
<1>8. Joinable(RunEvidence, k9)
  BY RunRecords DEF Joinable
<1>9. /\ k1 \cap k2 = {} /\ (k1 \cup k2) \cap k3 = {} /\ (k1 \cup k2 \cup k3) \cap k4 = {}
      /\ (k1 \cup k2 \cup k3 \cup k4) \cap k5 = {}
      /\ (k1 \cup k2 \cup k3 \cup k4 \cup k5) \cap k6 = {}
      /\ (k1 \cup k2 \cup k3 \cup k4 \cup k5 \cup k6) \cap k7 = {}
      /\ (k1 \cup k2 \cup k3 \cup k4 \cup k5 \cup k6 \cup k7) \cap k8 = {}
      /\ (k1 \cup k2 \cup k3 \cup k4 \cup k5 \cup k6 \cup k7 \cup k8) \cap k9 = {}
  OBVIOUS
<1>10. \A k \in k1 \cup k2 \cup k3 \cup k4 \cup k5 \cup k6 \cup k7 \cup k8 \cup k9 :
          k[1] # "validation"
  OBVIOUS
<1> HIDE DEF k1, k2, k3, k4, k5, k6, k7, k8, k9
<1> DEFINE c1 == KpiChangeEvidence \o ComparisonEvidence
           c2 == c1 \o DimensionEvidence
           c3 == c2 \o ContributionEvidence
           c4 == c3 \o LifecycleEvidence
           c5 == c4 \o OffsettingEvidence
           c6 == c5 \o DrillDownEvidence
           c7 == c6 \o AnomalyEvidence
           c8 == c7 \o RunEvidence
<1>11. Evidence = c8
  BY DEF Evidence
<1>12. Joinable(c1, k1 \cup k2)
  BY <1>1, <1>2, <1>9, JoinIs
<1> HIDE DEF c1
<1>13. Joinable(c2, k1 \cup k2 \cup k3) /\ ToSet(DimensionEvidence) \subseteq ToSet(c2)
  BY <1>3, <1>9, <1>12, JoinIs
<1> HIDE DEF c2
<1>14. /\ Joinable(c3, k1 \cup k2 \cup k3 \cup k4)
       /\ ToSet(DimensionEvidence) \cup ToSet(ContributionEvidence) \subseteq ToSet(c3)
  BY <1>3, <1>9, <1>13, JoinIs
<1> HIDE DEF c3
<1>15. Joinable(c4, k1 \cup k2 \cup k3 \cup k4 \cup k5) /\ ToSet(c3) \subseteq ToSet(c4)
  BY <1>4, <1>9, <1>14, JoinIs
<1> HIDE DEF c4
<1>16. Joinable(c5, k1 \cup k2 \cup k3 \cup k4 \cup k5 \cup k6) /\ ToSet(c4) \subseteq ToSet(c5)
  BY <1>5, <1>9, <1>15, JoinIs
<1> HIDE DEF c5
<1>17. /\ Joinable(c6, k1 \cup k2 \cup k3 \cup k4 \cup k5 \cup k6 \cup k7)
       /\ ToSet(c5) \cup ToSet(DrillDownEvidence) \subseteq ToSet(c6)
  BY <1>6, <1>9, <1>16, JoinIs
<1> HIDE DEF c6
<1>18. /\ Joinable(c7, k1 \cup k2 \cup k3 \cup k4 \cup k5 \cup k6 \cup k7 \cup k8)
       /\ ToSet(c6) \subseteq ToSet(c7)
  BY <1>7, <1>9, <1>17, JoinIs
<1> HIDE DEF c7
<1>19. /\ Joinable(c8, k1 \cup k2 \cup k3 \cup k4 \cup k5 \cup k6 \cup k7 \cup k8 \cup k9)
       /\ ToSet(c7) \subseteq ToSet(c8)
  BY <1>8, <1>9, <1>18, JoinIs
<1> HIDE DEF c8
<1>20. ToSet(DimensionEvidence) \cup ToSet(ContributionEvidence) \cup ToSet(DrillDownEvidence)
         \subseteq ToSet(c8)
  BY <1>14, <1>15, <1>16, <1>17, <1>18, <1>19
<1>21. /\ c8 \in Seq(ToSet(c8)) /\ (NoBucket => Keyed(c8))
       /\ \A i \in DOMAIN c8 : Fresh(c8[i]) /\ c8[i].kind # "validation"
  BY <1>10, <1>19 DEF Joinable, Block
<1>22. ASSUME level # <<>>, NEW d \in UsableSet, NEW i \in DOMAIN level[d],
              Material(level[d][i])
       PROVE  /\ \E r \in ToSet(c8) : r.path = level[d][i].path
              /\ level[d][i].contribution # {} =>
                   \E r \in ToSet(c8) : r.path = level[d][i].path /\ r.kind = "contribution"
  <2>1. PICK k \in DOMAIN Ordered : Ordered[k] = level[d][i]
    BY <1>22, OrderedIs
  <2> QED
    BY <1>20, <1>22, <2>1, MaterialEvidence
<1>23. ASSUME NEW n \in tree
       PROVE  /\ Len(n.path) >= 2 => \E r \in ToSet(c8) : r.path = n.path
              /\ n.stop # "no" => \E r \in ToSet(c8) : r.path = n.path /\ r.derived
  BY <1>20, DrillDownIs
<1> QED
  BY <1>11, <1>21, <1>22, <1>23 DEF Backs

-----------------------------------------------------------------------------
(***************************************************************************)
(* The records from the moment they are made.                              *)
(***************************************************************************)

Recorded ==
    /\ AnomaliesTyped
    /\ IF step = "assess" \/ Concluding
       THEN /\ records \in Seq(ToSet(records)) /\ \A i \in DOMAIN records : Attested(records[i])
            /\ Backs(ToSet(records)) /\ (NoBucket => Keyed(records))
            /\ step = "assess" => \A i \in DOMAIN records :
                  records[i].status = "unverified" /\ records[i].kind # "validation"
       ELSE records = <<>>
AuditInv == RcaInv /\ Judged /\ Recorded

\* What records say does not change when the analysis does not.
LEMMA RecordsStay ==
    ASSUME UNCHANGED rcaVars
    PROVE  /\ \A r : Attested(r)' = Attested(r)
           /\ \A rs : Backs(rs)' = Backs(rs)
<1>1. task' = task /\ level' = level /\ tree' = tree /\ trace' = trace
  BY DEF rcaVars, rcaResult
<1>2. UsableSet' = UsableSet
  BY <1>1, Stays
<1>3. \A path, query : Cites(path, query)' = Cites(path, query)
  BY <1>1 DEF Cites
<1>4. \A r : Attested(r)' = Attested(r)
  BY <1>3 DEF Attested, RecordFields
<1>5. \A rs : Backs(rs)' = Backs(rs)
  BY <1>1, <1>2 DEF Backs, Material
<1> QED
  BY <1>4, <1>5

\* Until the evidence is built there is none, and nothing is concluded.
Opening == {"analyse", "detect", "reconcile"}
LEMMA OpeningIs ==
    ASSUME \/ Analyse \/ RecordAnalysis \/ SkipDetection \/ NoGrain \/ Detected
           \/ DetectionRefused \/ DetectionEscapes \/ Reconcile
    PROVE  /\ step \in Opening /\ step' \in Opening \cup {"build", "over"}
           /\ records' = records
           /\ outcome' = outcome \/ (step' = "over" /\ outcome' = "error")
           /\ anomalies' = anomalies \/ AnomaliesTyped'
<1> USE DEF Opening
<1>1. CASE Analyse
  BY <1>1 DEF Analyse, auditVars
<1>2. CASE RecordAnalysis
  BY <1>2 DEF RecordAnalysis
<1>3. CASE SkipDetection
  BY <1>3 DEF SkipDetection
<1>4. CASE NoGrain
  BY <1>4 DEF NoGrain, Detectable
<1>5. CASE Detected
  BY <1>5 DEF Detected, Detectable, AnomaliesTyped
<1>6. CASE DetectionRefused
  BY <1>6 DEF DetectionRefused, Detectable
<1>7. CASE DetectionEscapes
  BY <1>7 DEF DetectionEscapes, Detectable
<1>8. CASE Reconcile
  BY <1>8 DEF Reconcile
<1> QED
  BY <1>1, <1>2, <1>3, <1>4, <1>5, <1>6, <1>7, <1>8

LEMMA OpeningKeeps ==
    ASSUME Judged, Recorded,
           \/ Analyse \/ RecordAnalysis \/ SkipDetection \/ NoGrain \/ Detected
           \/ DetectionRefused \/ DetectionEscapes \/ Reconcile
    PROVE  Judged' /\ Recorded' /\ outcome' \notin {"completed", "partial"} /\ records' = <<>>
<1>1. /\ step \in Opening /\ step' \in Opening \cup {"build", "over"} /\ records' = records
      /\ outcome' = outcome \/ (step' = "over" /\ outcome' = "error")
      /\ anomalies' = anomalies \/ AnomaliesTyped'
  BY OpeningIs
<1>2. outcome = "none"
  BY <1>1 DEF Judged, Opening
<1>3. records = <<>>
  BY <1>1, <1>2 DEF Recorded, Concluding, Opening
<1>4. AnomaliesTyped'
  BY <1>1 DEF Recorded, AnomaliesTyped
<1>5. outcome' \in {"none", "error"} /\ step' # "conclude" /\ step' # "assess"
      /\ (outcome' # "none" => step' = "over")
  BY <1>1, <1>2 DEF Opening
<1>6. ~Concluding'
  BY <1>5 DEF Concluding
<1> QED
  BY <1>1, <1>3, <1>4, <1>5, <1>6 DEF Judged, Recorded

LEMMA BuildKeeps ==
    ASSUME AuditInv, BuildEvidence
    PROVE  Judged' /\ Recorded' /\ outcome' \notin {"completed", "partial"}
<1>1. /\ step = "build" /\ step' = "assess" /\ records' = Evidence
      /\ UNCHANGED <<rcaVars, anomalies, outcome>>
  BY DEF BuildEvidence
<1>2. outcome = "none" /\ AnomaliesTyped /\ RcaInv
  BY <1>1 DEF AuditInv, Judged, Recorded
<1>3. /\ Evidence \in Seq(ToSet(Evidence))
      /\ \A i \in DOMAIN Evidence : Fresh(Evidence[i]) /\ Evidence[i].kind # "validation"
      /\ NoBucket => Keyed(Evidence)
      /\ Backs(ToSet(Evidence))
  BY <1>2, EvidenceIs
<1>4. /\ \A r : Attested(r)' = Attested(r)
      /\ \A rs : Backs(rs)' = Backs(rs)
  BY <1>1, RecordsStay
<1>5. \A i \in DOMAIN records' : Attested(records[i])'
  BY <1>1, <1>3, <1>4 DEF Fresh
<1>6. Backs(ToSet(records))'
  BY <1>1, <1>3, <1>4
<1>7. records' \in Seq(ToSet(records')) /\ (NoBucket => Keyed(records)')
  BY <1>1, <1>3 DEF Keyed
<1>8. \A i \in DOMAIN records' : records'[i].status = "unverified" /\ records'[i].kind # "validation"
  BY <1>1, <1>3 DEF Fresh
<1>9. ~Concluding' /\ outcome' = "none"
  BY <1>1, <1>2 DEF Concluding
<1>10. AnomaliesTyped'
  BY <1>1, <1>2 DEF AnomaliesTyped
<1> QED
  BY <1>1, <1>5, <1>6, <1>7, <1>8, <1>9, <1>10 DEF Judged, Recorded

\* The verdict changes the status of a record and nothing else.
LEMMA StampedKeeps ==
    ASSUME NEW r, r \in RecordFields(r), NEW checks
    PROVE  LET s == Stamped(r, checks)
           IN  /\ s \in RecordFields(s) /\ s.kind = r.kind /\ s.tag = r.tag /\ s.path = r.path
               /\ s.query = r.query /\ s.derived = r.derived
<1> DEFINE s == Stamped(r, checks)
<1>1. PICK x : s = [r EXCEPT !.status = x]
  BY DEF Stamped
<1> HIDE DEF s
<1>2. /\ s \in RecordFields(s) /\ s.kind = r.kind /\ s.tag = r.tag /\ s.path = r.path
      /\ s.query = r.query /\ s.derived = r.derived
  BY <1>1 DEF RecordFields
<1> QED
  BY <1>2 DEF s

LEMMA ValidationIs ==
    ASSUME NEW check, NEW checks
    PROVE  LET v == ValidationRecord(check, checks)
           IN  v \in RecordFields(v) /\ v.kind = "validation" /\ v.tag = check
<1> DEFINE v == ValidationRecord(check, checks)
           none == <<>>
<1>1. PICK x : v = [Record("validation", check, none, 0) EXCEPT !.status = x]
  BY DEF ValidationRecord
<1> HIDE DEF v, none
<1>2. v \in RecordFields(v) /\ v.kind = "validation" /\ v.tag = check
  BY <1>1 DEF RecordFields, Record
<1> QED
  BY <1>2 DEF v

LEMMA ChecksDiffer ==
    /\ DOMAIN CheckOrder = 1..6 /\ \A i \in 1..6 : CheckOrder[i] # "node"
    /\ \A i, j \in 1..6 : CheckOrder[i] = CheckOrder[j] => i = j
  BY DEF CheckOrder

\* What a list of records holds when each was stamped and those of the checks were added.
LEMMA StampedList ==
    ASSUME NEW rs, rs \in Seq(ToSet(rs)), \A i \in DOMAIN rs : Attested(rs[i]), NEW checks
    PROVE  LET all == [i \in DOMAIN rs |-> Stamped(rs[i], checks)]
                      \o [i \in 1..6 |-> ValidationRecord(CheckOrder[i], checks)]
           IN  /\ all \in Seq(ToSet(all)) /\ \A i \in DOMAIN all : Attested(all[i])
               /\ Backs(ToSet(rs)) => Backs(ToSet(all))
               /\ Keyed(rs) /\ (\A i \in DOMAIN rs : rs[i].kind # "validation") => Keyed(all)
<1> DEFINE a == [i \in DOMAIN rs |-> Stamped(rs[i], checks)]
           b == [i \in 1..6 |-> ValidationRecord(CheckOrder[i], checks)]
           T == ToSet(a) \cup ToSet(b)
           all == a \o b
<1>1. DOMAIN rs = 1..Len(rs) /\ Len(rs) \in Nat
  OBVIOUS
<1>2. DOMAIN a = DOMAIN rs /\ \A i \in DOMAIN rs : a[i] = Stamped(rs[i], checks)
  OBVIOUS
<1>3. DOMAIN b = 1..6 /\ \A i \in 1..6 : b[i] = ValidationRecord(CheckOrder[i], checks)
  OBVIOUS
<1>4. a \in Seq(T) /\ b \in Seq(T)
  <2>1. a \in [1..Len(rs) -> T] /\ b \in [1..6 -> T]
    BY <1>1, <1>2, <1>3 DEF ToSet
  <2> QED
    BY <1>1, <2>1
<1> HIDE DEF a, b
<1>5. \A i \in DOMAIN rs :
        /\ a[i] \in RecordFields(a[i]) /\ a[i].kind = rs[i].kind /\ a[i].tag = rs[i].tag
        /\ a[i].path = rs[i].path /\ a[i].query = rs[i].query /\ a[i].derived = rs[i].derived
  BY <1>2, StampedKeeps DEF Attested
<1>6. \A i \in 1..6 :
        b[i] \in RecordFields(b[i]) /\ b[i].kind = "validation" /\ b[i].tag = CheckOrder[i]
  BY <1>3, ValidationIs
<1>7. /\ all \in Seq(T) /\ ToSet(all) = T
      /\ \A i \in DOMAIN all :
           \/ i \in DOMAIN a /\ all[i] = a[i]
           \/ i - Len(a) \in DOMAIN b /\ all[i] = b[i - Len(a)]
  BY <1>4, ConcatIs
<1>8. Len(a) \in Int /\ \A i \in DOMAIN all : i \in Int
  <2> HIDE DEF all, T
  <2>1. \A i \in DOMAIN all : i \in Int
    BY <1>7
  <2> QED
    BY <1>4, <2>1
<1> HIDE DEF all, T
<1>9. \A i \in DOMAIN rs : Attested(a[i])
  BY <1>5 DEF Attested
<1>10. \A i \in 1..6 : Attested(b[i])
  BY <1>6, ChecksDiffer DEF Attested
<1>11. \A i \in DOMAIN all : Attested(all[i])
  BY <1>2, <1>3, <1>7, <1>9, <1>10
<1>12. \A r \in ToSet(rs) : \E s \in ToSet(all) :
          s.path = r.path /\ s.kind = r.kind /\ s.derived = r.derived
  <2> SUFFICES ASSUME NEW i \in DOMAIN rs
               PROVE  \E s \in ToSet(all) :
                         s.path = rs[i].path /\ s.kind = rs[i].kind /\ s.derived = rs[i].derived
    BY DEF ToSet
  <2>1. a[i] \in ToSet(all)
    BY <1>2, <1>7 DEF T, ToSet
  <2> QED
    BY <1>5, <2>1
<1>13. Backs(ToSet(rs)) => Backs(ToSet(all))
  <2> DEFINE R == ToSet(rs)
             S == ToSet(all)
  <2>1. \A r \in R : \E s \in S : s.path = r.path /\ s.kind = r.kind /\ s.derived = r.derived
    BY <1>12
  <2> HIDE DEF R, S
  <2> SUFFICES ASSUME Backs(R) PROVE Backs(S)
    BY DEF R, S
  <2>2. ASSUME level # <<>>, NEW d \in UsableSet, NEW i \in DOMAIN level[d],
               Material(level[d][i])
        PROVE  /\ \E s \in S : s.path = level[d][i].path
               /\ level[d][i].contribution # {} =>
                    \E s \in S : s.path = level[d][i].path /\ s.kind = "contribution"
    <3>1. /\ \E r \in R : r.path = level[d][i].path
          /\ level[d][i].contribution # {} =>
               \E r \in R : r.path = level[d][i].path /\ r.kind = "contribution"
      BY <2>2 DEF Backs
    <3> QED
      BY <2>1, <3>1
  <2>3. ASSUME NEW n \in tree
        PROVE  /\ Len(n.path) >= 2 => \E s \in S : s.path = n.path
               /\ n.stop # "no" => \E s \in S : s.path = n.path /\ s.derived
    <3>1. /\ Len(n.path) >= 2 => \E r \in R : r.path = n.path
          /\ n.stop # "no" => \E r \in R : r.path = n.path /\ r.derived
      BY DEF Backs
    <3> QED
      BY <2>1, <3>1
  <2> QED
    BY <2>2, <2>3 DEF Backs
<1>14. ASSUME Keyed(rs), \A i \in DOMAIN rs : rs[i].kind # "validation" PROVE Keyed(all)
  <2> SUFFICES ASSUME NEW i \in DOMAIN all, NEW j \in DOMAIN all,
                      all[i].kind = all[j].kind, all[i].tag = all[j].tag,
                      all[i].path = all[j].path
               PROVE  i = j
    BY DEF Keyed
  <2>1. CASE i \in DOMAIN a /\ all[i] = a[i]
    <3>1. i \in DOMAIN rs /\ all[i].kind # "validation"
      BY <1>2, <1>5, <1>14, <2>1
    <3>2. j \in DOMAIN a /\ all[j] = a[j]
      BY ZenonT(40), <1>3, <1>6, <1>7, <3>1
    <3>3. j \in DOMAIN rs /\ rs[i].kind = rs[j].kind /\ rs[i].tag = rs[j].tag
          /\ rs[i].path = rs[j].path
      BY <1>2, <1>5, <2>1, <3>1, <3>2
    <3> QED
      BY <1>14, <3>1, <3>3 DEF Keyed
  <2>2. CASE i - Len(a) \in DOMAIN b /\ all[i] = b[i - Len(a)]
    <3>1. all[i].kind = "validation" /\ all[i].tag = CheckOrder[i - Len(a)]
      BY <1>3, <1>6, <2>2
    <3>2. ~(j \in DOMAIN a /\ all[j] = a[j])
      BY <1>2, <1>5, <1>14, <3>1
    <3>3. j - Len(a) \in DOMAIN b /\ all[j].tag = CheckOrder[j - Len(a)]
      BY <1>3, <1>6, <1>7, <3>2
    <3>4. i - Len(a) = j - Len(a)
      BY <1>3, <2>2, <3>1, <3>3, ChecksDiffer
    <3> QED
      BY <1>8, <3>4
  <2> QED
    BY <1>7, <2>1, <2>2
<1>15. all \in Seq(ToSet(all))
  BY <1>7
<1> QED
  BY <1>11, <1>13, <1>14, <1>15 DEF all, a, b

LEMMA AssessKeeps ==
    ASSUME AuditInv, Assess
    PROVE  Judged' /\ Recorded' /\ outcome' \notin {"completed", "partial"}
<1> DEFINE checks == Checks
           all == [i \in DOMAIN records |-> Stamped(records[i], checks)]
                     \o [i \in 1..6 |-> ValidationRecord(CheckOrder[i], checks)]
<1>1. /\ step = "assess" /\ step' = "conclude" /\ records' = all
      /\ UNCHANGED <<rcaVars, anomalies, outcome>>
  BY DEF Assess
<1>2. /\ AnomaliesTyped /\ records \in Seq(ToSet(records))
      /\ \A i \in DOMAIN records : Attested(records[i])
      /\ Backs(ToSet(records)) /\ (NoBucket => Keyed(records))
      /\ \A i \in DOMAIN records :
            records[i].status = "unverified" /\ records[i].kind # "validation"
  BY <1>1 DEF AuditInv, Recorded
<1>3. outcome = "none"
  BY <1>1 DEF AuditInv, Judged
<1>4. Judged'
  <2>1. \A i \in DOMAIN records : records[i].status # "failed"
    BY <1>2
  <2>2. DOMAIN records = 1..Len(records) /\ Len(records) \in Nat
    BY <1>2
  <2> QED
    BY <2>1, <2>2, AssessJudges DEF AuditInv
<1> HIDE DEF checks
<1>5. /\ all \in Seq(ToSet(all)) /\ \A i \in DOMAIN all : Attested(all[i])
      /\ Backs(ToSet(all)) /\ (NoBucket => Keyed(all))
  BY <1>2, StampedList
<1> HIDE DEF all
<1>6. /\ \A r : Attested(r)' = Attested(r)
      /\ \A rs : Backs(rs)' = Backs(rs)
  BY <1>1, RecordsStay
<1>7. \A i \in DOMAIN records' : Attested(records[i])'
  BY <1>1, <1>5, <1>6
<1>8. Backs(ToSet(records))'
  BY <1>1, <1>5, <1>6
<1>9. records' \in Seq(ToSet(records')) /\ (NoBucket => Keyed(records)')
  BY <1>1, <1>5 DEF Keyed
<1>10. Concluding' /\ outcome' = "none" /\ step' # "assess"
  BY <1>1, <1>3 DEF Concluding
<1>11. AnomaliesTyped'
  BY <1>1, <1>2 DEF AnomaliesTyped
<1> QED
  BY <1>4, <1>7, <1>8, <1>9, <1>10, <1>11 DEF Recorded

LEMMA ConclusionKeeps ==
    ASSUME AuditInv, ConcludeInvestigation
    PROVE  Judged' /\ Recorded' /\ CompletedIsWhole'
<1>1. /\ step = "conclude" /\ step' = "over" /\ outcome' \in {"partial", "completed"}
      /\ UNCHANGED <<rcaVars, anomalies, records>>
  BY DEF ConcludeInvestigation
<1>2. Judged' /\ CompletedIsWhole'
  BY ConcludeCompletes DEF AuditInv
<1>3. Recorded /\ Concluding /\ Concluding'
  BY <1>1 DEF AuditInv, Concluding
<1>4. /\ AnomaliesTyped /\ records \in Seq(ToSet(records))
      /\ \A i \in DOMAIN records : Attested(records[i])
      /\ Backs(ToSet(records)) /\ (NoBucket => Keyed(records))
  BY <1>3 DEF Recorded
<1>5. /\ \A r : Attested(r)' = Attested(r)
      /\ \A rs : Backs(rs)' = Backs(rs)
  BY <1>1, RecordsStay
<1>6. \A i \in DOMAIN records' : Attested(records[i])'
  BY <1>1, <1>4, <1>5
<1>7. Backs(ToSet(records))'
  BY <1>1, <1>4, <1>5
<1>8. records' \in Seq(ToSet(records')) /\ (NoBucket => Keyed(records)') /\ AnomaliesTyped'
  BY <1>1, <1>4 DEF Keyed, AnomaliesTyped
<1> QED
  BY <1>1, <1>2, <1>3, <1>6, <1>7, <1>8 DEF Recorded

LEMMA AuditStutters ==
    ASSUME Judged, Recorded, UNCHANGED invVars
    PROVE  /\ Judged' /\ Recorded'
           /\ CompletedIsWhole => CompletedIsWhole'
           /\ FindingsRestOnEvidence => FindingsRestOnEvidence'
<1>1. UNCHANGED <<rcaVars, step, anomalies, reconciled, records, quality, decisions, outcome>>
  BY DEF invVars, auditVars
<1>2. /\ Dated' = Dated /\ Base' = Base /\ Measured(Base)' = Measured(Base)
      /\ CheckCoverage' = CheckCoverage /\ Unanalysed' = Unanalysed /\ truncated' = truncated
  BY <1>1, AnalysisStays DEF rcaVars, rcaResult
<1>3. /\ CheckReconciliation' = CheckReconciliation
      /\ QualityOf(quality.checks)' = QualityOf(quality.checks)
      /\ With(quality.checks, "failed")' = With(quality.checks, "failed")
  BY <1>1, <1>2 DEF CheckReconciliation, ReconciliationPassed, QualityOf, With
<1>4. Concluding' <=> Concluding
  BY <1>1 DEF Concluding
<1>5. Judged'
  BY <1>1, <1>2, <1>3, <1>4 DEF Judged
<1>6. CompletedIsWhole => CompletedIsWhole'
  BY <1>1, <1>2 DEF CompletedIsWhole
<1>7. FindingsRestOnEvidence => FindingsRestOnEvidence'
  <2>1. tree' = tree
    BY <1>1 DEF rcaVars, rcaResult
  <2> QED
    BY <1>1, <2>1 DEF FindingsRestOnEvidence
<1>8. /\ \A r : Attested(r)' = Attested(r)
      /\ \A rs : Backs(rs)' = Backs(rs)
  BY <1>1, RecordsStay
<1>9. ASSUME step = "assess" \/ Concluding PROVE Recorded'
  <2>1. /\ AnomaliesTyped /\ records \in Seq(ToSet(records))
        /\ \A i \in DOMAIN records : Attested(records[i])
        /\ Backs(ToSet(records)) /\ (NoBucket => Keyed(records))
        /\ step = "assess" => \A i \in DOMAIN records :
              records[i].status = "unverified" /\ records[i].kind # "validation"
    BY <1>9 DEF Recorded
  <2>2. \A i \in DOMAIN records' : Attested(records[i])'
    BY <1>1, <1>8, <2>1
  <2>3. Backs(ToSet(records))'
    BY <1>1, <1>8, <2>1
  <2>4. records' \in Seq(ToSet(records')) /\ (NoBucket => Keyed(records)') /\ AnomaliesTyped'
    BY <1>1, <2>1 DEF Keyed, AnomaliesTyped
  <2>5. step' = "assess" => \A i \in DOMAIN records' :
            records'[i].status = "unverified" /\ records'[i].kind # "validation"
    BY <1>1, <2>1
  <2>6. step' = "assess" \/ Concluding'
    BY <1>1, <1>4, <1>9
  <2> QED
    BY <2>2, <2>3, <2>4, <2>5, <2>6 DEF Recorded
<1>10. ASSUME ~(step = "assess" \/ Concluding) PROVE Recorded'
  <2>1. records' = <<>> /\ AnomaliesTyped'
    BY <1>1, <1>10 DEF Recorded, AnomaliesTyped
  <2>2. ~(step' = "assess" \/ Concluding')
    BY <1>1, <1>4, <1>10
  <2> QED
    BY <2>1, <2>2 DEF Recorded
<1> QED
  BY <1>5, <1>6, <1>7, <1>9, <1>10

LEMMA AuditOpens == ASSUME InvestigationInit PROVE AuditInv
<1>1. RcaInv
  BY InitKeeps DEF InvestigationInit
<1>2. step = "analyse" /\ outcome = "none" /\ records = <<>> /\ anomalies = NotRun
  BY DEF InvestigationInit
<1>3. ~Concluding /\ AnomaliesTyped
  BY <1>2 DEF Concluding, AnomaliesTyped, NotRun
<1> QED
  BY <1>1, <1>2, <1>3 DEF AuditInv, Judged, Recorded

LEMMA AuditKeeps ==
    ASSUME AuditInv, [InvestigationNext]_invVars
    PROVE  /\ AuditInv' /\ (CompletedIsWhole => CompletedIsWhole')
           /\ FindingsRestOnEvidence =>
                FindingsRestOnEvidence' \/ ConcludeInvestigation
<1>1. RcaInv' /\ Judged /\ Recorded
  BY InvestigationKeeps DEF AuditInv
<1>2. ASSUME outcome' \notin {"completed", "partial"}
      PROVE  CompletedIsWhole' /\ FindingsRestOnEvidence'
  BY <1>2 DEF CompletedIsWhole, FindingsRestOnEvidence
<1>3. CASE UNCHANGED invVars
  BY <1>1, <1>3, AuditStutters DEF AuditInv
<1>4. CASE \/ Analyse \/ RecordAnalysis \/ SkipDetection \/ NoGrain \/ Detected
           \/ DetectionRefused \/ DetectionEscapes \/ Reconcile
  BY <1>1, <1>2, <1>4, OpeningKeeps DEF AuditInv
<1>5. CASE BuildEvidence
  BY <1>1, <1>2, <1>5, BuildKeeps DEF AuditInv
<1>6. CASE Assess
  BY <1>1, <1>2, <1>6, AssessKeeps DEF AuditInv
<1>7. CASE ConcludeInvestigation
  BY <1>1, <1>7, ConclusionKeeps DEF AuditInv
<1> QED
  BY <1>3, <1>4, <1>5, <1>6, <1>7 DEF InvestigationNext

-----------------------------------------------------------------------------
(***************************************************************************)
(* What the records are for.                                               *)
(***************************************************************************)

\* The statement of a record that is about a node is the one that found the node: whatever
\* else the trace holds, the statements of the anomaly detection among it, the latest
\* breakdown is the breakdown, and a path is drilled into once.
THEOREM RecordsCiteTheirStatement == InvestigationSpec => []CitesOwnStatement
<1>1. InvestigationInit => AuditInv
  BY AuditOpens
<1>2. AuditInv /\ [InvestigationNext]_invVars => AuditInv'
  BY AuditKeeps
<1>3. ASSUME AuditInv PROVE CitesOwnStatement
  <2>1. \A i \in DOMAIN records : Attested(records[i])
    BY <1>3 DEF AuditInv, Recorded
  <2>2. \A i \in DOMAIN records : records[i].tag = "node" => Cites(records[i].path, records[i].query)
    BY <2>1 DEF Attested
  <2> QED
    BY <2>2 DEF CitesOwnStatement, Cites
<1> QED
  BY <1>1, <1>2, <1>3, PTL DEF InvestigationSpec

\* Evidence ids are unique, if no segment is called like the bucket of the rest.
THEOREM RecordsHaveOneId == ASSUME NoBucket PROVE InvestigationSpec => []EvidenceIdsUnique
<1>1. InvestigationInit => AuditInv
  BY AuditOpens
<1>2. AuditInv /\ [InvestigationNext]_invVars => AuditInv'
  BY AuditKeeps
<1>3. ASSUME AuditInv PROVE EvidenceIdsUnique
  <2>1. records = <<>> \/ Keyed(records)
    BY <1>3 DEF AuditInv, Recorded
  <2>2. CASE records = <<>>
    BY <2>2 DEF EvidenceIdsUnique
  <2>3. CASE Keyed(records)
    <3> SUFFICES ASSUME NEW i \in DOMAIN records, NEW j \in DOMAIN records,
                        <<records[i].kind, records[i].tag, records[i].path>>
                          = <<records[j].kind, records[j].tag, records[j].path>>
                 PROVE  i = j
      BY DEF EvidenceIdsUnique
    <3>1. records[i].kind = records[j].kind /\ records[i].tag = records[j].tag
          /\ records[i].path = records[j].path
      OBVIOUS
    <3> QED
      BY <2>3, <3>1 DEF Keyed
  <2> QED
    BY <2>1, <2>2, <2>3
<1> QED
  BY <1>1, <1>2, <1>3, PTL DEF InvestigationSpec

\* A completed investigation is a whole answer: whatever would make it less is a failed check
\* or a limitation by then, and either makes it partial.
THEOREM CompletedInvestigationsAreWhole == InvestigationSpec => []CompletedIsWhole
<1>1. InvestigationInit => AuditInv /\ CompletedIsWhole
  BY AuditOpens DEF InvestigationInit, CompletedIsWhole
<1>2. AuditInv /\ CompletedIsWhole /\ [InvestigationNext]_invVars => (AuditInv /\ CompletedIsWhole)'
  BY AuditKeeps
<1> QED
  BY <1>1, <1>2, PTL DEF InvestigationSpec

\* A reason that names a segment or a stop has its evidence.
Grounded(d) ==
    /\ d.kind = "segment_selected" => \E i \in d.evidence : records[i].kind = "contribution"
    /\ d.kind = "drilldown_stopped" => \E i \in d.evidence : records[i].derived
GroundedList(s) == s \in Seq(ToSet(s)) /\ \A k \in DOMAIN s : Grounded(s[k])

LEMMA GroundedJoin ==
    ASSUME NEW s, NEW t, GroundedList(s), GroundedList(t) PROVE GroundedList(s \o t)
<1> DEFINE T == ToSet(s) \cup ToSet(t)
<1>1. s \in Seq(T) /\ t \in Seq(T)
  <2>1. s \in Seq(ToSet(s)) /\ t \in Seq(ToSet(t)) /\ ToSet(s) \subseteq T /\ ToSet(t) \subseteq T
    BY DEF GroundedList
  <2> HIDE DEF T
  <2> QED
    BY <2>1
<1>2. /\ s \o t \in Seq(T) /\ ToSet(s \o t) = T
      /\ \A i \in DOMAIN (s \o t) :
           \/ i \in DOMAIN s /\ (s \o t)[i] = s[i]
           \/ i - Len(s) \in DOMAIN t /\ (s \o t)[i] = t[i - Len(s)]
  BY <1>1, ConcatIs
<1> QED
  BY <1>2 DEF GroundedList

LEMMA GroundedOne ==
    ASSUME NEW d, NEW condition \in BOOLEAN, Grounded(d) PROVE GroundedList(OnlyIf(condition, d))
<1>1. <<d>> \in Seq(ToSet(<<d>>)) /\ \A k \in DOMAIN <<d>> : <<d>>[k] = d
  BY DEF ToSet
<1>2. <<>> \in Seq(ToSet(<<>>)) /\ DOMAIN <<>> = {}
  OBVIOUS
<1> QED
  BY <1>1, <1>2 DEF GroundedList, OnlyIf

LEMMA GroundedEach ==
    ASSUME NEW kind, NEW nodes, nodes \in Seq(ToSet(nodes)),
           \A i \in DOMAIN nodes : Grounded(Decision(kind, nodes[i].path))
    PROVE  GroundedList(DecisionEach(kind, nodes))
<1> DEFINE s == DecisionEach(kind, nodes)
<1>1. DOMAIN s = DOMAIN nodes /\ \A i \in DOMAIN nodes : s[i] = Decision(kind, nodes[i].path)
  BY DEF DecisionEach
<1>2. s = [i \in DOMAIN nodes |-> s[i]]
  BY DEF DecisionEach
<1> HIDE DEF s
<1>3. s \in Seq(ToSet(s))
  <2>1. DOMAIN s = 1..Len(nodes) /\ Len(nodes) \in Nat
    BY <1>1
  <2>2. s \in [1..Len(nodes) -> ToSet(s)]
    BY <1>1, <1>2, <2>1 DEF ToSet
  <2> QED
    BY <2>1, <2>2
<1> QED
  BY <1>1, <1>3 DEF GroundedList, s

\* Reasons of the other kinds promise no record.
LEMMA OtherGrounded ==
    ASSUME NEW kind, NEW path, kind # "segment_selected", kind # "drilldown_stopped"
    PROVE  Grounded(Decision(kind, path))
  BY DEF Grounded, Decision

LEMMA EvidenceOf ==
    ASSUME NEW kind, NEW path, path # <<>>, NEW r \in ToSet(records), r.path = path
    PROVE  \E i \in Decision(kind, path).evidence : records[i] = r
  BY DEF Decision, ToSet

LEMMA SelectionGrounded ==
    ASSUME RcaInv, Backs(ToSet(records)), NEW c, DriverList(c)
    PROVE  \A i \in DOMAIN c : Grounded(Decision("segment_selected", c[i].path))
<1> SUFFICES ASSUME NEW i \in DOMAIN c
             PROVE  Grounded(Decision("segment_selected", c[i].path))
  OBVIOUS
<1> DEFINE path == c[i].path
           d == Decision("segment_selected", path)
<1>1. Driver(c[i])
  BY DEF DriverList
<1>2. /\ path \in Path /\ Len(path) = 1 /\ level # <<>> /\ path[1][1] \in UsableSet
      /\ \E k \in DOMAIN level[path[1][1]] :
           LET m == level[path[1][1]][k]
           IN  m.path = path /\ m.ranked /\ m.contribution # {}
  BY <1>1 DEF Driver
<1>3. path # <<>>
  BY <1>2 DEF Path
<1> HIDE DEF path
<1>4. PICK r \in ToSet(records) : r.path = path /\ r.kind = "contribution"
  BY <1>2 DEF Backs, Material
<1>5. \E k \in d.evidence : records[k] = r
  BY <1>3, <1>4, EvidenceOf
<1>6. d.kind = "segment_selected"
  BY DEF Decision
<1> HIDE DEF d
<1>7. Grounded(d)
  BY <1>4, <1>5, <1>6 DEF Grounded
<1> QED
  BY <1>7 DEF d, path

LEMMA StopGrounded ==
    ASSUME Backs(ToSet(records)), TreeGrown, NEW n \in tree, n.stop # "no"
    PROVE  Grounded(Decision("drilldown_stopped", n.path))
<1> DEFINE path == n.path
           d == Decision("drilldown_stopped", path)
<1>1. path # <<>>
  BY DEF TreeGrown, Grown
<1>2. PICK r \in ToSet(records) : r.path = path /\ r.derived
  BY DEF Backs
<1> HIDE DEF path
<1>3. \E k \in d.evidence : records[k] = r
  BY SMTT(40), <1>1, <1>2, EvidenceOf
<1>4. d.kind = "drilldown_stopped"
  BY DEF Decision
<1> HIDE DEF d
<1>5. Grounded(d)
  BY <1>2, <1>3, <1>4 DEF Grounded
<1> QED
  BY <1>5 DEF d, path

LEMMA ReasonsGrounded ==
    ASSUME RcaInv, Backs(ToSet(records))
    PROVE  GroundedList(Reasons)
<1>1. GroundedList(RecordPeriods)
  <2> DEFINE condition == ~Unanalysed
             d == Decision("period_resolved", <<>>)
  <2>1. Grounded(d) /\ condition \in BOOLEAN /\ RecordPeriods = OnlyIf(condition, d)
    BY OtherGrounded DEF RecordPeriods
  <2> HIDE DEF condition, d
  <2> QED
    BY <2>1, GroundedOne
<1>2. GroundedList(RecordBasis)
  <2> DEFINE d == Decision("basis_selected", <<>>)
  <2>1. Grounded(d) /\ TRUE \in BOOLEAN /\ RecordBasis = OnlyIf(TRUE, d)
    BY OtherGrounded DEF RecordBasis, OnlyIf
  <2> HIDE DEF d
  <2> QED
    BY <2>1, GroundedOne
<1>3. GroundedList(RecordPattern)
  <2> DEFINE d == Decision("pattern_classified", <<>>)
             e == Decision("driver_suppressed", <<>>)
             condition == BroadBased
  <2>1. Grounded(d) /\ Grounded(e) /\ condition \in BOOLEAN /\ TRUE \in BOOLEAN
        /\ RecordPattern = OnlyIf(TRUE, d) \o OnlyIf(condition, e)
    BY OtherGrounded DEF RecordPattern, OnlyIf, BroadBased
  <2> HIDE DEF condition, d, e
  <2>2. GroundedList(OnlyIf(TRUE, d)) /\ GroundedList(OnlyIf(condition, e))
    BY <2>1, GroundedOne
  <2> QED
    BY <2>1, <2>2, GroundedJoin
<1>4. GroundedList(RecordSelection)
  <2> DEFINE p == drivers.primary
             s == drivers.secondary
             o == drivers.offsetting
             G(c) == GroundedList(DecisionEach("segment_selected", c))
             T == ToSet(p) \cup ToSet(s) \cup ToSet(o)
             ps == p \o s
             pso == ps \o o
  <2>1. DriverList(p) /\ DriverList(s) /\ DriverList(o)
    BY DEF RcaInv, DriversListed
  <2>2. \A c \in {p, s, o} : \A i \in DOMAIN c : Grounded(Decision("segment_selected", c[i].path))
    BY <2>1, SelectionGrounded
  <2>3. p \in Seq(T) /\ s \in Seq(T) /\ o \in Seq(T)
    <3>1. /\ p \in Seq(ToSet(p)) /\ s \in Seq(ToSet(s)) /\ o \in Seq(ToSet(o))
          /\ ToSet(p) \subseteq T /\ ToSet(s) \subseteq T /\ ToSet(o) \subseteq T
      BY <2>1 DEF DriverList
    <3> HIDE DEF p, s, o, T
    <3> QED
      BY <3>1
  <2>4. RecordSelection = DecisionEach("segment_selected", pso)
    BY DEF RecordSelection
  <2> HIDE DEF p, s, o, T
  <2>5. ps \in Seq(T) /\ ToSet(ps) = ToSet(p) \cup ToSet(s)
    BY <2>3, ConcatIs
  <2> HIDE DEF ps
  <2>6. pso \in Seq(T) /\ ToSet(pso) = ToSet(p) \cup ToSet(s) \cup ToSet(o)
    BY <2>3, <2>5, ConcatIs
  <2> HIDE DEF pso
  <2>7. pso \in Seq(ToSet(pso))
    BY <2>6 DEF T
  <2>8. \A i \in DOMAIN pso : Grounded(Decision("segment_selected", pso[i].path))
    <3> SUFFICES ASSUME NEW i \in DOMAIN pso
                 PROVE  Grounded(Decision("segment_selected", pso[i].path))
      OBVIOUS
    <3>1. pso[i] \in ToSet(p) \cup ToSet(s) \cup ToSet(o)
      BY <2>6 DEF ToSet
    <3>2. \E c \in {p, s, o} : \E k \in DOMAIN c : pso[i] = c[k]
      BY <3>1 DEF ToSet
    <3> QED
      BY <2>2, <3>2
  <2>9. GroundedList(DecisionEach("segment_selected", pso))
    BY <2>7, <2>8, GroundedEach
  <2> QED
    BY <2>4, <2>9
<1>5. GroundedList(RecordSuppression)
  <2> DEFINE places == {i \in DOMAIN Ordered : PassedOver(Ordered[i])}
             nodes == Picked(Ordered, places)
  <2>1. RecordSuppression = DecisionEach("driver_suppressed", nodes)
    BY DEF RecordSuppression, Chosen
  <2>2. CitableList(Ordered)
    BY OrderedIs
  <2>3. places \in SUBSET (DOMAIN Ordered)
    OBVIOUS
  <2> HIDE DEF places
  <2>4. CitableList(nodes)
    BY <2>2, <2>3, SomeNodes
  <2> HIDE DEF nodes
  <2>5. nodes \in Seq(ToSet(nodes))
    BY <2>4 DEF CitableList
  <2>6. \A i \in DOMAIN nodes : Grounded(Decision("driver_suppressed", nodes[i].path))
    BY OtherGrounded
  <2> QED
    BY <2>1, <2>5, <2>6, GroundedEach
<1>6. GroundedList(RecordStops)
  <2> DEFINE S == {n \in tree : n.stop # "no"}
             nodes == SetToSeq(S)
  <2>1. RecordStops = DecisionEach("drilldown_stopped", nodes)
    BY DEF RecordStops
  <2>2. CitableList(nodes) /\ ToSet(nodes) = S
    BY TreeListIs
  <2> HIDE DEF nodes
  <2>3. nodes \in Seq(ToSet(nodes)) /\ \A i \in DOMAIN nodes : nodes[i] \in S
    BY <2>2 DEF CitableList, ToSet
  <2>4. TreeGrown
    BY DEF RcaInv
  <2>5. \A i \in DOMAIN nodes : Grounded(Decision("drilldown_stopped", nodes[i].path))
    BY <2>3, <2>4, StopGrounded
  <2> QED
    BY <2>1, <2>3, <2>5, GroundedEach
<1> DEFINE a == RecordPeriods
           b == RecordBasis
           c == RecordPattern
           d == RecordSelection
           e == RecordSuppression
           f == RecordStops
<1>7. Reasons = a \o b \o c \o d \o e \o f
  BY DEF Reasons
<1>8. /\ GroundedList(a) /\ GroundedList(b) /\ GroundedList(c) /\ GroundedList(d)
      /\ GroundedList(e) /\ GroundedList(f)
  BY <1>1, <1>2, <1>3, <1>4, <1>5, <1>6
<1> HIDE DEF a, b, c, d, e, f
<1>9. GroundedList(a \o b \o c)
  BY <1>8, GroundedJoin
<1>10. GroundedList(a \o b \o c \o d \o e)
  BY <1>8, <1>9, GroundedJoin
<1>11. GroundedList(a \o b \o c \o d \o e \o f)
  BY <1>8, <1>10, GroundedJoin
<1> QED
  BY <1>7, <1>11

\* A node of the tree with a share, or of the rest, or found by a drill-down has its record.
LEMMA NodesRest ==
    ASSUME RcaInv, Backs(ToSet(records)), NEW n \in tree,
           n.contribution # {} \/ n.other \/ Len(n.path) >= 2
    PROVE  \E i \in DOMAIN records : records[i].path = n.path
<1> DEFINE path == n.path
<1>1. Grown(n)
  BY DEF RcaInv, TreeGrown
<1>2. path \in Path /\ path # <<>>
  BY <1>1 DEF Grown
<1>3. \E r \in ToSet(records) : r.path = path
  <2>1. CASE Len(path) >= 2
    BY <2>1 DEF Backs
  <2>2. CASE ~(Len(path) >= 2)
    <3>1. Len(path) = 1
      <4> DEFINE k == Len(path)
      <4>1. k \in Nat \ {0}
        <5> HIDE DEF path
        <5> QED
          BY <1>2 DEF Path
      <4>2. ~(k >= 2)
        BY <2>2
      <4> HIDE DEF k
      <4>3. k = 1
        BY <4>1, <4>2
      <4> QED
        BY <4>3 DEF k
    <3>2. /\ level # <<>> /\ path[1][1] \in UsableSet
          /\ \E i \in DOMAIN level[path[1][1]] :
               level[path[1][1]][i].path = path /\ Material(level[path[1][1]][i])
      BY <1>1, <2>2, <3>1 DEF Grown
    <3> HIDE DEF path
    <3> QED
      BY <3>2 DEF Backs
  <2> QED
    BY <2>1, <2>2
<1> QED
  BY <1>3 DEF ToSet

LEMMA ConclusionRests ==
    ASSUME AuditInv, ConcludeInvestigation PROVE FindingsRestOnEvidence'
<1>1. /\ step = "conclude" /\ decisions' = Reasons /\ tree' = tree /\ records' = records
  BY DEF ConcludeInvestigation, rcaVars, rcaResult
<1>2. RcaInv /\ Backs(ToSet(records))
  BY <1>1 DEF AuditInv, Recorded, Concluding
<1>3. \A n \in tree : n.contribution # {} \/ n.other \/ Len(n.path) >= 2 =>
         \E i \in DOMAIN records : records[i].path = n.path
  BY <1>2, NodesRest
<1>4. \A k \in DOMAIN Reasons : Grounded(Reasons[k])
  BY <1>2, ReasonsGrounded DEF GroundedList
<1> DEFINE reasons == Reasons
<1>5. decisions' = reasons
  BY <1>1
<1>6. \A k \in DOMAIN reasons :
         /\ reasons[k].kind = "segment_selected" =>
               \E i \in reasons[k].evidence : records[i].kind = "contribution"
         /\ reasons[k].kind = "drilldown_stopped" =>
               \E i \in reasons[k].evidence : records[i].derived
  BY <1>4 DEF Grounded
<1> HIDE DEF reasons
<1> QED
  BY <1>1, <1>3, <1>5, <1>6 DEF FindingsRestOnEvidence

\* Nothing is said without evidence: a driver was ranked, a node was drilled into or came from
\* the ranking with its share, and what is ranked, shared or the rest is material.
THEOREM FindingsHaveEvidence == InvestigationSpec => []FindingsRestOnEvidence
<1>1. InvestigationInit => AuditInv /\ FindingsRestOnEvidence
  BY AuditOpens DEF InvestigationInit, FindingsRestOnEvidence
<1>2. AuditInv /\ FindingsRestOnEvidence /\ [InvestigationNext]_invVars
        => (AuditInv /\ FindingsRestOnEvidence)'
  BY AuditKeeps, ConclusionRests
<1> QED
  BY <1>1, <1>2, PTL DEF InvestigationSpec

=============================================================================
