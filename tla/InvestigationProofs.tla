------------------------ MODULE InvestigationProofs ------------------------
(***************************************************************************)
(* Theorems of InvestigationLifecycle for every number of datasets,        *)
(* definitions, investigations, requests, transactions and restarts.       *)
(***************************************************************************)
EXTENDS InvestigationLifecycle, TLAPS

(***************************************************************************)
(* The inductive invariant.                                                *)
(***************************************************************************)
WorkingPC == {"planned", "running", "persisting", "failing"}

\* A request holds a run exactly while it works on it, nobody else does, and the
\* run is of the request's dataset unless it went with it.
HoldsItsRun(r) ==
    LET i == req[r].inv IN
    /\ req[r].pc \in WorkingPC <=> i \in Investigation
    /\ i \in Investigation =>
          /\ inv[i].status \in Unfinished \cup {"gone"}
          /\ inv[i].ds \in {req[r].ds, None}
          /\ \A q \in Request : req[q].inv = i => q = r
          /\ req[r].pc \in {"planned", "running"} => i \notin completed

OneRunEach ==
    /\ \A r \in Request : HoldsItsRun(r)
    /\ \A i \in Investigation :
          inv[i].status = "none" => i \notin completed /\ inv[i].ds = None
    /\ ~up => \A r \in Request : req[r].pc = "idle"

\* Whatever transaction is open on the dataset of a quiet run began after the run.
OpenedLater ==
    \A w \in Writer : writer[w].pc \in Transaction =>
        quiet \cap RunsOf(writer[w].ds) \subseteq writer[w].before

\* So the last write to a dataset of a quiet run that was overtaken is later, too.
Passed ==
    \A d \in Dataset : quiet \cap overtaken \cap RunsOf(d) \subseteq behind[d]

\* And so is the one a request has loaded.
PassedAsLoaded ==
    \A r \in Request :
        /\ req[r].late \subseteq completed
        /\ req[r].pc \in {"loaded", "lookup"} =>
              /\ req[r].ds \in Dataset
              /\ quiet \cap req[r].late \cap RunsOf(req[r].ds) \subseteq req[r].behind

\* A transaction that is under way is about some dataset.
OnDataset == \A w \in Writer : writer[w].pc # "idle" => writer[w].ds \in Dataset

TypeInv == TypeOK /\ OnDataset
ReuseInv == OneRunEach /\ OpenedLater /\ Passed /\ PassedAsLoaded
IInv == TypeInv /\ ReuseInv /\ UnfinishedHasRequest

(***************************************************************************)
(* Types.                                                                  *)
(***************************************************************************)
LEMMA IdleTypes ==
  /\ IdleRequest \in RequestState /\ IdleRequest.pc = "idle"
  /\ IdleWriter \in WriterState /\ IdleWriter.pc = "idle"
  /\ NoRow \in InvestigationRow /\ GoneRow \in InvestigationRow
  BY DEF IdleRequest, RequestState, IdleWriter, WriterState, Transaction, DatasetStatus,
         NoRow, GoneRow, InvestigationRow

LEMMA RequestFields ==
  ASSUME NEW s \in RequestState
  PROVE  /\ s.ds \in Dataset \cup {None} /\ s.kpi \in Kpi \cup {None}
         /\ s.inv \in Investigation \cup {None}
         /\ s.behind \in SUBSET Investigation /\ s.late \in SUBSET Investigation
  BY DEF RequestState

LEMMA WriterFields ==
  ASSUME NEW t \in WriterState
  PROVE  /\ t.ds \in Dataset \cup {None} /\ t.seen \in DatasetStatus
         /\ t.before \in SUBSET Investigation
  BY DEF WriterState

LEMMA InitType == Init => TypeInv
  BY IdleTypes, LifecycleAssumption DEF Init, TypeInv, TypeOK, OnDataset,
                                     Catalogue!Init, DatasetStatus

\* The dataset's own part of a step.
LEMMA CatalogueType ==
  ASSUME status \in [Dataset -> DatasetStatus], profiled \in SUBSET Dataset,
         \/ \E d \in Dataset :
               \/ Catalogue!Register(d) \/ Catalogue!Reject(d) \/ Catalogue!Store(d)
               \/ Catalogue!Process(d) \/ Catalogue!Publish(d)
               \/ Catalogue!Configure(d) \/ Catalogue!Unconfigure(d)
               \/ Catalogue!Remove(d)
         \/ \E D \in SUBSET Dataset : Catalogue!Fail(D)
         \/ UNCHANGED <<status, profiled>>
  PROVE  status' \in [Dataset -> DatasetStatus] /\ profiled' \in SUBSET Dataset
  BY DEF Catalogue!Register, Catalogue!Reject, Catalogue!Store, Catalogue!Process,
         Catalogue!Publish, Catalogue!Configure, Catalogue!Unconfigure,
         Catalogue!Remove, Catalogue!Fail, Catalogue!Becomes, Catalogue!Stored,
         DatasetStatus

\* A step of create may change its request, the run it holds, and what is
\* recorded of that run.
LEMMA RequestStepType ==
  ASSUME TypeInv, OneRunEach, NEW r \in Request,
         RequestStep(r) \/ \E d \in Dataset : Create(r, d)
  PROVE  TypeInv'
<1> USE DEF TypeInv, TypeOK, OnDataset, datasets, kpiTables, runs, history
<1>0. req[r].pc \in {"running", "persisting"} => req[r].inv \in Investigation
  BY DEF OneRunEach, HoldsItsRun, WorkingPC
<1>1. req[r] \in RequestState
  OBVIOUS
<1>2. ASSUME NEW s \in RequestState, req' = [req EXCEPT ![r] = s]
      PROVE  req' \in [Request -> RequestState]
  BY <1>2
<1>3. EndRequest(r) => req' \in [Request -> RequestState]
  BY IdleTypes DEF EndRequest
<1>4. ASSUME NEW d \in Dataset, Create(r, d) PROVE TypeInv'
  <2> DEFINE s == [IdleRequest EXCEPT
                      !.pc = "loaded", !.ds = d, !.behind = behind[d], !.late = overtaken]
  <2>1. s \in RequestState
    <3>1. behind[d] \in SUBSET Investigation /\ overtaken \in SUBSET Investigation
      OBVIOUS
    <3>2. QED
      BY <3>1 DEF IdleRequest, RequestState
  <2>2. req' = [req EXCEPT ![r] = s]
    BY <1>4 DEF Create
  <2>3. req' \in [Request -> RequestState]
    <3> HIDE DEF s
    <3> QED BY <2>1, <2>2, <1>2
  <2>4. QED
    BY <2>3, <1>4 DEF Create
<1>5. CASE Resolve(r)
  <2>1. ASSUME NEW k \in Kpi,
               req' = [req EXCEPT ![r].pc = "lookup", ![r].kpi = k,
                                  ![r].behind = @ \cup behind[k]]
        PROVE  req' \in [Request -> RequestState]
    <3> DEFINE s == [req[r] EXCEPT
                        !.pc = "lookup", !.kpi = k, !.behind = @ \cup behind[k]]
    <3>1. s \in RequestState
      <4>1. behind[k] \in SUBSET Investigation
        OBVIOUS
      <4>2. QED
        BY <1>1, <4>1 DEF RequestState
    <3>2. req' = [req EXCEPT ![r] = s]
      BY <2>1
    <3> HIDE DEF s
    <3>3. QED
      BY <3>1, <3>2, <1>2
  <2>2. req' \in [Request -> RequestState]
    BY <1>3, <1>5, <2>1 DEF Resolve, KpisOf
  <2>3. QED
    BY <2>2, <1>5 DEF Resolve
<1>6. CASE Reuse(r)
  BY <1>3, <1>6 DEF Reuse
<1>7. ASSUME NEW i \in Investigation, Plan(r, i) PROVE TypeInv'
  <2> DEFINE n == [status |-> "PLANNED", ds |-> req[r].ds, kpi |-> req[r].kpi]
             s == [req[r] EXCEPT !.pc = "planned", !.inv = i]
  <2>1. n \in InvestigationRow
    BY <1>1, RequestFields DEF InvestigationRow, InvestigationStatus
  <2>2. s \in RequestState
    BY <1>1 DEF RequestState
  <2>3. \/ inv' = [inv EXCEPT ![i] = n] /\ req' = [req EXCEPT ![r] = s]
        \/ inv' = inv /\ EndRequest(r)
    BY <1>7 DEF Plan
  <2>4. inv' \in [Investigation -> InvestigationRow] /\ req' \in [Request -> RequestState]
    <3> HIDE DEF n, s
    <3> QED BY <2>1, <2>2, <2>3, <1>2, <1>3
  <2>5. QED
    BY <2>4, <1>7 DEF Plan
<1>8. ASSUME NEW from, NEW to \in InvestigationStatus, NEW next \in {"idle", "running"},
             CommitRun(r, from, to, next)
      PROVE  TypeInv'
  <2> DEFINE i == req[r].inv
             n == [inv[i] EXCEPT !.status = to]
             s == [req[r] EXCEPT !.pc = next]
  <2>1. i \in Investigation => n \in InvestigationRow
    BY DEF InvestigationRow
  <2>2. s \in RequestState
    BY <1>1 DEF RequestState
  <2>3. /\ inv' = inv \/ inv' = [inv EXCEPT ![i] = n]
        /\ EndRequest(r) \/ req' = [req EXCEPT ![r] = s]
    BY <1>8 DEF CommitRun
  <2>4. inv' \in [Investigation -> InvestigationRow] /\ req' \in [Request -> RequestState]
    <3> HIDE DEF n, s
    <3> QED BY <2>1, <2>2, <2>3, <1>2, <1>3
  <2>5. QED
    BY <2>4, <1>8 DEF CommitRun
<1>9. CASE StartRun(r) \/ Persist(r) \/ FailRun(r)
  BY <1>8, <1>9 DEF StartRun, Persist, FailRun, InvestigationStatus, Finished
<1>10. CASE CompleteRun(r) \/ RejectRun(r)
  <2> DEFINE s == [req[r] EXCEPT !.pc = "persisting"]
             f == [req[r] EXCEPT !.pc = "failing"]
  <2>1. s \in RequestState /\ f \in RequestState
    BY <1>1 DEF RequestState
  <2>2. req' = [req EXCEPT ![r] = s] \/ req' = [req EXCEPT ![r] = f]
    BY <1>10 DEF CompleteRun, RejectRun
  <2>3. req' \in [Request -> RequestState]
    <3> HIDE DEF s, f
    <3> QED BY <2>1, <2>2, <1>2
  <2>4. CompleteRun(r) =>
           completed' \in SUBSET Investigation /\ quiet' \in SUBSET completed'
    BY <1>0 DEF CompleteRun
  <2>5. QED
    BY <2>3, <2>4, <1>10 DEF CompleteRun, RejectRun
<1>11. CASE CrashRun(r)
  BY <1>0, <1>3, <1>11 DEF CrashRun
<1>12. QED
  BY <1>4, <1>5, <1>6, <1>7, <1>9, <1>10, <1>11 DEF RequestStep

\* A transaction may change the tables and end.
LEMMA WriterStepType ==
  ASSUME TypeInv, NEW w \in Writer,
         WriterStep(w) \/ \E d \in Dataset : Begin(w, d)
  PROVE  TypeInv'
<1> USE DEF TypeInv, TypeOK, datasets, kpiTables, runs, history
<1>1. writer[w] \in WriterState
  OBVIOUS
<1> DEFINE WriterOK == writer' \in [Writer -> WriterState] /\ OnDataset'
           TablesOK == status' \in [Dataset -> DatasetStatus] /\ profiled' \in SUBSET Dataset
           BehindOK == behind' \in [Dataset \cup Kpi -> SUBSET Investigation]
           RestOK == UNCHANGED <<completed, req, up, restarts, quiet, lost>>
<1>2. ASSUME NEW t \in WriterState, writer' = [writer EXCEPT ![w] = t],
             t.pc # "idle" => t.ds \in Dataset
      PROVE  WriterOK
  BY <1>2 DEF OnDataset
<1>3. ASSUME NEW d \in Dataset, NEW kind \in Transaction, Open(w, d, kind)
      PROVE  WriterOK
  <2> DEFINE t == [pc |-> kind, ds |-> d, before |-> completed,
                   seen |-> IF kind \in {"configure", "unconfigure"}
                            THEN status[d] ELSE "unborn"]
  <2>1. t \in WriterState /\ t.ds = d
    BY DEF WriterState, DatasetStatus
  <2>2. writer' = [writer EXCEPT ![w] = t]
    BY <1>3 DEF Open
  <2>3. QED
    <3> HIDE DEF t, WriterOK
    <3> QED BY <2>1, <2>2, <1>2
<1>4. ASSUME NEW kind \in Transaction, NEW next \in {"idle", "job"}, Commit(w, kind, next)
      PROVE  writer[w].ds \in Dataset /\ WriterOK /\ RestOK
  <2> DEFINE t == [IdleWriter EXCEPT !.pc = next, !.ds = writer[w].ds]
  <2>1. writer[w].ds \in Dataset
    BY <1>4 DEF Commit, OnDataset, Transaction
  <2>2. t \in WriterState /\ t.ds = writer[w].ds
    BY <1>1 DEF IdleWriter, WriterState, DatasetStatus
  <2>3. writer' = [writer EXCEPT ![w] = IdleWriter] \/ writer' = [writer EXCEPT ![w] = t]
    BY <1>4 DEF Commit
  <2>4. WriterOK
    <3> HIDE DEF t, WriterOK
    <3> QED BY <2>1, <2>2, <2>3, <1>2, IdleTypes
  <2>5. QED
    BY <2>1, <2>4, <1>4 DEF Commit
<1>5. ASSUME NEW rows, Touch(rows, w) PROVE BehindOK
  BY <1>1, <1>5, WriterFields DEF Touch
<1>6. ASSUME NEW d \in Dataset, Begin(w, d) PROVE TypeInv'
  <2>1. WriterOK
    <3> HIDE DEF WriterOK
    <3> QED BY <1>3, <1>6 DEF Begin, Transaction
  <2>2. QED
    BY <2>1, <1>6 DEF Begin
<1>7. CASE BeginEnd(w)
  <2>1. writer[w].ds \in Dataset
    BY <1>7 DEF BeginEnd, OnDataset
  <2>2. WriterOK
    <3> HIDE DEF WriterOK
    <3> QED BY <2>1, <1>3, <1>7 DEF BeginEnd, Transaction
  <2>3. QED
    BY <2>2, <1>7 DEF BeginEnd
<1>8. CASE Abort(w)
  <2>1. WriterOK /\ RestOK
    <3> HIDE DEF WriterOK, RestOK
    <3> QED BY <1>4, <1>8 DEF Abort
  <2>2. QED
    BY <2>1, <1>8 DEF Abort
<1> DEFINE d == writer[w].ds
<1>9. CASE StartProfiling(w) \/ PublishProfile(w) \/ FailProfiling(w) \/ EditDataset(w)
  <2>1. d \in Dataset /\ WriterOK /\ RestOK
    <3> HIDE DEF WriterOK, RestOK, d
    <3> QED BY <1>4, <1>9
            DEF StartProfiling, PublishProfile, FailProfiling, EditDataset, Transaction, d
  <2>2. TablesOK
    BY <2>1, <1>9, CatalogueType DEF StartProfiling, PublishProfile, FailProfiling, EditDataset
  <2>3. BehindOK
    BY <1>5, <1>9 DEF StartProfiling, PublishProfile, FailProfiling, EditDataset
  <2>4. overtaken' \in SUBSET completed'
    BY <2>1, <1>9 DEF StartProfiling, PublishProfile, FailProfiling, EditDataset
  <2>5. QED
    BY <2>1, <2>2, <2>3, <2>4, <1>9
       DEF StartProfiling, PublishProfile, FailProfiling, EditDataset
<1>10. ASSUME NEW k \in Kpi, Configure(w, k) PROVE TypeInv'
  <2>1. d \in Dataset /\ WriterOK /\ RestOK
    <3> HIDE DEF WriterOK, RestOK, d
    <3> QED BY <1>4, <1>10 DEF Configure, Transaction, d
  <2>2. TablesOK
    BY <2>1, <1>10, CatalogueType DEF Configure
  <2>3. BehindOK
    BY <1>5, <1>10 DEF Configure
  <2>4. QED
    BY <2>1, <2>2, <2>3, <1>10 DEF Configure
<1>11. ASSUME NEW k \in Kpi, Unconfigure(w, k) PROVE TypeInv'
  <2>1. d \in Dataset /\ WriterOK /\ RestOK
    <3> HIDE DEF WriterOK, RestOK, d
    <3> QED BY <1>4, <1>11 DEF Unconfigure, Transaction, d
  <2>2. TablesOK
    BY <2>1, <1>11, CatalogueType DEF Unconfigure
  <2>3. BehindOK
    BY <1>5, <1>11 DEF Unconfigure
  <2>4. \A i \in Investigation : [inv[i] EXCEPT !.kpi = None] \in InvestigationRow
    BY DEF InvestigationRow
  <2>5. inv' \in [Investigation -> InvestigationRow]
    BY <2>4, <1>11 DEF Unconfigure
  <2>6. QED
    BY <2>1, <2>2, <2>3, <2>5, <1>11 DEF Unconfigure
<1>12. CASE RemoveDataset(w)
  <2>1. d \in Dataset /\ WriterOK /\ RestOK
    <3> HIDE DEF WriterOK, RestOK, d
    <3> QED BY <1>4, <1>12 DEF RemoveDataset, Transaction, d
  <2>2. TablesOK
    BY <2>1, <1>12, CatalogueType DEF RemoveDataset
  <2>3. inv' \in [Investigation -> InvestigationRow]
    BY <1>12, IdleTypes DEF RemoveDataset
  <2>4. QED
    BY <2>1, <2>2, <2>3, <1>12 DEF RemoveDataset
<1>13. QED
  BY <1>6, <1>7, <1>8, <1>9, <1>10, <1>11, <1>12 DEF WriterStep

LEMMA ProcessStepType ==
  ASSUME TypeInv, Die \/ Boot \/ \E d \in Dataset : Upload(d) PROVE TypeInv'
<1> USE DEF TypeInv, TypeOK, OnDataset, datasets, kpiTables, runs, history
<1>1. CASE Die
  <2>1. lost' \in SUBSET Investigation /\ restarts' \in 0..MaxRestarts
    BY <1>1, LifecycleAssumption DEF Die
  <2>2. QED
    BY <2>1, <1>1, IdleTypes DEF Die
<1>2. ASSUME NEW d \in Dataset, Upload(d) PROVE TypeInv'
  BY <1>2, CatalogueType DEF Upload
<1>3. CASE Boot
  <2>1. status' \in [Dataset -> DatasetStatus] /\ profiled' \in SUBSET Dataset
    BY <1>3, CatalogueType DEF Boot
  <2>2. behind' \in [Dataset \cup Kpi -> SUBSET Investigation]
    BY <1>3 DEF Boot
  <2>3. \A i \in Investigation : [inv[i] EXCEPT !.status = "FAILED"] \in InvestigationRow
    BY DEF InvestigationRow, InvestigationStatus
  <2>4. inv' \in [Investigation -> InvestigationRow]
    BY <2>3, <1>3 DEF Boot, Reconciled
  <2>5. QED
    BY <2>1, <2>2, <2>4, <1>3 DEF Boot
<1>4. QED
  BY <1>1, <1>2, <1>3

(***************************************************************************)
(* Runs: one request each, a terminal status for good, and no unfinished   *)
(* row without somebody who works on it.                                   *)
(***************************************************************************)
StatusesKept ==
    \A i \in Investigation :
        inv[i].status \in Terminal => inv'[i].status \in {inv[i].status, "gone"}

RunsKept == OneRunEach' /\ UnfinishedHasRequest' /\ StatusesKept

\* A request that moves, and the row of the run it holds before or after.
LEMMA RequestMoves ==
  ASSUME TypeInv, OneRunEach, UnfinishedHasRequest, up, up',
         NEW r \in Request, NEW s \in RequestState, req' = [req EXCEPT ![r] = s],
         s.pc \in WorkingPC <=> s.inv \in Investigation,
         s.inv \in Investigation =>
            /\ inv'[s.inv].status \in Unfinished \cup {"gone"}
            /\ inv'[s.inv].ds \in {s.ds, None}
            /\ s.pc \in {"planned", "running"} => s.inv \notin completed'
            /\ inv[s.inv].status # "none" => s.inv = req[r].inv,
         \A i \in Investigation \ {s.inv, req[r].inv} :
            inv'[i] = inv[i] /\ (i \in completed' => i \in completed),
         req[r].inv \in Investigation /\ s.inv # req[r].inv =>
            /\ inv'[req[r].inv].status \in Terminal \cup {"gone"} \/ req[r].inv \in lost',
         req[r].inv \in Investigation => inv'[req[r].inv].status # "none",
         lost \subseteq lost'
  PROVE  RunsKept
<1> DEFINE h == req[r].inv
<1>1. HoldsItsRun(r)
  BY DEF OneRunEach
<1>2. req'[r] = s /\ \A q \in Request \ {r} : req'[q] = req[q]
  BY DEF TypeInv, TypeOK
<1>3. OneRunEach'
  <2>1. ASSUME NEW q \in Request PROVE HoldsItsRun(q)'
    <3>1. CASE q = r
      BY <3>1, <1>2 DEF HoldsItsRun, OneRunEach, Unfinished
    <3>2. CASE q # r
      BY <3>2, <1>2 DEF HoldsItsRun, OneRunEach, Unfinished
    <3>3. QED
      BY <3>1, <3>2
  <2>2. ASSUME NEW i \in Investigation, inv'[i].status = "none"
        PROVE  i \notin completed' /\ inv'[i].ds = None
    BY <2>2 DEF OneRunEach, Unfinished
  <2>3. QED
    BY <2>1, <2>2 DEF OneRunEach
<1>4. UnfinishedHasRequest'
  BY <1>2 DEF UnfinishedHasRequest, Unfinished, Terminal, Finished
<1>5. StatusesKept
  BY <1>1 DEF StatusesKept, OneRunEach, HoldsItsRun, Unfinished, Terminal, Finished
<1>6. QED
  BY <1>3, <1>4, <1>5 DEF RunsKept

LEMMA RequestStepRuns ==
  ASSUME TypeInv, OneRunEach, UnfinishedHasRequest, NEW r \in Request,
         RequestStep(r) \/ \E d \in Dataset : Create(r, d)
  PROVE  RunsKept
<1> DEFINE h == req[r].inv
<1> USE DEF datasets, kpiTables, runs, history
<1>1. req[r] \in RequestState /\ HoldsItsRun(r) /\ req \in [Request -> RequestState]
  BY DEF TypeInv, TypeOK, OneRunEach
<1>2. None \notin Investigation /\ IdleRequest \in RequestState
      /\ IdleRequest.inv = None /\ IdleRequest.pc = "idle"
  BY LifecycleAssumption, IdleTypes DEF IdleRequest
<1>3. ASSUME EndRequest(r), up, up', lost \subseteq lost', completed' = completed,
             \A i \in Investigation \ {h} : inv'[i] = inv[i],
             h \in Investigation =>
                /\ inv'[h].status # "none"
                /\ inv'[h].status \in Terminal \cup {"gone"} \/ h \in lost'
      PROVE  RunsKept
  <2>1. req' = [req EXCEPT ![r] = IdleRequest] /\ IdleRequest.pc \notin WorkingPC
    BY <1>2, <1>3 DEF EndRequest, WorkingPC
  <2>2. QED
    BY <1>2, <1>3, <2>1, RequestMoves
<1>4. ASSUME NEW s \in RequestState, req' = [req EXCEPT ![r] = s],
             s.inv = h, s.ds = req[r].ds \/ h = None,
             s.pc \in WorkingPC <=> req[r].pc \in WorkingPC,
             s.pc \in {"planned", "running"} => req[r].pc \in {"planned", "running"},
             up, up', inv' = inv, lost' = lost,
             \/ completed' = completed
             \/ completed' = completed \cup {h} /\ s.pc = "persisting"
      PROVE  RunsKept
  <2>1. h \in Investigation => inv[h].status \in Unfinished \cup {"gone"}
    BY <1>1 DEF HoldsItsRun
  <2>2. h \in Investigation /\ h \in completed' => s.pc \notin {"planned", "running"}
    BY <1>1, <1>4 DEF HoldsItsRun
  <2>3. h = None \/ h \in Investigation
    BY <1>1, RequestFields
  <2>4. QED
    BY <1>1, <1>2, <1>4, <2>1, <2>2, <2>3, RequestMoves DEF HoldsItsRun, Unfinished
<1>5. ASSUME NEW d \in Dataset, Create(r, d) PROVE RunsKept
  <2> DEFINE s == [IdleRequest EXCEPT
                      !.pc = "loaded", !.ds = d, !.behind = behind[d], !.late = overtaken]
  <2>1. s \in RequestState /\ s.inv = None /\ s.pc \notin WorkingPC
    <3>1. behind[d] \in SUBSET Investigation /\ overtaken \in SUBSET Investigation
      BY DEF TypeInv, TypeOK
    <3>2. QED
      BY <3>1 DEF IdleRequest, RequestState, WorkingPC
  <2>2. req' = [req EXCEPT ![r] = s] /\ req[r].pc \notin WorkingPC
    BY <1>5 DEF Create, WorkingPC
  <2>3. h = None
    BY <1>1, <2>2, RequestFields DEF HoldsItsRun
  <2>4. /\ up /\ up' /\ inv' = inv /\ lost' = lost /\ completed' = completed
    BY <1>5 DEF Create
  <2>5. QED
    <3> HIDE DEF s
    <3> QED BY <2>1, <2>2, <2>3, <2>4, <1>4 DEF WorkingPC
<1>6. CASE Resolve(r)
  <2>1. /\ up /\ up' /\ inv' = inv /\ lost' = lost /\ completed' = completed
        /\ req[r].pc = "loaded" /\ req[r].pc \notin WorkingPC
    BY <1>6 DEF Resolve, WorkingPC
  <2>2. h \notin Investigation
    BY <1>1, <2>1 DEF HoldsItsRun
  <2>3. ASSUME NEW k \in Kpi,
               req' = [req EXCEPT ![r].pc = "lookup", ![r].kpi = k,
                                  ![r].behind = @ \cup behind[k]]
        PROVE  RunsKept
    <3> DEFINE s == [req[r] EXCEPT
                        !.pc = "lookup", !.kpi = k, !.behind = @ \cup behind[k]]
    <3>1. s \in RequestState /\ s.inv = h /\ s.ds = req[r].ds /\ s.pc \notin WorkingPC
      <4>1. behind[k] \in SUBSET Investigation
        BY DEF TypeInv, TypeOK
      <4>2. QED
        BY <1>1, <4>1 DEF RequestState, WorkingPC
    <3>2. req' = [req EXCEPT ![r] = s]
      BY <2>3
    <3> HIDE DEF s
    <3>3. QED
      BY <2>1, <3>1, <3>2, <1>4 DEF WorkingPC
  <2>4. QED
    BY <2>1, <2>2, <2>3, <1>3, <1>6 DEF Resolve, KpisOf, TypeInv, TypeOK
<1>7. CASE Reuse(r)
  <2>1. h \notin Investigation
    BY <1>1, <1>7 DEF HoldsItsRun, Reuse, WorkingPC
  <2>2. QED
    BY <2>1, <1>3, <1>7 DEF Reuse
<1>8. ASSUME NEW i \in Investigation, Plan(r, i) PROVE RunsKept
  <2>1. h \notin Investigation
    BY <1>1, <1>8 DEF HoldsItsRun, Plan, WorkingPC
  <2>2. CASE EndRequest(r) /\ UNCHANGED inv
    BY <2>1, <2>2, <1>3, <1>8 DEF Plan
  <2>3. CASE ~(EndRequest(r) /\ UNCHANGED inv)
    <3> DEFINE s == [req[r] EXCEPT !.pc = "planned", !.inv = i]
    <3>1. s \in RequestState /\ s.pc = "planned" /\ s.inv = i /\ s.ds = req[r].ds
      BY <1>1 DEF RequestState
    <3>2. /\ req' = [req EXCEPT ![r] = s]
          /\ inv' = [inv EXCEPT ![i] = [status |-> "PLANNED", ds |-> req[r].ds,
                                        kpi |-> req[r].kpi]]
          /\ inv[i].status = "none" /\ up /\ up' /\ lost' = lost
          /\ completed' = completed
      BY <2>3, <1>8 DEF Plan
    <3>3. i \notin completed
      BY <3>2 DEF OneRunEach
    <3>4. inv'[i].status = "PLANNED" /\ inv'[i].ds = req[r].ds
      BY <3>2 DEF TypeInv, TypeOK
    <3>5. \A j \in Investigation \ {i} : inv'[j] = inv[j]
      BY <3>2 DEF TypeInv, TypeOK
    <3> HIDE DEF s
    <3>6. QED
      BY <2>1, <3>1, <3>2, <3>3, <3>4, <3>5, RequestMoves DEF WorkingPC, Unfinished
  <2>4. QED
    BY <2>2, <2>3
<1>9. ASSUME NEW from \in WorkingPC, CommitRun(r, from, "RUNNING", "running"),
             from = "planned"
      PROVE  RunsKept
  <2> DEFINE s == [req[r] EXCEPT !.pc = "running"]
  <2>1. s \in RequestState /\ s.pc = "running" /\ s.inv = h /\ s.ds = req[r].ds
    BY <1>1 DEF RequestState
  <2>2. req[r].pc = "planned" /\ h \in Investigation /\ up /\ up' /\ lost' = lost
        /\ completed' = completed
    BY <1>1, <1>9 DEF CommitRun, HoldsItsRun
  <2>3. CASE Exists(h)
    <3>1. req' = [req EXCEPT ![r] = s] /\ inv' = [inv EXCEPT ![h].status = "RUNNING"]
      BY <1>9, <2>3 DEF CommitRun
    <3>2. /\ inv'[h].status = "RUNNING" /\ inv'[h].ds = inv[h].ds
          /\ \A j \in Investigation \ {h} : inv'[j] = inv[j]
      BY <2>2, <3>1 DEF TypeInv, TypeOK, InvestigationRow
    <3> HIDE DEF s
    <3>3. QED
      BY <1>1, <2>1, <2>2, <3>1, <3>2, RequestMoves
         DEF WorkingPC, Unfinished, HoldsItsRun
  <2>4. CASE ~Exists(h)
    <3>1. EndRequest(r) /\ inv' = inv
      BY <1>9, <2>4 DEF CommitRun
    <3>2. inv[h].status = "gone"
      BY <1>1, <2>2, <2>4 DEF HoldsItsRun, Exists, Unfinished, InvestigationStatus
    <3>3. QED
      BY <2>2, <3>1, <3>2, <1>3
  <2>5. QED
    BY <2>3, <2>4
<1>10. ASSUME NEW from \in WorkingPC, NEW to \in Terminal, CommitRun(r, from, to, "idle")
       PROVE  RunsKept
  <2>1. h \in Investigation /\ up /\ up' /\ lost' = lost /\ completed' = completed
        /\ EndRequest(r)
    BY <1>1, <1>10 DEF CommitRun, HoldsItsRun
  <2>2. CASE Exists(h)
    <3>1. inv' = [inv EXCEPT ![h].status = to]
      BY <1>10, <2>2 DEF CommitRun
    <3>2. /\ inv'[h].status = to
          /\ \A j \in Investigation \ {h} : inv'[j] = inv[j]
      BY <2>1, <3>1 DEF TypeInv, TypeOK, InvestigationRow
    <3>3. QED
      BY <2>1, <3>2, <1>3 DEF Terminal, Finished
  <2>3. CASE ~Exists(h)
    <3>1. inv' = inv
      BY <1>10, <2>3 DEF CommitRun
    <3>2. inv[h].status = "gone"
      BY <1>1, <2>1, <2>3 DEF HoldsItsRun, Exists, Unfinished, InvestigationStatus
    <3>3. QED
      BY <2>1, <3>1, <3>2, <1>3
  <2>4. QED
    BY <2>2, <2>3
<1>11. CASE StartRun(r)
  BY <1>9, <1>11 DEF StartRun, WorkingPC
<1>12. CASE Persist(r) \/ FailRun(r)
  BY <1>10, <1>12 DEF Persist, FailRun, WorkingPC, Terminal
<1>13. CASE CompleteRun(r) \/ RejectRun(r)
  <2> DEFINE s == [req[r] EXCEPT !.pc = "persisting"]
             f == [req[r] EXCEPT !.pc = "failing"]
  <2>1. /\ s \in RequestState /\ s.pc = "persisting" /\ s.inv = h /\ s.ds = req[r].ds
        /\ f \in RequestState /\ f.pc = "failing" /\ f.inv = h /\ f.ds = req[r].ds
    BY <1>1 DEF RequestState
  <2>2. /\ req[r].pc = "running" /\ up /\ up' /\ inv' = inv /\ lost' = lost
        /\ \/ req' = [req EXCEPT ![r] = s] /\ completed' = completed \cup {h}
           \/ req' = [req EXCEPT ![r] = f] /\ completed' = completed
    BY <1>13 DEF CompleteRun, RejectRun
  <2> HIDE DEF s, f
  <2>3. QED
    BY <2>1, <2>2, <1>4 DEF WorkingPC
<1>14. CASE CrashRun(r)
  <2>1. h \in Investigation /\ h \in lost'
    BY <1>1, <1>14 DEF CrashRun, HoldsItsRun, WorkingPC
  <2>2. inv[h].status # "none"
    BY <1>1, <2>1 DEF HoldsItsRun, Unfinished
  <2>3. QED
    BY <2>1, <2>2, <1>3, <1>14 DEF CrashRun
<1>15. QED
  BY <1>5, <1>6, <1>7, <1>8, <1>11, <1>12, <1>13, <1>14 DEF RequestStep

\* A transaction leaves requests alone; it may take a run's row or definition away.
LEMMA WriterStepRuns ==
  ASSUME TypeInv, OneRunEach, UnfinishedHasRequest, NEW w \in Writer,
         WriterStep(w) \/ \E d \in Dataset : Begin(w, d)
  PROVE  RunsKept
<1> USE DEF datasets, kpiTables, runs, history
<1>1. UNCHANGED <<req, completed, up, lost>>
  BY DEF WriterStep, Begin, BeginEnd, Abort, StartProfiling, PublishProfile,
         FailProfiling, EditDataset, Configure, Unconfigure, RemoveDataset, Commit
<1>2. \A i \in Investigation :
         \/ inv'[i].status = inv[i].status /\ inv'[i].ds = inv[i].ds
         \/ inv'[i].status = "gone" /\ inv'[i].ds = None
  <2>1. CASE inv' = inv
    BY <2>1
  <2>2. ASSUME NEW k \in Kpi, Unconfigure(w, k)
        PROVE  \A i \in Investigation :
                  inv'[i].status = inv[i].status /\ inv'[i].ds = inv[i].ds
    BY <2>2 DEF Unconfigure, TypeInv, TypeOK, InvestigationRow
  <2>3. ASSUME RemoveDataset(w)
        PROVE  \A i \in Investigation :
                  inv'[i] = inv[i] \/ (inv'[i].status = "gone" /\ inv'[i].ds = None)
    BY <2>3 DEF RemoveDataset, GoneRow, NoRow
  <2>4. \/ inv' = inv \/ RemoveDataset(w) \/ \E k \in Kpi : Unconfigure(w, k)
    BY DEF WriterStep, Begin, BeginEnd, Abort, StartProfiling, PublishProfile,
           FailProfiling, EditDataset, Configure
  <2>5. QED
    BY <2>1, <2>2, <2>3, <2>4
<1>3. OneRunEach'
  <2>1. ASSUME NEW q \in Request PROVE HoldsItsRun(q)'
    BY <1>1, <1>2 DEF OneRunEach, HoldsItsRun
  <2>2. QED
    BY <2>1, <1>1, <1>2 DEF OneRunEach
<1>4. UnfinishedHasRequest'
  BY <1>1, <1>2 DEF UnfinishedHasRequest, Unfinished
<1>5. StatusesKept
  BY <1>2 DEF StatusesKept
<1>6. QED
  BY <1>3, <1>4, <1>5 DEF RunsKept

LEMMA ProcessStepRuns ==
  ASSUME TypeInv, OneRunEach, UnfinishedHasRequest,
         Die \/ Boot \/ \E d \in Dataset : Upload(d)
  PROVE  RunsKept
<1> USE DEF datasets, kpiTables, runs, history
<1>1. CASE Die
  <2>1. /\ inv' = inv /\ completed' = completed
        /\ \A q \in Request : req'[q] = IdleRequest
        /\ \A i \in Investigation : i \in lost \/ (\E q \in Request : req[q].inv = i)
                                      => i \in lost'
    BY <1>1 DEF Die
  <2>2. \A q \in Request : HoldsItsRun(q)'
    BY <2>1, LifecycleAssumption DEF HoldsItsRun, IdleRequest, WorkingPC
  <2>3. QED
    BY <2>1, <2>2 DEF RunsKept, OneRunEach, UnfinishedHasRequest, StatusesKept, IdleRequest
<1>2. CASE Boot
  <2>1. /\ req' = req /\ completed' = completed /\ lost' = lost /\ up'
        /\ \A q \in Request : req[q].pc = "idle"
    BY <1>2 DEF Boot, OneRunEach
  <2>2. \A i \in Investigation :
           /\ inv'[i].ds = inv[i].ds
           /\ \/ inv'[i].status = inv[i].status
              \/ inv[i].status \in Unfinished /\ inv'[i].status = "FAILED"
    BY <1>2 DEF Boot, Reconciled, Stale, TypeInv, TypeOK, InvestigationRow
  <2>3. \A q \in Request : req[q].inv \notin Investigation
    BY <2>1 DEF OneRunEach, HoldsItsRun, WorkingPC
  <2>4. \A q \in Request : HoldsItsRun(q)'
    BY <2>1, <2>3 DEF HoldsItsRun, WorkingPC
  <2>5. QED
    BY <2>1, <2>2, <2>4
       DEF RunsKept, OneRunEach, UnfinishedHasRequest, StatusesKept, Unfinished,
           Terminal, Finished
<1>3. ASSUME NEW d \in Dataset, Upload(d) PROVE RunsKept
  BY <1>3 DEF Upload, RunsKept, OneRunEach, HoldsItsRun, UnfinishedHasRequest, StatusesKept
<1>4. QED
  BY <1>1, <1>2, <1>3

(***************************************************************************)
(* Reuse.                                                                  *)
(***************************************************************************)
ReuseKept == OpenedLater' /\ Passed' /\ PassedAsLoaded'

\* A completed run changes its dataset no more; it may lose it.
DatasetsKept ==
    \A i \in completed : inv'[i].ds = inv[i].ds \/ inv'[i].ds = None

LEMMA RunsOfShrink ==
  ASSUME TypeInv, DatasetsKept, NEW d \in Dataset
  PROVE  completed \cap RunsOf(d)' \subseteq RunsOf(d)
  BY LifecycleAssumption DEF DatasetsKept, RunsOf

\* Only a request moves.
LEMMA RequestReuse ==
  ASSUME TypeInv, ReuseInv, DatasetsKept,
         UNCHANGED <<writer, behind, quiet, overtaken, completed>>,
         NEW r \in Request, NEW s \in RequestState, req' = [req EXCEPT ![r] = s],
         s.late \subseteq completed,
         s.pc \in {"loaded", "lookup"} =>
            /\ s.ds \in Dataset
            /\ quiet \cap s.late \cap RunsOf(s.ds) \subseteq s.behind
  PROVE  ReuseKept
<1>1. quiet \subseteq completed /\ overtaken \subseteq completed
  BY DEF TypeInv, TypeOK
<1>2. req'[r] = s /\ \A q \in Request \ {r} : req'[q] = req[q]
  BY DEF TypeInv, TypeOK
<1>3. OpenedLater'
  BY <1>1, RunsOfShrink DEF ReuseInv, OpenedLater, TypeInv, OnDataset, Transaction
<1>4. Passed'
  BY <1>1, RunsOfShrink DEF ReuseInv, Passed
<1>5. ASSUME NEW q \in Request, req'[q].pc \in {"loaded", "lookup"}
      PROVE  /\ req'[q].ds \in Dataset
             /\ \A i \in quiet :
                  i \in req'[q].late /\ inv'[i].ds = req'[q].ds => i \in req'[q].behind
  <2>1. req'[q].ds \in Dataset
    BY <1>2, <1>5 DEF ReuseInv, PassedAsLoaded
  <2>2. ASSUME NEW i \in quiet, i \in req'[q].late, inv'[i].ds = req'[q].ds
        PROVE  i \in req'[q].behind
    <3>1. i \in Investigation /\ inv[i].ds = req'[q].ds
      BY <2>1, <2>2, <1>1, LifecycleAssumption DEF DatasetsKept, TypeInv, TypeOK
    <3>2. QED
      BY <3>1, <2>2, <1>2, <1>5 DEF ReuseInv, PassedAsLoaded, RunsOf
  <2>3. QED
    BY <2>1, <2>2
<1>6. PassedAsLoaded'
  BY <1>2, <1>5 DEF PassedAsLoaded, RunsOf, ReuseInv
<1>7. QED
  BY <1>3, <1>4, <1>6 DEF ReuseKept

LEMMA RequestStepReuse ==
  ASSUME TypeInv, OneRunEach, ReuseInv, NEW r \in Request,
         RequestStep(r) \/ \E d \in Dataset : Create(r, d)
  PROVE  ReuseKept
<1> DEFINE h == req[r].inv
<1> USE DEF datasets, kpiTables, runs, history
<1>1. /\ req[r] \in RequestState /\ HoldsItsRun(r) /\ req[r].late \subseteq completed
      /\ inv \in [Investigation -> InvestigationRow]
      /\ quiet \subseteq completed /\ overtaken \subseteq completed
      /\ completed \subseteq Investigation
  BY DEF TypeInv, TypeOK, OneRunEach, ReuseInv, PassedAsLoaded
<1>2. IdleRequest \in RequestState /\ IdleRequest.late = {} /\ IdleRequest.pc = "idle"
  BY IdleTypes DEF IdleRequest
<1>3. ASSUME EndRequest(r), DatasetsKept,
             UNCHANGED <<writer, behind, quiet, overtaken, completed>>
      PROVE  ReuseKept
  BY <1>2, <1>3, RequestReuse DEF EndRequest
<1>4. ASSUME NEW d \in Dataset, Create(r, d) PROVE ReuseKept
  <2> DEFINE s == [IdleRequest EXCEPT
                      !.pc = "loaded", !.ds = d, !.behind = behind[d], !.late = overtaken]
  <2>1. /\ s \in RequestState /\ s.ds = d /\ s.behind = behind[d] /\ s.late = overtaken
    <3>1. behind[d] \in SUBSET Investigation /\ overtaken \in SUBSET Investigation
      BY DEF TypeInv, TypeOK
    <3>2. QED
      BY <3>1 DEF IdleRequest, RequestState
  <2>2. quiet \cap overtaken \cap RunsOf(d) \subseteq behind[d]
    BY DEF ReuseInv, Passed
  <2>3. /\ req' = [req EXCEPT ![r] = s] /\ DatasetsKept
        /\ UNCHANGED <<writer, behind, quiet, overtaken, completed>>
    BY <1>4 DEF Create, DatasetsKept
  <2> HIDE DEF s
  <2>4. QED
    BY <1>1, <2>1, <2>2, <2>3, RequestReuse
<1>5. CASE Resolve(r)
  <2>1. /\ DatasetsKept /\ req[r].pc = "loaded"
        /\ UNCHANGED <<writer, behind, quiet, overtaken, completed>>
    BY <1>5 DEF Resolve, DatasetsKept
  <2>2. ASSUME NEW k \in Kpi,
               req' = [req EXCEPT ![r].pc = "lookup", ![r].kpi = k,
                                  ![r].behind = @ \cup behind[k]]
        PROVE  ReuseKept
    <3> DEFINE s == [req[r] EXCEPT
                        !.pc = "lookup", !.kpi = k, !.behind = @ \cup behind[k]]
    <3>1. /\ s \in RequestState /\ s.late = req[r].late /\ s.ds = req[r].ds
          /\ s.behind = req[r].behind \cup behind[k]
      <4>1. behind[k] \in SUBSET Investigation
        BY DEF TypeInv, TypeOK
      <4>2. QED
        BY <1>1, <4>1 DEF RequestState
    <3>2. req' = [req EXCEPT ![r] = s]
      BY <2>2
    <3>3. /\ req[r].ds \in Dataset
          /\ quiet \cap req[r].late \cap RunsOf(req[r].ds) \subseteq req[r].behind
      BY <2>1 DEF ReuseInv, PassedAsLoaded
    <3> HIDE DEF s
    <3>4. QED
      BY <1>1, <2>1, <3>1, <3>2, <3>3, RequestReuse
  <2>3. QED
    BY <2>1, <2>2, <1>3, <1>5 DEF Resolve, KpisOf, TypeInv, TypeOK
<1>6. CASE Reuse(r)
  BY <1>3, <1>6 DEF Reuse, DatasetsKept
<1>7. ASSUME NEW i \in Investigation, Plan(r, i) PROVE ReuseKept
  <2>1. i \notin completed
    BY <1>7 DEF Plan, OneRunEach
  <2>2. DatasetsKept
    BY <1>1, <1>7, <2>1 DEF Plan, DatasetsKept
  <2> DEFINE s == [req[r] EXCEPT !.pc = "planned", !.inv = i]
  <2>3. s \in RequestState /\ s.pc = "planned" /\ s.late = req[r].late
    BY <1>1 DEF RequestState
  <2>4. /\ req' = [req EXCEPT ![r] = s] \/ EndRequest(r)
        /\ UNCHANGED <<writer, behind, quiet, overtaken, completed>>
    BY <1>7 DEF Plan
  <2> HIDE DEF s
  <2>5. QED
    BY <1>1, <1>3, <2>2, <2>3, <2>4, RequestReuse
<1>8. ASSUME NEW from, NEW to, NEW next \in {"idle", "running"},
             CommitRun(r, from, to, next)
      PROVE  ReuseKept
  <2> DEFINE s == [req[r] EXCEPT !.pc = next]
  <2>1. DatasetsKept
    BY <1>1, <1>8 DEF CommitRun, DatasetsKept, InvestigationRow
  <2>2. s \in RequestState /\ s.pc = next /\ s.late = req[r].late
    BY <1>1 DEF RequestState
  <2>3. /\ req' = [req EXCEPT ![r] = s] \/ EndRequest(r)
        /\ UNCHANGED <<writer, behind, quiet, overtaken, completed>>
    BY <1>8 DEF CommitRun
  <2> HIDE DEF s
  <2>4. QED
    BY <1>1, <1>3, <2>1, <2>2, <2>3, RequestReuse
<1>9. CASE StartRun(r) \/ Persist(r) \/ FailRun(r)
  BY <1>8, <1>9 DEF StartRun, Persist, FailRun
<1>10. CASE RejectRun(r)
  <2> DEFINE s == [req[r] EXCEPT !.pc = "failing"]
  <2>1. s \in RequestState /\ s.pc = "failing" /\ s.late = req[r].late
    BY <1>1 DEF RequestState
  <2>2. /\ req' = [req EXCEPT ![r] = s] /\ DatasetsKept
        /\ UNCHANGED <<writer, behind, quiet, overtaken, completed>>
    BY <1>10 DEF RejectRun, DatasetsKept
  <2> HIDE DEF s
  <2>3. QED
    BY <1>1, <2>1, <2>2, RequestReuse
<1>11. CASE CompleteRun(r)
  \* The run that becomes quiet was not completed, so nothing had overtaken it,
  \* and no transaction on its dataset is open.
  <2>1. /\ h \in Investigation /\ h \notin completed /\ inv[h].ds \in {req[r].ds, None}
        /\ req[r].pc = "running"
    BY <1>1, <1>11 DEF CompleteRun, HoldsItsRun, WorkingPC
  <2>2. /\ UNCHANGED <<writer, behind, inv, overtaken>> /\ completed' = completed \cup {h}
        /\ quiet' \subseteq quiet \cup {h}
        /\ h \in quiet' => \A w \in Writer :
              ~(writer[w].pc \in Transaction /\ writer[w].ds = req[r].ds)
    BY <1>1, <1>11, <2>1 DEF CompleteRun
  <2>3. OpenedLater'
    <3>1. ASSUME NEW w \in Writer, writer[w].pc \in Transaction,
                 NEW i \in quiet', inv[i].ds = writer[w].ds
          PROVE  i \in writer[w].before
      <4>1. writer[w].ds \in Dataset
        BY <3>1 DEF TypeInv, OnDataset, Transaction
      <4>2. i # h
        BY <2>1, <2>2, <3>1, <4>1, LifecycleAssumption
      <4>3. i \in quiet /\ i \in Investigation
        BY <1>1, <2>2, <4>2
      <4>4. QED
        BY <3>1, <4>3 DEF ReuseInv, OpenedLater, RunsOf
    <3>2. QED
      BY <2>2, <3>1 DEF OpenedLater, RunsOf
  <2>4. Passed'
    BY <1>1, <2>1, <2>2 DEF ReuseInv, Passed, RunsOf
  <2>5. PassedAsLoaded'
    <3> DEFINE s == [req[r] EXCEPT !.pc = "persisting"]
    <3>1. s.pc = "persisting" /\ s.late = req[r].late /\ req' = [req EXCEPT ![r] = s]
      BY <1>1, <1>11 DEF CompleteRun, RequestState
    <3> HIDE DEF s
    <3>2. /\ req'[r].pc = "persisting" /\ req'[r].late = req[r].late
          /\ \A q \in Request \ {r} : req'[q] = req[q]
      BY <3>1 DEF TypeInv, TypeOK
    <3>3. \A q \in Request : h \notin req[q].late
      BY <2>1 DEF ReuseInv, PassedAsLoaded
    <3>4. QED
      BY <2>2, <3>2, <3>3 DEF ReuseInv, PassedAsLoaded, RunsOf
  <2>6. QED
    BY <2>3, <2>4, <2>5 DEF ReuseKept
<1>12. CASE CrashRun(r)
  BY <1>3, <1>12 DEF CrashRun, DatasetsKept
<1>13. QED
  BY <1>4, <1>5, <1>6, <1>7, <1>9, <1>10, <1>11, <1>12 DEF RequestStep

\* A transaction that ends has written its dataset with its own start, or not at
\* all; nothing else is overtaken by it.
LEMMA WriterStepReuse ==
  ASSUME TypeInv, ReuseInv, NEW w \in Writer,
         WriterStep(w) \/ \E d \in Dataset : Begin(w, d)
  PROVE  ReuseKept
<1> DEFINE d == writer[w].ds
           Tracked == quiet \cap RunsOf(d)
<1> USE DEF datasets, kpiTables, runs, history
<1>1. /\ quiet \subseteq completed /\ overtaken \subseteq completed
      /\ completed \subseteq Investigation
      /\ writer \in [Writer -> WriterState]
      /\ behind \in [Dataset \cup Kpi -> SUBSET Investigation]
  BY DEF TypeInv, TypeOK
<1>2. UNCHANGED <<req, completed, quiet>>
  BY DEF WriterStep, Begin, BeginEnd, Abort, StartProfiling, PublishProfile,
         FailProfiling, EditDataset, Configure, Unconfigure, RemoveDataset, Commit
<1>3. \A i \in Investigation : inv'[i].ds \in {inv[i].ds, None}
  <2>1. CASE inv' = inv
    BY <2>1
  <2>2. ASSUME NEW k \in Kpi, Unconfigure(w, k)
        PROVE  \A i \in Investigation : inv'[i].ds = inv[i].ds
    BY <2>2 DEF Unconfigure, TypeInv, TypeOK, InvestigationRow
  <2>3. ASSUME RemoveDataset(w)
        PROVE  \A i \in Investigation : inv'[i] = inv[i] \/ inv'[i].ds = None
    BY <2>3 DEF RemoveDataset, GoneRow, NoRow
  <2>4. \/ inv' = inv \/ RemoveDataset(w) \/ \E k \in Kpi : Unconfigure(w, k)
    BY DEF WriterStep, Begin, BeginEnd, Abort, StartProfiling, PublishProfile,
           FailProfiling, EditDataset, Configure
  <2>5. QED
    BY <2>1, <2>2, <2>3, <2>4
<1>4. ASSUME NEW e \in Dataset PROVE completed \cap RunsOf(e)' \subseteq RunsOf(e)
  BY <1>1, <1>3, LifecycleAssumption DEF RunsOf
<1>5. PassedAsLoaded'
  BY <1>1, <1>2, <1>3, LifecycleAssumption DEF ReuseInv, PassedAsLoaded, RunsOf
\* Whoever is in a transaction after the step was so before, or has just begun.
<1>6. OpenedLater'
  <2>1. ASSUME NEW e, NEW kind, Open(w, e, kind)
        PROVE  \A v \in Writer : writer'[v] = writer[v] \/ writer'[v].before = completed
    BY <1>1, <2>1 DEF Open
  <2>2. ASSUME NEW kind, NEW next \in {"idle", "job"}, Commit(w, kind, next)
        PROVE  \A v \in Writer :
                  writer'[v] = writer[v] \/ writer'[v].pc \notin Transaction
    BY <1>1, <2>2 DEF Commit, IdleWriter, Transaction
  <2>3. \/ \E e, kind : Open(w, e, kind)
        \/ \E kind : \E next \in {"idle", "job"} : Commit(w, kind, next)
    BY DEF WriterStep, Begin, BeginEnd, Abort, StartProfiling, PublishProfile,
           FailProfiling, EditDataset, Configure, Unconfigure, RemoveDataset
  <2>4. \A v \in Writer : \/ writer'[v] = writer[v]
                          \/ writer'[v].before = completed
                          \/ writer'[v].pc \notin Transaction
    BY <2>1, <2>2, <2>3
  <2>5. \A v \in Writer : writer[v].pc \in Transaction => writer[v].ds \in Dataset
    BY DEF TypeInv, OnDataset, Transaction
  <2>6. QED
    BY <1>1, <1>2, <1>3, <2>4, <2>5, LifecycleAssumption
       DEF ReuseInv, OpenedLater, RunsOf
<1>7. Passed'
  <2>1. CASE UNCHANGED <<behind, overtaken>>
    BY <2>1, <1>1, <1>2, <1>4 DEF ReuseInv, Passed
  <2>2. ASSUME NEW rows, Touch(rows, w), rows \subseteq {d} \cup Kpi,
               writer[w].pc \in Transaction,
               \/ overtaken' = overtaken
               \/ overtaken' = overtaken \cup (completed \cap RunsOf(d)) /\ d \in rows
        PROVE  Passed'
    <3>1. d \in Dataset /\ Tracked \subseteq writer[w].before
      BY <2>2 DEF ReuseInv, OpenedLater, TypeInv, OnDataset, Transaction
    <3>2. ASSUME NEW e \in Dataset
          PROVE  quiet \cap overtaken' \cap RunsOf(e) \subseteq behind'[e]
      <4>1. CASE e \in rows
        <5>1. e = d
          BY <2>2, <4>1, LifecycleAssumption
        <5>2. behind'[e] = writer[w].before
          BY <1>1, <2>2, <4>1 DEF Touch
        <5>3. QED
          BY <3>1, <5>1, <5>2
      <4>2. CASE e \notin rows
        <5>1. behind'[e] = behind[e]
          BY <1>1, <2>2, <4>2 DEF Touch
        <5>2. overtaken' \cap RunsOf(e) \subseteq overtaken
          BY <2>2, <4>2 DEF RunsOf
        <5>3. QED
          BY <5>1, <5>2 DEF ReuseInv, Passed
      <4>3. QED
        BY <4>1, <4>2
    <3>3. QED
      BY <1>1, <1>2, <1>4, <3>2 DEF Passed
  <2>3. CASE StartProfiling(w) \/ PublishProfile(w) \/ FailProfiling(w) \/ EditDataset(w)
    <3>1. Touch({d}, w) /\ writer[w].pc \in Transaction
      BY <2>3 DEF StartProfiling, PublishProfile, FailProfiling, EditDataset, Commit,
                  Transaction
    <3>2. \/ overtaken' = overtaken
          \/ overtaken' = overtaken \cup (completed \cap RunsOf(d))
      BY <2>3 DEF StartProfiling, PublishProfile, FailProfiling, EditDataset
    <3>3. QED
      BY <3>1, <3>2, <2>2
  <2>4. ASSUME NEW k \in Kpi, Configure(w, k) PROVE Passed'
    <3> DEFINE old == KpisOf(d) \cap active
    <3>1. old \subseteq Kpi
      BY DEF KpisOf, TypeInv, TypeOK
    <3>2. /\ writer[w].pc \in Transaction /\ overtaken' = overtaken
          /\ Touch(old \cup {d}, w) \/ Touch(old, w)
      BY <2>4 DEF Configure, Commit, Transaction
    <3> HIDE DEF old
    <3>3. QED
      BY <3>1, <3>2, <2>2
  <2>5. ASSUME NEW k \in Kpi, Unconfigure(w, k) PROVE Passed'
    <3>1. /\ writer[w].pc \in Transaction /\ overtaken' = overtaken
          /\ Touch({d}, w) \/ behind' = behind
      BY <2>5 DEF Unconfigure, Commit, Transaction
    <3>2. QED
      BY <3>1, <2>1, <2>2
  <2>6. CASE RemoveDataset(w) \/ Abort(w) \/ BeginEnd(w) \/ \E e \in Dataset : Begin(w, e)
    BY <2>1, <2>6 DEF RemoveDataset, Abort, BeginEnd, Begin
  <2>7. QED
    BY <2>3, <2>4, <2>5, <2>6 DEF WriterStep
<1>8. QED
  BY <1>5, <1>6, <1>7 DEF ReuseKept

LEMMA ProcessStepReuse ==
  ASSUME TypeInv, ReuseInv, Die \/ Boot \/ \E d \in Dataset : Upload(d)
  PROVE  ReuseKept
<1> USE DEF datasets, kpiTables, runs, history
<1>1. /\ quiet \subseteq completed /\ completed \subseteq Investigation
      /\ behind \in [Dataset \cup Kpi -> SUBSET Investigation]
  BY DEF TypeInv, TypeOK
<1>2. CASE Die
  BY <1>2 DEF Die, ReuseKept, ReuseInv, OpenedLater, Passed, PassedAsLoaded, RunsOf,
              IdleRequest, IdleWriter, Transaction
<1>3. CASE Boot
  <2>1. \A i \in Investigation : inv'[i].ds = inv[i].ds
    BY <1>3 DEF Boot, Reconciled, TypeInv, TypeOK, InvestigationRow
  <2>2. UNCHANGED <<completed, req, writer, overtaken, quiet>>
    BY <1>3 DEF Boot
  <2>3. \A e \in Dataset : behind'[e] \in {behind[e], completed}
    BY <1>1, <1>3 DEF Boot
  <2>4. \A e : RunsOf(e)' = RunsOf(e)
    BY <2>1 DEF RunsOf
  <2>5. Passed'
    BY <1>1, <2>2, <2>3, <2>4 DEF ReuseInv, Passed
  <2>6. OpenedLater' /\ PassedAsLoaded'
    BY <2>1, <2>2 DEF ReuseInv, OpenedLater, PassedAsLoaded, RunsOf
  <2>7. QED
    BY <2>5, <2>6 DEF ReuseKept
<1>4. ASSUME NEW d \in Dataset, Upload(d) PROVE ReuseKept
  BY <1>4 DEF Upload, ReuseKept, ReuseInv, OpenedLater, Passed, PassedAsLoaded, RunsOf
<1>5. QED
  BY <1>2, <1>3, <1>4

(***************************************************************************)
(* The theorems.                                                           *)
(***************************************************************************)
LEMMA InitInv == Init => IInv
<1>1. ASSUME Init PROVE OneRunEach /\ UnfinishedHasRequest
  BY <1>1, LifecycleAssumption
     DEF Init, OneRunEach, HoldsItsRun, UnfinishedHasRequest, IdleRequest, NoRow,
         WorkingPC, Unfinished
<1>2. ASSUME Init PROVE OpenedLater /\ Passed /\ PassedAsLoaded
  BY <1>2 DEF Init, OpenedLater, Passed, PassedAsLoaded, IdleRequest, IdleWriter, Transaction
<1>3. QED
  BY <1>1, <1>2, InitType DEF IInv, ReuseInv

LEMMA NextInv == IInv /\ [Next]_vars => IInv' /\ StatusesKept
<1> SUFFICES ASSUME IInv, [Next]_vars PROVE IInv' /\ StatusesKept
  OBVIOUS
<1> USE DEF IInv, ReuseInv, ReuseKept, RunsKept
<1>1. CASE \E r \in Request : RequestStep(r) \/ \E d \in Dataset : Create(r, d)
  BY <1>1, RequestStepType, RequestStepRuns, RequestStepReuse
<1>2. CASE \E w \in Writer : WriterStep(w) \/ \E d \in Dataset : Begin(w, d)
  BY <1>2, WriterStepType, WriterStepRuns, WriterStepReuse
<1>3. CASE Die \/ Boot \/ \E d \in Dataset : Upload(d)
  BY <1>3, ProcessStepType, ProcessStepRuns, ProcessStepReuse
<1>4. CASE UNCHANGED vars
  <2> USE <1>4 DEF vars, datasets, kpiTables, runs, history
  <2>1. TypeInv'
    BY DEF TypeInv, TypeOK, OnDataset
  <2>2. OneRunEach' /\ UnfinishedHasRequest' /\ StatusesKept
    BY DEF OneRunEach, HoldsItsRun, UnfinishedHasRequest, StatusesKept
  <2>3. OpenedLater' /\ Passed' /\ PassedAsLoaded'
    BY DEF OpenedLater, Passed, PassedAsLoaded, RunsOf
  <2>4. QED
    BY <2>1, <2>2, <2>3
<1>5. QED
  BY <1>1, <1>2, <1>3, <1>4 DEF Next

LEMMA Invariance == Spec => []IInv
<1>1. Init => IInv
  BY InitInv
<1>2. IInv /\ [Next]_vars => IInv'
  BY NextInv
<1>3. QED
  BY <1>1, <1>2, PTL DEF Spec

\* Every reachable state of the investigation lifecycle is well typed.
THEOREM RunTypeCorrect == Spec => []TypeOK
<1>1. IInv => TypeOK
  BY DEF IInv, TypeInv
<1>2. QED
  BY <1>1, Invariance, PTL

\* _reusable never hands out a run for data re-profiled since, unless some
\* transaction on the dataset was open when the run ended.
THEOREM ReuseSound == Spec => []ReuseFollowsReprofile
<1>1. IInv => ReuseFollowsReprofile
  <2> SUFFICES ASSUME IInv, NEW r \in Request, req[r].pc = "lookup",
                      NEW i \in Reusable(r) \cap quiet \cap req[r].late
               PROVE  FALSE
    BY DEF ReuseFollowsReprofile
  <2>1. i \in RunsOf(req[r].ds) /\ i \notin req[r].behind
    BY DEF Reusable, Outlasts
  <2>2. i \in req[r].behind
    BY <2>1 DEF IInv, ReuseInv, PassedAsLoaded
  <2>3. QED
    BY <2>1, <2>2
<1>2. QED
  BY <1>1, Invariance, PTL

\* A run's row that says planned or running has a request at work on it, or was
\* lost to a death of the process or to an exception nobody catches.
THEOREM UnfinishedIsWorkedOn == Spec => []UnfinishedHasRequest
<1>1. IInv => UnfinishedHasRequest
  BY DEF IInv
<1>2. QED
  BY <1>1, Invariance, PTL

\* The status of a run that ended never changes again.
THEOREM RecordsAreFinal == Spec => FinishedIsFinal
<1>1. IInv /\ [Next]_vars => [\A i \in Investigation :
          inv[i].status \in Terminal => inv'[i].status \in {inv[i].status, "gone"}]_vars
  BY NextInv DEF StatusesKept
<1>2. QED
  BY <1>1, Invariance, PTL DEF Spec, FinishedIsFinal
=============================================================================
