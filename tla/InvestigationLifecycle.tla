----------------------- MODULE InvestigationLifecycle -----------------------
(***************************************************************************)
(* The life of an investigation in backend/app: investigation_service      *)
(* .create, which reuses an equivalent run or makes a new one, and the     *)
(* transactions that change the dataset and the KPI definitions meanwhile. *)
(*                                                                         *)
(* The dataset is the one DatasetContract describes, which                 *)
(* DatasetLifecycle implements: its statuses move by that module's         *)
(* actions, here with the timestamps that reuse is decided on.             *)
(*                                                                         *)
(* updated_at is func.now(): the START of the writing transaction, however *)
(* late it commits.  completed_at is read from the clock when a run ends.  *)
(* No clock is modelled: behind[x] holds the runs whose completed_at is    *)
(* earlier than the updated_at of dataset or definition x.                 *)
(***************************************************************************)
EXTENDS Integers, FiniteSets

CONSTANTS
    Dataset, Kpi,
    Investigation,     \* investigation ids (uuid4: an id is used once)
    Request,           \* slots for create requests in flight
    Writer,            \* slots for transactions on datasets and definitions
    None,              \* "null"
    UnexpectedErrors,  \* may a run raise something that is no AppError?
    MaxRestarts        \* bound: how often the process dies

ASSUME LifecycleAssumption ==
    /\ UnexpectedErrors \in BOOLEAN
    /\ MaxRestarts \in Nat
    /\ None \notin Dataset \cup Kpi \cup Investigation
    /\ Dataset \cap Kpi = {}

VARIABLES
    status, profiled,  \* the datasets, as in DatasetContract
    owner,             \* the dataset a KPI definition was created for
    kpis,              \* the definitions whose row exists
    active,            \* those of them with is_active
    behind,            \* runs that completed before a row's updated_at
    inv,               \* the investigation rows
    completed,         \* runs whose completed_at has been taken
    req,               \* what each create request holds
    writer,            \* what each open transaction holds
    up, restarts,      \* is the process running, how often has it died
    overtaken,         \* history: runs with a profile committed after completed_at
    quiet,             \* history: runs completed with no transaction open
    lost               \* history: runs whose process or request died

Catalogue == INSTANCE DatasetContract

kpiTables == <<owner, kpis, active>>
history == <<overtaken, quiet, lost>>
datasets == <<status, profiled, kpiTables, behind>>
runs == <<inv, completed>>
vars == <<datasets, runs, req, writer, up, restarts, history>>

InvestigationStatus == {"PLANNED", "RUNNING", "COMPLETED", "PARTIAL", "FAILED"}
Unfinished == {"PLANNED", "RUNNING"}
Finished == {"COMPLETED", "PARTIAL"}
Terminal == Finished \cup {"FAILED"}

InvestigationRow ==
    [status : {"none", "gone"} \cup InvestigationStatus,
     ds : Dataset \cup {None}, kpi : Kpi \cup {None}]

NoRow == [status |-> "none", ds |-> None, kpi |-> None]
GoneRow == [NoRow EXCEPT !.status = "gone"]

RequestState ==
    [pc : {"idle", "loaded", "lookup", "planned", "running", "persisting", "failing"},
     ds : Dataset \cup {None}, kpi : Kpi \cup {None},
     inv : Investigation \cup {None},
     behind : SUBSET Investigation,   \* by the updated_at of the rows as loaded
     late : SUBSET Investigation]     \* history: overtaken when the request came

IdleRequest ==
    [pc |-> "idle", ds |-> None, kpi |-> None, inv |-> None, behind |-> {}, late |-> {}]

DatasetStatus ==
    Catalogue!Stored \cup {"unborn", "PENDING_UPLOAD", "UPLOAD_FAILED", "gone"}

\* "job" is a job between its transactions; the other ones, but "idle", are what
\* an open transaction is going to do.
Transaction == {"start", "publish", "fail", "configure", "unconfigure", "edit", "remove"}
WriterState ==
    [pc : Transaction \cup {"idle", "job"},
     ds : Dataset \cup {None},
     seen : DatasetStatus,             \* status as loaded, where it is used
     before : SUBSET Investigation]    \* completed when the transaction began

IdleWriter == [pc |-> "idle", ds |-> None, seen |-> "unborn", before |-> {}]

TypeOK ==
    /\ status \in [Dataset -> DatasetStatus]
    /\ profiled \in SUBSET Dataset
    /\ owner \in [Kpi -> Dataset \cup {None}]
    /\ kpis \in SUBSET Kpi
    /\ active \in SUBSET kpis
    /\ behind \in [Dataset \cup Kpi -> SUBSET Investigation]
    /\ inv \in [Investigation -> InvestigationRow]
    /\ completed \in SUBSET Investigation
    /\ req \in [Request -> RequestState]
    /\ writer \in [Writer -> WriterState]
    /\ up \in BOOLEAN
    /\ restarts \in 0..MaxRestarts
    /\ overtaken \in SUBSET completed
    /\ quiet \in SUBSET completed
    /\ lost \in SUBSET Investigation

Live(d) == status[d] \notin {"unborn", "gone"}
KpisOf(d) == {k \in kpis : owner[k] = d}
RunsOf(d) == {i \in Investigation : inv[i].ds = d}
EndRequest(r) == req' = [req EXCEPT ![r] = IdleRequest]

(***************************************************************************)
(* investigation_service.create                                            *)
(***************************************************************************)

\* get_dataset and the readiness gate: anything else is refused, and no row made.
Create(r, d) ==
    /\ up /\ req[r].pc = "idle"
    /\ status[d] = "ANALYSIS_READY"
    /\ req' = [req EXCEPT ![r] = [IdleRequest EXCEPT
                  !.pc = "loaded", !.ds = d, !.behind = behind[d], !.late = overtaken]]
    /\ UNCHANGED <<datasets, runs, writer, up, restarts, history>>

\* resolve_definition (an explicit one or the active one) and detected_frequency.
Resolve(r) ==
    /\ up /\ req[r].pc = "loaded"
    /\ \/ \E k \in KpisOf(req[r].ds) :
             req' = [req EXCEPT ![r].pc = "lookup", ![r].kpi = k,
                                ![r].behind = @ \cup behind[k]]
       \/ EndRequest(r)                               \* 404: no such definition
    /\ UNCHANGED <<datasets, runs, writer, up, restarts, history>>

\* _outlasts, for both updated_at values as they were loaded.
Outlasts(r, i) == i \notin req[r].behind

\* Mutant: an equivalent run is reused however long ago it ended.
ReusableAnyAge(r) ==
    {i \in RunsOf(req[r].ds) : inv[i].status \in Finished /\ inv[i].kpi = req[r].kpi}

\* _reusable: finished runs of this dataset and definition that outlast both.
\* The code takes the newest of them.
Reusable(r) ==
    {i \in RunsOf(req[r].ds) :
        /\ inv[i].status \in Finished
        /\ inv[i].kpi = req[r].kpi
        /\ Outlasts(r, i)}

Reuse(r) ==
    /\ up /\ req[r].pc = "lookup"
    /\ Reusable(r) # {}
    /\ EndRequest(r)
    /\ UNCHANGED <<datasets, runs, writer, up, restarts, history>>

\* Nothing to reuse, or refresh was asked for: the PLANNED row is committed.  The
\* insert fails when the dataset or the definition it refers to is gone.
Plan(r, i) ==
    LET d == req[r].ds IN
    /\ up /\ req[r].pc = "lookup" /\ inv[i].status = "none"
    /\ \/ /\ Live(d) /\ req[r].kpi \in kpis
          /\ inv' = [inv EXCEPT ![i] = [status |-> "PLANNED", ds |-> d,
                                        kpi |-> req[r].kpi]]
          /\ req' = [req EXCEPT ![r].pc = "planned", ![r].inv = i]
       \/ /\ ~(Live(d) /\ req[r].kpi \in kpis)
          /\ EndRequest(r)
          /\ UNCHANGED inv
    /\ UNCHANGED <<datasets, completed, writer, up, restarts, history>>

Exists(i) == inv[i].status \in InvestigationStatus

\* A commit on the run's row; a row that the dataset's deletion has taken along
\* makes it raise, and the request ends there.
CommitRun(r, from, to, next) ==
    LET i == req[r].inv IN
    /\ up /\ req[r].pc = from
    /\ \/ /\ Exists(i)
          /\ inv' = [inv EXCEPT ![i].status = to]
          /\ IF next = "idle" THEN EndRequest(r)
                              ELSE req' = [req EXCEPT ![r].pc = next]
       \/ /\ ~Exists(i)
          /\ EndRequest(r)
          /\ UNCHANGED inv
    /\ UNCHANGED <<datasets, completed, writer, up, restarts, history>>

StartRun(r) == CommitRun(r, "planned", "RUNNING", "running")

\* The engine ran, outside any transaction, and completed_at was taken.
CompleteRun(r) ==
    LET i == req[r].inv IN
    /\ up /\ req[r].pc = "running"
    /\ completed' = completed \cup {i}
    /\ quiet' = IF \E w \in Writer : writer[w].pc \in Transaction
                                  /\ writer[w].ds = req[r].ds
                THEN quiet ELSE quiet \cup {i}
    /\ req' = [req EXCEPT ![r].pc = "persisting"]
    /\ UNCHANGED <<datasets, inv, writer, up, restarts, overtaken, lost>>

\* It raised an AppError (a missing column, no stored data) ...
RejectRun(r) ==
    /\ up /\ req[r].pc = "running"
    /\ req' = [req EXCEPT ![r].pc = "failing"]
    /\ UNCHANGED <<datasets, runs, writer, up, restarts, history>>

\* ... or something else (DuckDB, the file), which no clause of create catches.
CrashRun(r) ==
    /\ up /\ req[r].pc \in {"running", "persisting"} /\ UnexpectedErrors
    /\ lost' = lost \cup {req[r].inv}
    /\ EndRequest(r)
    /\ UNCHANGED <<datasets, runs, writer, up, restarts, overtaken, quiet>>

\* Mutant: analysis_state written to the status column.
PersistState(r) == CommitRun(r, "persisting", "OK", "idle")

Persist(r) ==
    \E outcome \in Finished : CommitRun(r, "persisting", outcome, "idle")

\* Mutant: the AppError is raised on without the commit.
FailRunSilently(r) ==
    /\ up /\ req[r].pc = "failing"
    /\ EndRequest(r)
    /\ UNCHANGED <<datasets, runs, writer, up, restarts, history>>

FailRun(r) == CommitRun(r, "failing", "FAILED", "idle")

(***************************************************************************)
(* Transactions that change a dataset or its definitions.                  *)
(***************************************************************************)
\* A transaction's first statement, which loads the dataset.
Open(w, d, kind) ==
    writer' = [writer EXCEPT ![w] =
                  [pc |-> kind, ds |-> d, before |-> completed,
                   seen |-> IF kind \in {"configure", "unconfigure"}
                            THEN status[d] ELSE "unborn"]]

Begin(w, d) ==
    /\ up /\ writer[w].pc = "idle"
    /\ \/ /\ status[d] \in Catalogue!Stored      \* run_pipeline, queued before
          /\ Open(w, d, "start")
       \/ /\ d \in profiled                      \* create_definition
          /\ Open(w, d, "configure")
       \/ /\ KpisOf(d) # {}                      \* delete_definition
          /\ Open(w, d, "unconfigure")
       \/ /\ Live(d)                            \* update_dataset
          /\ Open(w, d, "edit")
       \/ /\ Live(d) /\ status[d] # "PROFILING"  \* delete_dataset
          /\ Open(w, d, "remove")
    /\ UNCHANGED <<datasets, runs, req, up, restarts, history>>

\* _persist_profile, or the except clause after the rollback.
BeginEnd(w) ==
    /\ up /\ writer[w].pc = "job"
    /\ \E kind \in {"publish", "fail"} : Open(w, writer[w].ds, kind)
    /\ UNCHANGED <<datasets, runs, req, up, restarts, history>>

Commit(w, kind, next) ==
    /\ up /\ writer[w].pc = kind
    /\ writer' = [writer EXCEPT ![w] =
                     IF next = "idle" THEN IdleWriter
                     ELSE [IdleWriter EXCEPT !.pc = next, !.ds = writer[w].ds]]
    /\ UNCHANGED <<completed, req, up, restarts, quiet, lost>>

\* onupdate=func.now(): the rows written carry the transaction's start.
Touch(rows, w) ==
    behind' = [x \in DOMAIN behind |->
                  IF x \in rows THEN writer[w].before ELSE behind[x]]

\* The transaction is rolled back: refused, conflicting, or its rows are gone.
Abort(w) ==
    /\ \E kind \in Transaction :
          Commit(w, kind, IF kind = "publish" THEN "job" ELSE "idle")
    /\ UNCHANGED <<datasets, inv, overtaken>>

\* run_pipeline's PROFILING commit and its two ends.
StartProfiling(w) ==
    LET d == writer[w].ds IN
    /\ Commit(w, "start", "job")
    /\ Catalogue!Process(d) /\ Touch({d}, w)
    /\ UNCHANGED <<kpiTables, inv, overtaken>>

PublishProfile(w) ==
    LET d == writer[w].ds IN
    /\ Commit(w, "publish", "idle")
    /\ Catalogue!Publish(d) /\ Touch({d}, w)
    /\ overtaken' = overtaken \cup (completed \cap RunsOf(d))
    /\ UNCHANGED <<kpiTables, inv>>

FailProfiling(w) ==
    LET d == writer[w].ds IN
    /\ Commit(w, "fail", "idle")
    /\ Catalogue!Fail({d}) /\ Touch({d}, w)
    /\ UNCHANGED <<kpiTables, inv, overtaken>>

\* create_definition: the old active definition is written too; the dataset only
\* when the status as loaded changes.
Configure(w, k) ==
    LET d == writer[w].ds
        old == KpisOf(d) \cap active IN
    /\ Commit(w, "configure", "idle")
    /\ owner[k] = None
    /\ \/ /\ writer[w].seen \notin {"BLOCKED", "ANALYSIS_READY"}
          /\ Catalogue!Configure(d)
          /\ Touch(old \cup {d}, w)
       \/ /\ writer[w].seen \in {"BLOCKED", "ANALYSIS_READY"} /\ Live(d)
          /\ Touch(old, w)
          /\ UNCHANGED <<status, profiled>>
    /\ owner' = [owner EXCEPT ![k] = d]
    /\ kpis' = kpis \cup {k}
    /\ active' = (active \ old) \cup {k}
    /\ UNCHANGED <<inv, overtaken>>

\* delete_definition; the runs of the definition stay, without it.
Unconfigure(w, k) ==
    LET d == writer[w].ds
        demotes == k \in active /\ writer[w].seen = "ANALYSIS_READY" IN
    /\ Commit(w, "unconfigure", "idle")
    /\ k \in KpisOf(d)
    /\ \/ demotes /\ Catalogue!Unconfigure(d) /\ Touch({d}, w)
       \/ ~demotes /\ UNCHANGED <<status, profiled, behind>>
    /\ kpis' = kpis \ {k}
    /\ active' = active \ {k}
    /\ inv' = [i \in Investigation |->
                  IF inv[i].kpi = k THEN [inv[i] EXCEPT !.kpi = None] ELSE inv[i]]
    /\ UNCHANGED <<owner, overtaken>>

\* update_dataset: a name or a description, and with it the timestamp of the row.
EditDataset(w) ==
    LET d == writer[w].ds IN
    /\ Commit(w, "edit", "idle")
    /\ Live(d) /\ Touch({d}, w)
    /\ UNCHANGED <<status, profiled, kpiTables, inv, overtaken>>

\* delete_dataset; definitions and investigations cascade.
RemoveDataset(w) ==
    LET d == writer[w].ds IN
    /\ Commit(w, "remove", "idle")
    /\ Catalogue!Remove(d)
    /\ kpis' = kpis \ KpisOf(d)
    /\ active' = active \ KpisOf(d)
    /\ inv' = [i \in Investigation |-> IF inv[i].ds = d THEN GoneRow ELSE inv[i]]
    /\ UNCHANGED <<owner, behind, overtaken>>

\* Uploading: before any definition or run, so its timestamps decide nothing.
Upload(d) ==
    /\ up /\ (Catalogue!Register(d) \/ Catalogue!Reject(d) \/ Catalogue!Store(d))
    /\ UNCHANGED <<kpiTables, behind, runs, req, writer, up, restarts, history>>

(***************************************************************************)
(* The process.                                                            *)
(***************************************************************************)
Die ==
    /\ up /\ restarts < MaxRestarts
    /\ up' = FALSE
    /\ restarts' = restarts + 1
    /\ lost' = lost \cup {i \in Investigation : \E r \in Request : req[r].inv = i}
    /\ req' = [r \in Request |-> IdleRequest]
    /\ writer' = [w \in Writer |-> IdleWriter]
    /\ UNCHANGED <<datasets, runs, overtaken, quiet>>

\* Mutant: every old row, also those that have finished.
StaleAnyStatus(i, old) == Exists(i) /\ i \in old

Stale(i, old) == inv[i].status \in Unfinished /\ i \in old

\* reconcile_stale_investigations; old are the rows whose created_at is before the
\* cutoff of settings.investigation_stale_minutes.
Reconciled(old) ==
    [i \in Investigation |->
        IF Stale(i, old) THEN [inv[i] EXCEPT !.status = "FAILED"] ELSE inv[i]]

\* lifespan: the datasets first, then the investigations; an exception is logged
\* and startup goes on.
Boot ==
    /\ ~up
    /\ up' = TRUE
    /\ \/ /\ \E D \in SUBSET {d \in Dataset : status[d] = "PROFILING"} :
                /\ Catalogue!Fail(D)
                /\ behind' = [x \in DOMAIN behind |->
                                 IF x \in D THEN completed ELSE behind[x]]
          /\ \E old \in SUBSET Investigation : inv' = Reconciled(old)
       \/ UNCHANGED <<status, profiled, behind, inv>>
    /\ UNCHANGED <<kpiTables, completed, req, writer, restarts, history>>

-----------------------------------------------------------------------------
Init ==
    /\ Catalogue!Init
    /\ owner = [k \in Kpi |-> None]
    /\ kpis = {}
    /\ active = {}
    /\ behind = [x \in Dataset \cup Kpi |-> {}]
    /\ inv = [i \in Investigation |-> NoRow]
    /\ completed = {}
    /\ req = [r \in Request |-> IdleRequest]
    /\ writer = [w \in Writer |-> IdleWriter]
    /\ up = TRUE
    /\ restarts = 0
    /\ overtaken = {}
    /\ quiet = {}
    /\ lost = {}

RequestStep(r) ==
    \/ Resolve(r)
    \/ Reuse(r)
    \/ \E i \in Investigation : Plan(r, i)
    \/ StartRun(r) \/ CompleteRun(r) \/ RejectRun(r) \/ CrashRun(r)
    \/ Persist(r) \/ FailRun(r)

WriterStep(w) ==
    \/ Abort(w) \/ BeginEnd(w)
    \/ StartProfiling(w) \/ PublishProfile(w) \/ FailProfiling(w)
    \/ \E k \in Kpi : Configure(w, k) \/ Unconfigure(w, k)
    \/ EditDataset(w) \/ RemoveDataset(w)

Next ==
    \/ \E r \in Request : RequestStep(r) \/ \E d \in Dataset : Create(r, d)
    \/ \E w \in Writer : WriterStep(w) \/ \E d \in Dataset : Begin(w, d)
    \/ \E d \in Dataset : Upload(d)
    \/ Die \/ Boot

Spec == Init /\ [][Next]_vars

-----------------------------------------------------------------------------
(***************************************************************************)
(* What must hold.                                                         *)
(***************************************************************************)

\* A run is never handed out again for a dataset that was re-profiled between the
\* end of the run and the arrival of the request, provided no transaction on the
\* dataset was open when the run ended: then updated_at has passed completed_at
\* for good, whatever transactions follow and however they overlap.
ReuseFollowsReprofile ==
    \A r \in Request : req[r].pc = "lookup" =>
        Reusable(r) \cap quiet \cap req[r].late = {}

\* A finished investigation is a record: no handler, no second request and no
\* startup task ever changes its status; it can only go with its dataset.
FinishedIsFinal ==
    [][\A i \in Investigation :
          inv[i].status \in Terminal => inv'[i].status \in {inv[i].status, "gone"}]_vars

\* A row that says planned or running is being worked on by a request, unless the
\* process died on it or an exception nobody catches ended its request: every
\* reported failure is recorded before the client hears of it.
UnfinishedHasRequest ==
    \A i \in Investigation :
        inv[i].status \in Unfinished =>
            i \in lost \/ \E r \in Request : req[r].inv = i

-----------------------------------------------------------------------------
\* What _reusable says: "if the file has been re-profiled or replaced since the
\* run completed, the run is not reusable no matter what its inputs were."
ReuseIsFresh ==
    \A r \in Request : req[r].pc = "lookup" => Reusable(r) \cap req[r].late = {}
=============================================================================
