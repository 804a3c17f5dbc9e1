-------------------------- MODULE DatasetLifecycle --------------------------
(***************************************************************************)
(* The life of a dataset in backend/app: the row in PostgreSQL, the        *)
(* objects in file storage, the profile, the KPI definitions, and the      *)
(* HTTP handlers and in-process profiling jobs that change them.           *)
(*                                                                         *)
(* Every handler works on a SQLAlchemy session with expire_on_commit off:  *)
(* the row it read at its start is the row it decides on, however long     *)
(* ago that was.  One action is one database transaction, one storage      *)
(* call or one read; everything between two of them can be interleaved     *)
(* with the other handlers, the jobs, and a restart of the process.        *)
(***************************************************************************)
EXTENDS Integers, FiniteSets

CONSTANTS
    Dataset,             \* dataset ids (uuid4: an id is used once)
    Kpi,                 \* KPI definition ids, each used once
    Content,             \* checksums of uploaded files
    SqlContent,          \* checksums of Parquet files saved from a SQL query
    Request,             \* slots for HTTP requests in flight
    Worker,              \* slots for background profiling jobs
    None,                \* "null"
    RejectDuplicates,    \* settings.reject_duplicate_uploads
    MaterializeParquet,  \* settings.materialize_parquet
    StorageFaults,       \* may storage.delete raise?
    MaxProfile,          \* bound: how many profiles a dataset gets
    MaxRestarts          \* bound: how often the process dies

ASSUME ConfigAssumption ==
    /\ RejectDuplicates \in BOOLEAN
    /\ MaterializeParquet \in BOOLEAN
    /\ StorageFaults \in BOOLEAN
    /\ MaxProfile \in Nat
    /\ MaxRestarts \in Nat
ASSUME NoneAssumption ==
    None \notin Dataset \cup Kpi \cup Content \cup SqlContent
ASSUME ContentAssumption == Content \cap SqlContent = {}

VARIABLES
    life,      \* does the datasets row exist: "unborn", "live", "gone"
    row,       \* the columns of the datasets row that the handlers decide on
    profile,   \* dataset_profiles.profile_version, 0 when there is no profile
    objects,   \* objects in file storage: <<dataset, "source" | "normalized">>
    owner,     \* the dataset a KPI definition was created for
    kpis,      \* the KPI definitions whose row exists
    active,    \* those of them with is_active
    req,       \* what each HTTP request in flight holds in its session
    job,       \* what each profiling job holds in its session
    up,        \* is the process running
    restarts,  \* how often it has died
    unlinked   \* history: datasets some delete has begun to take files from

catalogue == <<life, row, profile>>
kpiTables == <<owner, kpis, active>>
process   == <<up, restarts>>
vars == <<catalogue, objects, kpiTables, req, job, process, unlinked>>

(***************************************************************************)
(* The values.                                                             *)
(***************************************************************************)
DatasetStatus ==
    {"PENDING_UPLOAD", "UPLOADED", "VALIDATING", "PROFILING", "PROFILED",
     "ANALYSIS_READY", "UPLOAD_FAILED", "PROFILING_FAILED", "BLOCKED"}
UploadStatus == {"PENDING", "UPLOADING", "STORED", "FAILED"}
NormalizedKey == {"none", "own", "source"}  \* "source": the SQL save's one file
Verdict == {"PROFILED", "BLOCKED"}

Row == [status  : DatasetStatus,
        upload  : UploadStatus,
        stored  : BOOLEAN,                  \* storage_key is not null
        norm    : NormalizedKey,            \* normalized_key
        sum     : Content \cup SqlContent \cup {None},
        started : {"never", "recent", "stale"}]  \* profiling_started_at

NewRow(upload) ==
    [status |-> "PENDING_UPLOAD", upload |-> upload, stored |-> FALSE,
     norm |-> "none", sum |-> None, started |-> "never"]

RequestPC ==
    {"idle", "created", "streaming", "landed", "finalise", "sqlRun", "sqlLanded",
     "failUpload", "unlinkSource", "unlinkNormalized", "deleteRow",
     "kpiRead", "kpiCommit", "kpiFind", "kpiDrop"}

RequestState ==
    [pc   : RequestPC,
     ds   : Dataset \cup {None},
     seen : DatasetStatus,                  \* dataset.status as loaded
     stored : BOOLEAN, norm : NormalizedKey, \* the keys as loaded
     sum  : Content \cup SqlContent \cup {None},
     kpi  : Kpi \cup {None}, was : BOOLEAN, \* the KPI row and its is_active
     acts : SUBSET Kpi,                     \* the active rows as loaded
     loop : BOOLEAN]     \* a coroutine between two awaits holds the event loop

IdleRequest ==
    [pc |-> "idle", ds |-> None, seen |-> "PENDING_UPLOAD", stored |-> FALSE,
     norm |-> "none", sum |-> None, kpi |-> None, was |-> FALSE, acts |-> {},
     loop |-> FALSE]

JobPC == {"idle", "queued", "loaded", "reading", "materialising", "selecting",
          "committing", "failing"}
JobState ==
    [pc : JobPC, ds : Dataset \cup {None},
     seen : DatasetStatus,                   \* dataset.status as loaded
     stored : BOOLEAN, norm : NormalizedKey, \* the keys as loaded
     made : BOOLEAN,                         \* normalized_key set, not committed
     verdict : Verdict, version : Nat]       \* profile_version as selected

IdleJob ==
    [pc |-> "idle", ds |-> None, seen |-> "PENDING_UPLOAD", stored |-> FALSE,
     norm |-> "none", made |-> FALSE, verdict |-> "PROFILED", version |-> 0]

TypeOK ==
    /\ life \in [Dataset -> {"unborn", "live", "gone"}]
    /\ row \in [Dataset -> Row]
    /\ profile \in [Dataset -> Nat]
    /\ objects \in SUBSET (Dataset \X {"source", "normalized"})
    /\ owner \in [Kpi -> Dataset \cup {None}]
    /\ kpis \in SUBSET Kpi
    /\ active \in SUBSET Kpi
    /\ req \in [Request -> RequestState]
    /\ job \in [Worker -> JobState]
    /\ up \in BOOLEAN
    /\ restarts \in 0..MaxRestarts
    /\ unlinked \in SUBSET Dataset

(***************************************************************************)
(* What the handlers compute.                                              *)
(***************************************************************************)
Live(d) == life[d] = "live"
Busy(status) == status \in {"PROFILING", "VALIDATING"}
KpisOf(d) == {k \in kpis : owner[k] = d}
ActiveOf(d) == KpisOf(d) \cap active

\* Mutant: looks only among datasets that are already profiled.
DuplicatesAmongProfiled(d) ==
    {e \in Dataset \ {d} : /\ Live(e) /\ row[e].sum # None
                            /\ row[e].sum = row[d].sum /\ profile[e] > 0}

\* find_duplicate: another live dataset of the company with this checksum.
Duplicates(d) ==
    {e \in Dataset \ {d} : Live(e) /\ row[e].sum # None /\ row[e].sum = row[d].sum}

\* Mutant: upload handlers run on the thread pool like the others.
LoopNever == TRUE

\* The upload endpoints are coroutines on one event loop: between two awaits no
\* other upload runs.  The sync endpoints and the jobs run on the thread pool.
LoopFree == \A r \in Request : ~req[r].loop

EndRequest(r) == req' = [req EXCEPT ![r] = IdleRequest]
EndJob(w) == job' = [job EXCEPT ![w] = IdleJob]
Goto(r, pc) == req' = [req EXCEPT ![r].pc = pc]

\* background_tasks.add_task; an idle slot stands for the next pool thread.
Enqueue(d) ==
    \E w \in Worker :
        /\ job[w].pc = "idle"
        /\ job' = [job EXCEPT ![w].pc = "queued", ![w].ds = d]

(***************************************************************************)
(* Uploading a file (async): create_dataset_row, store_upload, _finalise.  *)
(***************************************************************************)
BeginUpload(r, d) ==
    /\ up /\ LoopFree
    /\ req[r].pc = "idle" /\ life[d] = "unborn"
    /\ life' = [life EXCEPT ![d] = "live"]
    /\ row' = [row EXCEPT ![d] = NewRow("PENDING")]
    /\ req' = [req EXCEPT ![r] = [IdleRequest EXCEPT !.pc = "created", !.ds = d,
                                                    !.loop = TRUE]]
    /\ UNCHANGED <<profile, objects, kpiTables, job, process, unlinked>>

\* The UPLOADING commit; a row deleted meanwhile makes it raise StaleDataError.
StartStream(r) ==
    LET d == req[r].ds IN
    /\ up /\ req[r].pc = "created"
    /\ \/ /\ Live(d)
          /\ row' = [row EXCEPT ![d].upload = "UPLOADING"]
          /\ req' = [req EXCEPT ![r].pc = "streaming", ![r].loop = FALSE]
       \/ /\ ~Live(d)
          /\ EndRequest(r)
          /\ UNCHANGED row
    /\ UNCHANGED <<life, profile, objects, kpiTables, job, process, unlinked>>

\* save_stream returned: the whole object is in place.
StreamOk(r, c) ==
    /\ up /\ LoopFree /\ req[r].pc = "streaming"
    /\ objects' = objects \cup {<<req[r].ds, "source">>}
    /\ req' = [req EXCEPT ![r].pc = "landed", ![r].sum = c, ![r].loop = TRUE]
    /\ UNCHANGED <<catalogue, kpiTables, job, process, unlinked>>

\* save_stream raised (too large, disconnect, disk): nothing was kept.
StreamFail(r) ==
    /\ up /\ LoopFree /\ req[r].pc = "streaming"
    /\ req' = [req EXCEPT ![r].pc = "failUpload", ![r].loop = TRUE]
    /\ UNCHANGED <<catalogue, objects, kpiTables, job, process, unlinked>>

\* An empty file is stored, deleted again and reported; when that delete raises,
\* nothing catches it and the row keeps its UPLOADING.
StreamEmpty(r) ==
    /\ up /\ LoopFree /\ req[r].pc = "streaming"
    /\ \/ /\ req' = [req EXCEPT ![r].pc = "failUpload", ![r].loop = TRUE]
          /\ UNCHANGED objects
       \/ /\ StorageFaults
          /\ objects' = objects \cup {<<req[r].ds, "source">>}
          /\ EndRequest(r)
    /\ UNCHANGED <<catalogue, kpiTables, job, process, unlinked>>

\* Mutant: records the failure in one of the two status columns only.
FailUploadHalf(r) ==
    LET d == req[r].ds IN
    /\ up /\ req[r].pc = "failUpload"
    /\ row' = IF Live(d) THEN [row EXCEPT ![d].status = "UPLOAD_FAILED"] ELSE row
    /\ EndRequest(r)
    /\ UNCHANGED <<life, profile, objects, kpiTables, job, process, unlinked>>

\* _fail_upload, and the except clause of save_query_as_dataset: roll back,
\* read the row again, record the failure if it is still there.
FailUpload(r) ==
    LET d == req[r].ds IN
    /\ up /\ req[r].pc = "failUpload"
    /\ \/ /\ Live(d)
          /\ row' = [row EXCEPT ![d].upload = "FAILED", ![d].status = "UPLOAD_FAILED"]
       \/ /\ ~Live(d)
          /\ UNCHANGED row
    /\ EndRequest(r)
    /\ UNCHANGED <<life, profile, objects, kpiTables, job, process, unlinked>>

\* The final commit of store_upload.
CommitUpload(r) ==
    LET d == req[r].ds IN
    /\ up /\ req[r].pc = "landed"
    /\ \/ /\ Live(d)
          /\ row' = [row EXCEPT ![d] = [@ EXCEPT
                          !.stored = TRUE, !.sum = req[r].sum,
                          !.upload = "STORED", !.status = "UPLOADED"]]
          /\ Goto(r, "finalise")
       \/ /\ ~Live(d)
          /\ EndRequest(r)
          /\ UNCHANGED row
    /\ UNCHANGED <<life, profile, objects, kpiTables, job, process, unlinked>>

\* _finalise, duplicate found and to be rejected: delete_dataset on the row as
\* just refreshed, still without an await.
RejectDuplicate(r) ==
    LET d == req[r].ds IN
    /\ up /\ req[r].pc = "finalise"
    /\ Live(d) /\ RejectDuplicates /\ Duplicates(d) # {}
    /\ req' = [req EXCEPT ![r].pc = "unlinkSource", ![r].stored = TRUE]
    /\ UNCHANGED <<catalogue, objects, kpiTables, job, process, unlinked>>

\* Mutant: the response is sent and no job was queued.
AcceptUploadNoJob(r) ==
    /\ up /\ req[r].pc = "finalise"
    /\ EndRequest(r)
    /\ UNCHANGED <<catalogue, objects, kpiTables, job, process, unlinked>>

\* _finalise, accepted: the job is queued and the response sent.  A row that is
\* gone makes db.refresh raise and the tasks of the failed response never run.
AcceptUpload(r) ==
    LET d == req[r].ds IN
    /\ up /\ req[r].pc = "finalise"
    /\ \/ /\ Live(d) /\ ~(RejectDuplicates /\ Duplicates(d) # {})
          /\ Enqueue(d)
       \/ /\ ~Live(d)
          /\ UNCHANGED job
    /\ EndRequest(r)
    /\ UNCHANGED <<catalogue, objects, kpiTables, process, unlinked>>

(***************************************************************************)
(* Saving a SQL query as a dataset (sync): save_query_as_dataset.          *)
(***************************************************************************)
BeginSqlSave(r, d) ==
    /\ up
    /\ req[r].pc = "idle" /\ life[d] = "unborn"
    /\ life' = [life EXCEPT ![d] = "live"]
    /\ row' = [row EXCEPT ![d] = NewRow("UPLOADING")]
    /\ req' = [req EXCEPT ![r] = [IdleRequest EXCEPT !.pc = "sqlRun", !.ds = d]]
    /\ UNCHANGED <<profile, objects, kpiTables, job, process, unlinked>>

\* The query ran and its Parquet file was saved, or something raised.
RunSqlSave(r) ==
    /\ up /\ req[r].pc = "sqlRun"
    /\ \/ \E c \in SqlContent :
             /\ objects' = objects \cup {<<req[r].ds, "source">>}
             /\ req' = [req EXCEPT ![r].pc = "sqlLanded", ![r].sum = c]
       \/ /\ Goto(r, "failUpload")
          /\ UNCHANGED objects
    /\ UNCHANGED <<catalogue, kpiTables, job, process, unlinked>>

\* The final commit (inside the try) and the route's enqueue_profiling.
CommitSqlSave(r) ==
    LET d == req[r].ds IN
    /\ up /\ req[r].pc = "sqlLanded"
    /\ \/ /\ Live(d)
          /\ row' = [row EXCEPT ![d] = [@ EXCEPT
                          !.stored = TRUE, !.norm = "source", !.sum = req[r].sum,
                          !.upload = "STORED", !.status = "UPLOADED"]]
          /\ Enqueue(d)
          /\ EndRequest(r)
       \/ /\ ~Live(d)
          /\ Goto(r, "failUpload")
          /\ UNCHANGED <<row, job>>
    /\ UNCHANGED <<life, profile, objects, kpiTables, process, unlinked>>

(***************************************************************************)
(* Regenerating a profile: guard and enqueue, nothing in between.          *)
(***************************************************************************)
\* Mutant: no check that there is stored data.
RegenerateUnstored(d) ==
    /\ up /\ Live(d) /\ ~Busy(row[d].status)
    /\ profile[d] < MaxProfile
    /\ Enqueue(d)
    /\ UNCHANGED <<catalogue, objects, kpiTables, req, process, unlinked>>

Regenerate(d) ==
    /\ up /\ Live(d)
    /\ ~Busy(row[d].status) /\ row[d].stored
    /\ profile[d] < MaxProfile
    /\ Enqueue(d)
    /\ UNCHANGED <<catalogue, objects, kpiTables, req, process, unlinked>>

(***************************************************************************)
(* Deleting a dataset: read the row, unlink its two keys, delete the row.  *)
(***************************************************************************)
BeginDelete(r, d) ==
    /\ up /\ req[r].pc = "idle"
    /\ Live(d) /\ ~Busy(row[d].status)
    /\ req' = [req EXCEPT ![r] = [IdleRequest EXCEPT
                  !.pc = "unlinkSource", !.ds = d,
                  !.stored = row[d].stored, !.norm = row[d].norm]]
    /\ UNCHANGED <<catalogue, objects, kpiTables, job, process, unlinked>>

\* storage.delete(key); an exception is logged and the loop goes on.
Unlink(r, key, named, next) ==
    LET d == req[r].ds IN
    /\ up
    /\ \/ /\ named
          /\ objects' = objects \ {<<d, key>>}
          /\ unlinked' = unlinked \cup {d}
       \/ /\ ~named \/ StorageFaults
          /\ UNCHANGED <<objects, unlinked>>
    /\ Goto(r, next)
    /\ UNCHANGED <<catalogue, kpiTables, job, process>>

UnlinkSource(r) ==
    /\ req[r].pc = "unlinkSource"
    /\ Unlink(r, "source", req[r].stored, "unlinkNormalized")

UnlinkNormalized(r) ==
    /\ req[r].pc = "unlinkNormalized"
    /\ Unlink(r, "normalized", req[r].norm = "own", "deleteRow")

\* db.delete(dataset) and commit; the profile and the KPI rows cascade.
DeleteRow(r) ==
    LET d == req[r].ds IN
    /\ up /\ req[r].pc = "deleteRow"
    /\ life' = [life EXCEPT ![d] = "gone"]
    /\ row' = [row EXCEPT ![d] = NewRow("PENDING")]  \* no row, no columns
    /\ profile' = [profile EXCEPT ![d] = 0]
    /\ kpis' = kpis \ KpisOf(d)
    /\ active' = active \ KpisOf(d)
    /\ EndRequest(r)
    /\ UNCHANGED <<objects, owner, job, process, unlinked>>

(***************************************************************************)
(* KPI definitions: create_definition and delete_definition.               *)
(***************************************************************************)
BeginCreateKpi(r, d) ==
    /\ up /\ req[r].pc = "idle" /\ Live(d)
    /\ \E k \in Kpi : owner[k] = None  \* bound: an id is left
    /\ req' = [req EXCEPT ![r] = [IdleRequest EXCEPT
                  !.pc = "kpiRead", !.ds = d, !.seen = row[d].status]]
    /\ UNCHANGED <<catalogue, objects, kpiTables, job, process, unlinked>>

\* Mutant: a definition can be saved before there is a profile.
ReadForKpiUnprofiled(r) ==
    /\ up /\ req[r].pc = "kpiRead"
    /\ req' = [req EXCEPT ![r].pc = "kpiCommit", ![r].acts = ActiveOf(req[r].ds)]
    /\ UNCHANGED <<catalogue, objects, kpiTables, job, process, unlinked>>

\* No profile: 409.  Validation may block the definition: 422.  Otherwise the
\* definitions that are active now are loaded, to be deactivated.
ReadForKpi(r) ==
    LET d == req[r].ds IN
    /\ up /\ req[r].pc = "kpiRead"
    /\ \/ /\ profile[d] > 0
          /\ req' = [req EXCEPT ![r].pc = "kpiCommit", ![r].acts = ActiveOf(d)]
       \/ EndRequest(r)
    /\ UNCHANGED <<catalogue, objects, kpiTables, job, process, unlinked>>

\* Mutant: no partial unique index (the SQLite schema).
CreateConflictsNoIndex(r) == ~Live(req[r].ds) \/ ~(req[r].acts \subseteq kpis)

\* What makes the flush of create_definition raise: the dataset row or a loaded
\* definition is gone, or the partial unique index finds another active one.
CreateConflicts(r) ==
    LET d == req[r].ds IN
    \/ ~Live(d)
    \/ ~(req[r].acts \subseteq kpis)
    \/ ActiveOf(d) \ req[r].acts # {}

\* dataset.status is assigned on the loaded row: when that already said
\* ANALYSIS_READY the UPDATE does not mention the column.
StatusAfterCreate(r) ==
    IF req[r].seen \in {"BLOCKED", "ANALYSIS_READY"}
    THEN row[req[r].ds].status
    ELSE "ANALYSIS_READY"

CommitKpi(r, k) ==
    LET d == req[r].ds IN
    /\ up /\ req[r].pc = "kpiCommit" /\ owner[k] = None
    /\ ~CreateConflicts(r)
    /\ owner' = [owner EXCEPT ![k] = d]
    /\ kpis' = kpis \cup {k}
    /\ active' = (active \ req[r].acts) \cup {k}
    /\ row' = [row EXCEPT ![d].status = StatusAfterCreate(r)]
    /\ EndRequest(r)
    /\ UNCHANGED <<life, profile, objects, job, process, unlinked>>

AbortKpi(r) ==
    /\ up /\ req[r].pc = "kpiCommit"
    /\ CreateConflicts(r) \/ \A k \in Kpi : owner[k] # None  \* or no id is left
    /\ EndRequest(r)
    /\ UNCHANGED <<catalogue, objects, kpiTables, job, process, unlinked>>

BeginDeleteKpi(r, d) ==
    /\ up /\ req[r].pc = "idle" /\ Live(d)
    /\ Kpi # {}                         \* bound: there can be an id to ask for
    /\ req' = [req EXCEPT ![r] = [IdleRequest EXCEPT
                  !.pc = "kpiFind", !.ds = d, !.seen = row[d].status]]
    /\ UNCHANGED <<catalogue, objects, kpiTables, job, process, unlinked>>

FindKpi(r) ==
    /\ up /\ req[r].pc = "kpiFind"
    /\ \/ \E k \in KpisOf(req[r].ds) :
             req' = [req EXCEPT ![r].pc = "kpiDrop", ![r].kpi = k,
                                ![r].was = (k \in active)]
       \/ EndRequest(r)
    /\ UNCHANGED <<catalogue, objects, kpiTables, job, process, unlinked>>

\* Mutant: deleting the active definition leaves the status alone.
DropKpiOnly(r) ==
    /\ up /\ req[r].pc = "kpiDrop"
    /\ kpis' = kpis \ {req[r].kpi}
    /\ active' = active \ {req[r].kpi}
    /\ EndRequest(r)
    /\ UNCHANGED <<life, row, profile, objects, owner, job, process, unlinked>>

\* The definition goes; the status follows only when the loaded row said
\* ANALYSIS_READY.  With the dataset gone that UPDATE raises StaleDataError.
DropKpi(r) ==
    LET d == req[r].ds
        demotes == req[r].was /\ req[r].seen = "ANALYSIS_READY" IN
    /\ up /\ req[r].pc = "kpiDrop"
    /\ \/ /\ Live(d) \/ ~demotes
          /\ kpis' = kpis \ {req[r].kpi}
          /\ active' = active \ {req[r].kpi}
          /\ row' = IF demotes THEN [row EXCEPT ![d].status = "PROFILED"] ELSE row
       \/ /\ ~Live(d) /\ demotes
          /\ UNCHANGED <<kpis, active, row>>
    /\ EndRequest(r)
    /\ UNCHANGED <<life, profile, objects, owner, job, process, unlinked>>

(***************************************************************************)
(* The profiling job: run_pipeline in a session of its own.                *)
(***************************************************************************)
LoadJob(w) ==
    LET d == job[w].ds IN
    /\ up /\ job[w].pc = "queued"
    /\ \/ /\ Live(d)
          /\ job' = [job EXCEPT ![w].pc = "loaded", ![w].seen = row[d].status,
                                ![w].stored = row[d].stored,
                                ![w].norm = row[d].norm]
       \/ /\ ~Live(d)
          /\ EndJob(w)
    /\ UNCHANGED <<catalogue, objects, kpiTables, req, process, unlinked>>

\* A job that loaded PROFILING changes only the start time.
StatusAfterStart(w) ==
    IF job[w].seen = "PROFILING" THEN row[job[w].ds].status ELSE "PROFILING"

\* The PROFILING commit is outside the try: on a deleted row the job just dies.
StartJob(w) ==
    LET d == job[w].ds IN
    /\ up /\ job[w].pc = "loaded"
    /\ \/ /\ Live(d)
          /\ row' = [row EXCEPT ![d] = [@ EXCEPT !.status = StatusAfterStart(w),
                                               !.started = "recent"]]
          /\ job' = [job EXCEPT ![w].pc = "reading", ![w].seen = "PROFILING"]
       \/ /\ ~Live(d)
          /\ EndJob(w)
          /\ UNCHANGED row
    /\ UNCHANGED <<life, profile, objects, kpiTables, req, process, unlinked>>

\* profile_file and validate_structural on the source object, or an exception:
\* no key, no object, an unreadable file.
ReadSource(w) ==
    LET d == job[w].ds IN
    /\ up /\ job[w].pc = "reading"
    /\ \/ /\ job[w].stored /\ <<d, "source">> \in objects
          /\ \E v \in Verdict :
                job' = [job EXCEPT
                   ![w].verdict = v,
                   ![w].pc = IF MaterializeParquet /\ job[w].norm = "none"
                             THEN "materialising" ELSE "selecting"]
       \/ job' = [job EXCEPT ![w].pc = "failing"]
    /\ UNCHANGED <<catalogue, objects, kpiTables, req, process, unlinked>>

\* _materialize stores the object and returns its key, or logs and returns None.
Materialise(w) ==
    /\ up /\ job[w].pc = "materialising"
    /\ \/ /\ objects' = objects \cup {<<job[w].ds, "normalized">>}
          /\ job' = [job EXCEPT ![w].pc = "selecting", ![w].made = TRUE]
       \/ /\ job' = [job EXCEPT ![w].pc = "selecting"]
          /\ UNCHANGED objects
    /\ UNCHANGED <<catalogue, kpiTables, req, process, unlinked>>

\* _persist_profile looks for the profile it is going to replace.
SelectProfile(w) ==
    /\ up /\ job[w].pc = "selecting"
    /\ job' = [job EXCEPT ![w].pc = "committing", ![w].version = profile[job[w].ds]]
    /\ UNCHANGED <<catalogue, objects, kpiTables, req, process, unlinked>>

\* Mutant: dataset_id is not unique among the profiles.
ProfileConflictsNever(w) == ~Live(job[w].ds)

\* dataset_profiles.dataset_id is unique and refers to the dataset: a profile
\* somebody else has inserted, or a deleted dataset, makes the flush raise.
ProfileConflicts(w) ==
    LET d == job[w].ds IN ~Live(d) \/ profile[d] # job[w].version

\* Mutants: the validation state written to the status column; normalized_key
\* written although _materialize returned None.
StatusFromReport(w) == "PASS"
NormAlways(w) == IF MaterializeParquet THEN "own" ELSE row[job[w].ds].norm

StatusAfterProfile(w) == job[w].verdict
NormAfterProfile(w) == IF job[w].made THEN "own" ELSE row[job[w].ds].norm

CommitProfile(w) ==
    LET d == job[w].ds IN
    /\ up /\ job[w].pc = "committing"
    /\ \/ /\ ~ProfileConflicts(w)
          /\ profile' = [profile EXCEPT ![d] = job[w].version + 1]
          /\ row' = [row EXCEPT ![d] = [@ EXCEPT !.status = StatusAfterProfile(w),
                                               !.norm = NormAfterProfile(w)]]
          /\ EndJob(w)
       \/ /\ job' = [job EXCEPT ![w].pc = "failing"]  \* conflict or database error
          /\ UNCHANGED <<profile, row>>
    /\ UNCHANGED <<life, objects, kpiTables, req, process, unlinked>>

\* Mutant: the failure is logged and not recorded.
FailJobSilently(w) ==
    /\ up /\ job[w].pc = "failing"
    /\ EndJob(w)
    /\ UNCHANGED <<catalogue, objects, kpiTables, req, process, unlinked>>

\* The except clause: roll back, read the row again, record the failure.
FailJob(w) ==
    LET d == job[w].ds IN
    /\ up /\ job[w].pc = "failing"
    /\ \/ /\ Live(d)
          /\ row' = [row EXCEPT ![d].status = "PROFILING_FAILED"]
       \/ /\ ~Live(d)
          /\ UNCHANGED row
    /\ EndJob(w)
    /\ UNCHANGED <<life, profile, objects, kpiTables, req, process, unlinked>>

(***************************************************************************)
(* The process: it dies with everything in flight, and on the way up       *)
(* reconciles the jobs it finds abandoned.  Thirty minutes can pass.       *)
(***************************************************************************)
Die ==
    /\ up /\ restarts < MaxRestarts
    /\ up' = FALSE
    /\ restarts' = restarts + 1
    /\ req' = [r \in Request |-> IdleRequest]
    /\ job' = [w \in Worker |-> IdleJob]
    /\ UNCHANGED <<catalogue, objects, kpiTables, unlinked>>

Stale(d) == Live(d) /\ Busy(row[d].status) /\ row[d].started = "stale"

\* reconcile_stale_jobs
Reconciled ==
    [d \in Dataset |->
        IF Stale(d) THEN [row[d] EXCEPT !.status = "PROFILING_FAILED"] ELSE row[d]]

\* lifespan: an exception in the reconciliation is logged and startup goes on.
Boot ==
    /\ ~up
    /\ up' = TRUE
    /\ row' \in {Reconciled, row}
    /\ UNCHANGED <<life, profile, objects, kpiTables, req, job, restarts, unlinked>>

\* profiling_started_at falls behind the settings.profiling_stale_minutes cutoff.
Age(d) ==
    /\ Live(d) /\ Busy(row[d].status) /\ row[d].started = "recent"
    /\ row' = [row EXCEPT ![d].started = "stale"]
    /\ UNCHANGED <<life, profile, objects, kpiTables, req, job, process, unlinked>>

-----------------------------------------------------------------------------
Init ==
    /\ life = [d \in Dataset |-> "unborn"]
    /\ row = [d \in Dataset |-> NewRow("PENDING")]
    /\ profile = [d \in Dataset |-> 0]
    /\ objects = {}
    /\ owner = [k \in Kpi |-> None]
    /\ kpis = {}
    /\ active = {}
    /\ req = [r \in Request |-> IdleRequest]
    /\ job = [w \in Worker |-> IdleJob]
    /\ up = TRUE
    /\ restarts = 0
    /\ unlinked = {}

Arrive(r) ==
    \E d \in Dataset :
        \/ BeginUpload(r, d)
        \/ BeginSqlSave(r, d)
        \/ BeginDelete(r, d)
        \/ BeginCreateKpi(r, d)
        \/ BeginDeleteKpi(r, d)

UploadStep(r) ==
    \/ StartStream(r)
    \/ \E c \in Content : StreamOk(r, c)
    \/ StreamFail(r)
    \/ StreamEmpty(r)
    \/ FailUpload(r)
    \/ CommitUpload(r)
    \/ RejectDuplicate(r)
    \/ AcceptUpload(r)
    \/ RunSqlSave(r)
    \/ CommitSqlSave(r)

DeleteStep(r) == UnlinkSource(r) \/ UnlinkNormalized(r) \/ DeleteRow(r)

KpiStep(r) ==
    \/ ReadForKpi(r)
    \/ \E k \in Kpi : CommitKpi(r, k)
    \/ AbortKpi(r)
    \/ FindKpi(r)
    \/ DropKpi(r)

RequestStep(r) == UploadStep(r) \/ DeleteStep(r) \/ KpiStep(r)

JobStep(w) ==
    \/ LoadJob(w) \/ StartJob(w) \/ ReadSource(w) \/ Materialise(w)
    \/ SelectProfile(w) \/ CommitProfile(w) \/ FailJob(w)

Next ==
    \/ \E r \in Request : Arrive(r) \/ RequestStep(r)
    \/ \E w \in Worker : JobStep(w)
    \/ \E d \in Dataset : Regenerate(d) \/ Age(d)
    \/ Die \/ Boot

Spec == Init /\ [][Next]_vars

\* Handlers and jobs run on threads the server keeps running, and a client ends
\* its upload or hangs up.  Queueing a job never blocks in the code; here it can
\* find every slot of the bound taken, hence the strong fairness.
Fairness ==
    /\ \A r \in Request : WF_vars(RequestStep(r))
    /\ \A r \in Request : SF_vars(AcceptUpload(r)) /\ SF_vars(CommitSqlSave(r))
    /\ \A w \in Worker : WF_vars(JobStep(w))

FairSpec == Spec /\ Fairness

-----------------------------------------------------------------------------
(***************************************************************************)
(* What must hold.                                                         *)
(***************************************************************************)

\* A dataset never has two active KPI definitions, however many configure calls
\* overlap (create_definition deactivates what it has read; the partial unique
\* index uq_kpi_definitions_one_active catches what it could not have read).
OneActiveKpi ==
    \A j, k \in active : owner[j] = owner[k] => j = k

\* A status that tells the client there is something to look at is backed by a
\* profile row, also while jobs replace the profile and KPI calls set statuses.
SettledHasProfile ==
    \A d \in Dataset :
        Live(d) /\ row[d].status \in {"PROFILED", "ANALYSIS_READY", "BLOCKED"}
            => profile[d] > 0

\* The keys of a row resolve: a file a row names is in storage until a delete of
\* that dataset has begun to unlink; no failed upload, failed job or restart
\* takes it away.
KeysResolve ==
    \A d \in Dataset : Live(d) /\ d \notin unlinked =>
        /\ row[d].stored => <<d, "source">> \in objects
        /\ row[d].norm = "own" => <<d, "normalized">> \in objects

\* The two status columns, written by different handlers, never contradict each
\* other: no row without a stored file is profiled, configured or failed in
\* profiling, and no stored one still says it waits for its upload.
ColumnsAgree ==
    \A d \in Dataset : Live(d) =>
        /\ row[d].status = "PENDING_UPLOAD" <=> row[d].upload \in {"PENDING", "UPLOADING"}
        /\ row[d].status = "UPLOAD_FAILED" <=> row[d].upload = "FAILED"
        /\ row[d].stored <=> row[d].upload = "STORED"
        /\ profile[d] > 0 => row[d].stored

\* A job never replaces a profile it has not seen: the version only ever grows by
\* one while the dataset exists, so a slow job cannot put an old profile back.
ProfileAdvances ==
    [][\A d \in Dataset :
          Live(d) /\ life'[d] = "live" /\ profile'[d] # profile[d]
              => profile'[d] = profile[d] + 1]_vars


\* With requests served one at a time (jobs may still run beside them), a dataset
\* that says ANALYSIS_READY has the active definition an analysis resolves.
\* Overlapping configure and delete calls break this: see README, hazards.
ReadyHasActiveKpi ==
    \A d \in Dataset :
        Live(d) /\ row[d].status = "ANALYSIS_READY" => ActiveOf(d) # {}

\* Two accepted uploads never have the same content when duplicates are to be
\* rejected: the check and the commit it relies on have no await between them.
BeingJudged(d) ==
    \E r \in Request :
        /\ req[r].ds = d /\ req[r].loop
        /\ req[r].pc \in {"finalise", "unlinkSource", "unlinkNormalized", "deleteRow"}
NoDuplicateUploads ==
    \A d, e \in Dataset :
        (/\ d # e /\ Live(d) /\ Live(e)
         /\ row[d].sum = row[e].sum /\ row[d].sum \in Content)
            => BeingJudged(d) \/ BeingJudged(e)

\* Two uploads of the same content are never both turned down as the duplicate of
\* each other: one of them stays.
Rejecting(r) ==
    req[r].loop /\ req[r].pc \in {"unlinkSource", "unlinkNormalized", "deleteRow"}
NeverBothRejected ==
    \A q, r \in Request :
        (/\ q # r /\ Rejecting(q) /\ Rejecting(r))
            => row[req[q].ds].sum # row[req[r].ds].sum

\* A dataset being uploaded or waiting for its first job does not stay so.
UploadSettles ==
    \A d \in Dataset :
        (Live(d) /\ row[d].status \in {"PENDING_UPLOAD", "UPLOADED"})
            ~> ~(Live(d) /\ row[d].status \in {"PENDING_UPLOAD", "UPLOADED"})

\* A dataset in profiling does not stay there: success and every caught failure
\* write a terminal status.
ProfilingSettles ==
    \A d \in Dataset :
        (Live(d) /\ Busy(row[d].status)) ~> ~(Live(d) /\ Busy(row[d].status))

-----------------------------------------------------------------------------
(***************************************************************************)
(* What the documentation says, and the code does not do.                  *)
(***************************************************************************)

\* README: a restart mid-profile strands a dataset, "a startup task reconciles
\* those to profiling_failed".  A startup whose reconciliation ran leaves no
\* dataset in profiling (the jobs of the old process are all dead).
StartupReconciles ==
    [][(~up /\ up' /\ row' = Reconciled)
          => \A d \in Dataset : Live(d) => ~Busy(row'[d].status)]_vars

\* create_dataset_row: "a stored file can never exist without a corresponding
\* metadata record".
FilesHaveRows == \A o \in objects : Live(o[1])

-----------------------------------------------------------------------------
\* The handlers, jobs and restarts together implement the order of statuses a
\* client may rely on.
ContractStatus ==
    [d \in Dataset |-> IF Live(d) THEN row[d].status ELSE life[d]]
Contract == INSTANCE DatasetContract WITH
    status <- ContractStatus,
    profiled <- {d \in Dataset : profile[d] > 0}
ImplementsContract == Contract!Spec
=============================================================================
