----------------------- MODULE DatasetLifecycleProofs -----------------------
(***************************************************************************)
(* Theorems of DatasetLifecycle for every number of datasets, requests,    *)
(* jobs, KPI definitions and restarts, and every configuration: types,     *)
(* statuses and definitions; then what several actors share, the files and *)
(* status columns of a row, the promises made to a polling client, and the *)
(* uploads of one file.                                                    *)
(***************************************************************************)
EXTENDS DatasetLifecycle, TLAPS

(***************************************************************************)
(* Types.  A request or job that is under way is about some dataset, one   *)
(* that was registered before it began; without this the types are not     *)
(* inductive (the object a handler stores is named after its dataset).     *)
(***************************************************************************)
Born(d) == d \in Dataset /\ life[d] # "unborn"

RequestsInv ==
    /\ req \in [Request -> RequestState]
    /\ \A r \in Request : req[r].pc # "idle" => Born(req[r].ds)

JobsInv ==
    /\ job \in [Worker -> JobState]
    /\ \A w \in Worker : job[w].pc # "idle" => Born(job[w].ds)

TypeInv == TypeOK /\ RequestsInv /\ JobsInv

LEMMA IdleTypes ==
  /\ IdleRequest \in RequestState /\ IdleRequest.pc = "idle"
  /\ IdleJob \in JobState /\ IdleJob.pc = "idle"
  BY DEF IdleRequest, RequestState, RequestPC, DatasetStatus, NormalizedKey,
         IdleJob, JobState, JobPC, Verdict

LEMMA NewRowType == NewRow("PENDING") \in Row /\ NewRow("UPLOADING") \in Row
  BY DEF NewRow, Row, DatasetStatus, UploadStatus, NormalizedKey

LEMMA RequestFields ==
  ASSUME NEW s \in RequestState
  PROVE  /\ s.pc \in RequestPC /\ s.ds \in Dataset \cup {None}
         /\ s.seen \in DatasetStatus /\ s.stored \in BOOLEAN
         /\ s.norm \in NormalizedKey /\ s.sum \in Content \cup SqlContent \cup {None}
         /\ s.kpi \in Kpi \cup {None} /\ s.was \in BOOLEAN
         /\ s.acts \in SUBSET Kpi /\ s.loop \in BOOLEAN
  BY DEF RequestState

LEMMA RowFields ==
  ASSUME NEW n \in Row
  PROVE  /\ n.status \in DatasetStatus /\ n.upload \in UploadStatus
         /\ n.stored \in BOOLEAN /\ n.norm \in NormalizedKey
         /\ n.sum \in Content \cup SqlContent \cup {None}
         /\ n.started \in {"never", "recent", "stale"}
  BY DEF Row

LEMMA JobFields ==
  ASSUME NEW j \in JobState
  PROVE  /\ j.pc \in JobPC /\ j.ds \in Dataset \cup {None}
         /\ j.seen \in DatasetStatus /\ j.stored \in BOOLEAN
         /\ j.norm \in NormalizedKey /\ j.made \in BOOLEAN
         /\ j.verdict \in Verdict /\ j.version \in Nat
  BY DEF JobState

LEMMA InitType == Init => TypeInv
  BY IdleTypes, NewRowType, ConfigAssumption
     DEF Init, TypeInv, TypeOK, RequestsInv, JobsInv

\* What a step has to show of the request or the job it moves.
LEMMA RequestGoes ==
  ASSUME RequestsInv, NEW r \in Request, NEW s \in RequestState,
         req' = [req EXCEPT ![r] = s],
         s.pc = "idle" \/ (s.ds \in Dataset /\ life'[s.ds] # "unborn"),
         \A d \in Dataset : life[d] # "unborn" => life'[d] # "unborn"
  PROVE  RequestsInv'
  BY DEF RequestsInv, Born

LEMMA JobGoes ==
  ASSUME JobsInv, NEW w \in Worker, NEW j \in JobState,
         job' = [job EXCEPT ![w] = j],
         j.pc = "idle" \/ (j.ds \in Dataset /\ life'[j.ds] # "unborn"),
         \A d \in Dataset : life[d] # "unborn" => life'[d] # "unborn"
  PROVE  JobsInv'
  BY DEF JobsInv, Born

\* Everybody else stays as good as it was when nothing is unregistered.
LEMMA OthersStay ==
  ASSUME \A d \in Dataset : life[d] # "unborn" => life'[d] # "unborn"
  PROVE  /\ RequestsInv /\ UNCHANGED req => RequestsInv'
         /\ JobsInv /\ UNCHANGED job => JobsInv'
  BY DEF RequestsInv, JobsInv, Born

LEMMA EnqueueType ==
  ASSUME JobsInv, NEW d, Born(d), Enqueue(d), UNCHANGED life
  PROVE  JobsInv'
<1>1. PICK w \in Worker : job' = [job EXCEPT ![w].pc = "queued", ![w].ds = d]
  BY DEF Enqueue
<1> DEFINE j == [job[w] EXCEPT !.pc = "queued", !.ds = d]
<1>2. job[w] \in JobState /\ d \in Dataset
  BY DEF JobsInv, Born
<1>3. j \in JobState /\ j.ds = d
  BY <1>2 DEF JobState, JobPC
<1>4. job' = [job EXCEPT ![w] = j]
  BY <1>1
<1>5. QED
  <2> HIDE DEF j
  <2> QED BY <1>2, <1>3, <1>4, JobGoes DEF Born

LEMMA ArriveType ==
  ASSUME TypeInv, NEW r \in Request, Arrive(r) PROVE TypeInv'
<1>1. PICK d \in Dataset :
         \/ BeginUpload(r, d) \/ BeginSqlSave(r, d) \/ BeginDelete(r, d)
         \/ BeginCreateKpi(r, d) \/ BeginDeleteKpi(r, d)
  BY DEF Arrive
<1>2. row[d] \in Row /\ life \in [Dataset -> {"unborn", "live", "gone"}]
  BY DEF TypeInv, TypeOK
<1> USE DEF TypeInv, TypeOK, catalogue, kpiTables, process
<1>3. CASE BeginUpload(r, d) \/ BeginSqlSave(r, d)
  <2>1. /\ life' = [life EXCEPT ![d] = "live"]
        /\ row' \in {[row EXCEPT ![d] = NewRow("PENDING")],
                     [row EXCEPT ![d] = NewRow("UPLOADING")]}
    BY <1>3 DEF BeginUpload, BeginSqlSave
  <2>2. row' \in [Dataset -> Row] /\ life' \in [Dataset -> {"unborn", "live", "gone"}]
    BY <2>1, NewRowType
  <2> DEFINE s1 == [IdleRequest EXCEPT !.pc = "created", !.ds = d, !.loop = TRUE]
             s2 == [IdleRequest EXCEPT !.pc = "sqlRun", !.ds = d]
  <2>3. s1 \in RequestState /\ s1.ds = d /\ s2 \in RequestState /\ s2.ds = d
    BY DEF IdleRequest, RequestState, RequestPC, DatasetStatus, NormalizedKey
  <2>4. req' = [req EXCEPT ![r] = s1] \/ req' = [req EXCEPT ![r] = s2]
    BY <1>3 DEF BeginUpload, BeginSqlSave
  <2>5. RequestsInv'
    <3> HIDE DEF s1, s2
    <3> QED BY <1>2, <2>1, <2>3, <2>4, RequestGoes
  <2>6. JobsInv'
    BY <1>2, <1>3, <2>1, OthersStay DEF BeginUpload, BeginSqlSave
  <2>7. QED
    BY <1>3, <2>2, <2>5, <2>6 DEF BeginUpload, BeginSqlSave, RequestsInv, JobsInv
<1>4. CASE BeginDelete(r, d) \/ BeginCreateKpi(r, d) \/ BeginDeleteKpi(r, d)
  <2> DEFINE s1 == [IdleRequest EXCEPT !.pc = "unlinkSource", !.ds = d,
                        !.stored = row[d].stored, !.norm = row[d].norm]
             s2 == [IdleRequest EXCEPT !.pc = "kpiRead", !.ds = d, !.seen = row[d].status]
             s3 == [IdleRequest EXCEPT !.pc = "kpiFind", !.ds = d, !.seen = row[d].status]
  <2>1. /\ s1 \in RequestState /\ s1.ds = d
        /\ s2 \in RequestState /\ s2.ds = d
        /\ s3 \in RequestState /\ s3.ds = d
    BY <1>2, RowFields, IdleTypes DEF IdleRequest, RequestState, RequestPC
  <2>2. /\ \/ req' = [req EXCEPT ![r] = s1] \/ req' = [req EXCEPT ![r] = s2]
           \/ req' = [req EXCEPT ![r] = s3]
        /\ life[d] # "unborn" /\ UNCHANGED <<life, job>>
    BY <1>4 DEF BeginDelete, BeginCreateKpi, BeginDeleteKpi, Live
  <2>3. RequestsInv'
    <3> HIDE DEF s1, s2, s3
    <3> QED BY <2>1, <2>2, RequestGoes
  <2>4. JobsInv'
    BY <2>2, OthersStay
  <2>5. QED
    BY <1>4, <2>3, <2>4
       DEF BeginDelete, BeginCreateKpi, BeginDeleteKpi, RequestsInv, JobsInv
<1>5. QED
  BY <1>1, <1>3, <1>4

LEMMA UploadStepType ==
  ASSUME TypeInv, NEW r \in Request, UploadStep(r) PROVE TypeInv'
<1> DEFINE d == req[r].ds
<1>0. req[r] \in RequestState /\ (req[r].pc # "idle" => Born(d))
  BY DEF TypeInv, RequestsInv
<1> USE DEF TypeInv, TypeOK, catalogue, kpiTables, process
<1>1. CASE StartStream(r)
  <2> DEFINE s == [req[r] EXCEPT !.pc = "streaming", !.loop = FALSE]
             n == [row[d] EXCEPT !.upload = "UPLOADING"]
  <2>1. s \in RequestState /\ s.ds = d /\ Born(d)
    BY <1>0, <1>1 DEF StartStream, RequestState, RequestPC
  <2>2. row[d] \in Row
    BY <2>1 DEF Born
  <2>3. n \in Row
    BY <2>2 DEF Row, UploadStatus
  <2>4. /\ req' = [req EXCEPT ![r] = s] \/ req' = [req EXCEPT ![r] = IdleRequest]
        /\ row' = [row EXCEPT ![d] = n] \/ row' = row
        /\ UNCHANGED <<life, job>>
    BY <1>1 DEF StartStream, EndRequest
  <2>5. RequestsInv' /\ JobsInv' /\ row' \in [Dataset -> Row]
    <3> HIDE DEF s, n, d
    <3> QED BY <2>1, <2>3, <2>4, IdleTypes, RequestGoes, OthersStay DEF Born
  <2>6. QED
    BY <1>1, <2>5 DEF StartStream, RequestsInv, JobsInv
<1>2. CASE \E c \in Content : StreamOk(r, c)
  <2>1. PICK c \in Content : StreamOk(r, c)
    BY <1>2
  <2> DEFINE s == [req[r] EXCEPT !.pc = "landed", !.sum = c, !.loop = TRUE]
  <2>2. s \in RequestState /\ s.ds = d /\ Born(d)
    BY <1>0, <2>1 DEF StreamOk, RequestState, RequestPC
  <2>3. req' = [req EXCEPT ![r] = s] /\ UNCHANGED <<life, job>>
    BY <2>1 DEF StreamOk
  <2>4. RequestsInv' /\ JobsInv'
    <3> HIDE DEF s, d
    <3> QED BY <2>2, <2>3, RequestGoes, OthersStay DEF Born
  <2>5. objects' \in SUBSET (Dataset \X {"source", "normalized"})
    BY <2>1, <2>2 DEF StreamOk, Born
  <2>6. QED
    BY <2>1, <2>4, <2>5 DEF StreamOk, RequestsInv, JobsInv
<1>3. CASE StreamFail(r) \/ StreamEmpty(r)
  <2> DEFINE s == [req[r] EXCEPT !.pc = "failUpload", !.loop = TRUE]
  <2>1. s \in RequestState /\ s.ds = d /\ Born(d)
    BY <1>0, <1>3 DEF StreamFail, StreamEmpty, RequestState, RequestPC
  <2>2. /\ req' = [req EXCEPT ![r] = s] \/ req' = [req EXCEPT ![r] = IdleRequest]
        /\ UNCHANGED <<life, job>>
    BY <1>3 DEF StreamFail, StreamEmpty, EndRequest
  <2>3. RequestsInv' /\ JobsInv'
    <3> HIDE DEF s, d
    <3> QED BY <2>1, <2>2, IdleTypes, RequestGoes, OthersStay DEF Born
  <2>4. objects' \in SUBSET (Dataset \X {"source", "normalized"})
    BY <1>3, <2>1 DEF StreamFail, StreamEmpty, Born
  <2>5. QED
    BY <1>3, <2>3, <2>4 DEF StreamFail, StreamEmpty, RequestsInv, JobsInv
<1>4. CASE FailUpload(r)
  <2> DEFINE n == [row[d] EXCEPT !.upload = "FAILED", !.status = "UPLOAD_FAILED"]
  <2>1. Born(d) /\ row[d] \in Row
    BY <1>0, <1>4 DEF FailUpload, Born
  <2>2. n \in Row
    BY <2>1 DEF Row, UploadStatus, DatasetStatus
  <2>3. /\ req' = [req EXCEPT ![r] = IdleRequest]
        /\ row' = [row EXCEPT ![d] = n] \/ row' = row
        /\ UNCHANGED <<life, job>>
    BY <1>4 DEF FailUpload, EndRequest
  <2>4. RequestsInv' /\ JobsInv' /\ row' \in [Dataset -> Row]
    <3> HIDE DEF n, d
    <3> QED BY <2>2, <2>3, IdleTypes, RequestGoes, OthersStay
  <2>5. QED
    BY <1>4, <2>4 DEF FailUpload, RequestsInv, JobsInv
<1>5. CASE CommitUpload(r)
  <2> DEFINE s == [req[r] EXCEPT !.pc = "finalise"]
             n == [row[d] EXCEPT !.stored = TRUE, !.sum = req[r].sum,
                                 !.upload = "STORED", !.status = "UPLOADED"]
  <2>1. s \in RequestState /\ s.ds = d /\ Born(d)
    BY <1>0, <1>5 DEF CommitUpload, RequestState, RequestPC
  <2>2. row[d] \in Row /\ req[r].sum \in Content \cup SqlContent \cup {None}
    BY <1>0, <2>1, RequestFields DEF Born
  <2>3. n \in Row
    BY <2>2 DEF Row, UploadStatus, DatasetStatus
  <2>4. /\ req' = [req EXCEPT ![r] = s] \/ req' = [req EXCEPT ![r] = IdleRequest]
        /\ row' = [row EXCEPT ![d] = n] \/ row' = row
        /\ UNCHANGED <<life, job>>
    BY <1>5 DEF CommitUpload, EndRequest, Goto
  <2>5. RequestsInv' /\ JobsInv' /\ row' \in [Dataset -> Row]
    <3> HIDE DEF s, n, d
    <3> QED BY <2>1, <2>3, <2>4, IdleTypes, RequestGoes, OthersStay DEF Born
  <2>6. QED
    BY <1>5, <2>5 DEF CommitUpload, RequestsInv, JobsInv
<1>6. CASE RejectDuplicate(r)
  <2> DEFINE s == [req[r] EXCEPT !.pc = "unlinkSource", !.stored = TRUE]
  <2>1. s \in RequestState /\ s.ds = d /\ Born(d)
    BY <1>0, <1>6 DEF RejectDuplicate, RequestState, RequestPC
  <2>2. req' = [req EXCEPT ![r] = s] /\ UNCHANGED <<life, job>>
    BY <1>6 DEF RejectDuplicate
  <2>3. RequestsInv' /\ JobsInv'
    <3> HIDE DEF s, d
    <3> QED BY <2>1, <2>2, RequestGoes, OthersStay DEF Born
  <2>4. QED
    BY <1>6, <2>3 DEF RejectDuplicate, RequestsInv, JobsInv
<1>7. CASE AcceptUpload(r)
  <2>1. /\ req' = [req EXCEPT ![r] = IdleRequest] /\ UNCHANGED life
        /\ Born(d) /\ (Enqueue(d) \/ UNCHANGED job)
    BY <1>0, <1>7 DEF AcceptUpload, EndRequest
  <2>2. RequestsInv' /\ JobsInv'
    BY <2>1, IdleTypes, RequestGoes, OthersStay, EnqueueType
  <2>3. QED
    BY <1>7, <2>2 DEF AcceptUpload, RequestsInv, JobsInv
<1>8. CASE RunSqlSave(r)
  <2>1. PICK c \in SqlContent \cup {None} :
           \/ req' = [req EXCEPT ![r].pc = "sqlLanded", ![r].sum = c]
           \/ req' = [req EXCEPT ![r].pc = "failUpload"]
    BY <1>8 DEF RunSqlSave, Goto
  <2> DEFINE s1 == [req[r] EXCEPT !.pc = "sqlLanded", !.sum = c]
             s2 == [req[r] EXCEPT !.pc = "failUpload"]
  <2>2. s1 \in RequestState /\ s1.ds = d /\ s2 \in RequestState /\ s2.ds = d
    BY <1>0, <2>1 DEF RequestState, RequestPC
  <2>3. Born(d) /\ UNCHANGED <<life, job>>
    BY <1>0, <1>8 DEF RunSqlSave
  <2>4. req' = [req EXCEPT ![r] = s1] \/ req' = [req EXCEPT ![r] = s2]
    BY <2>1
  <2>5. RequestsInv' /\ JobsInv'
    <3> HIDE DEF s1, s2, d
    <3> QED BY <2>2, <2>3, <2>4, RequestGoes, OthersStay DEF Born
  <2>6. objects' \in SUBSET (Dataset \X {"source", "normalized"})
    BY <1>8, <2>3 DEF RunSqlSave, Born
  <2>7. QED
    BY <1>8, <2>5, <2>6 DEF RunSqlSave, RequestsInv, JobsInv
<1>9. CASE CommitSqlSave(r)
  <2> DEFINE s == [req[r] EXCEPT !.pc = "failUpload"]
             n == [row[d] EXCEPT !.stored = TRUE, !.norm = "source", !.sum = req[r].sum,
                                 !.upload = "STORED", !.status = "UPLOADED"]
  <2>1. s \in RequestState /\ s.ds = d /\ Born(d)
    BY <1>0, <1>9 DEF CommitSqlSave, RequestState, RequestPC
  <2>2. row[d] \in Row /\ req[r].sum \in Content \cup SqlContent \cup {None}
    BY <1>0, <2>1, RequestFields DEF Born
  <2>3. n \in Row
    BY <2>2 DEF Row, UploadStatus, DatasetStatus, NormalizedKey
  <2>4. /\ req' = [req EXCEPT ![r] = s] \/ req' = [req EXCEPT ![r] = IdleRequest]
        /\ row' = [row EXCEPT ![d] = n] \/ row' = row
        /\ UNCHANGED life /\ (Enqueue(d) \/ UNCHANGED job)
    BY <1>9 DEF CommitSqlSave, EndRequest, Goto
  <2>5. RequestsInv' /\ JobsInv' /\ row' \in [Dataset -> Row]
    <3> HIDE DEF s, n, d
    <3> QED
      BY <2>1, <2>3, <2>4, IdleTypes, RequestGoes, OthersStay, EnqueueType DEF Born
  <2>6. QED
    BY <1>9, <2>5 DEF CommitSqlSave, RequestsInv, JobsInv
<1>10. QED
  BY <1>1, <1>2, <1>3, <1>4, <1>5, <1>6, <1>7, <1>8, <1>9 DEF UploadStep

LEMMA DeleteStepType ==
  ASSUME TypeInv, NEW r \in Request, DeleteStep(r) PROVE TypeInv'
<1> DEFINE d == req[r].ds
<1>0. req[r] \in RequestState /\ (req[r].pc # "idle" => Born(d))
  BY DEF TypeInv, RequestsInv
<1> USE DEF TypeInv, TypeOK, catalogue, kpiTables, process
<1>1. CASE UnlinkSource(r) \/ UnlinkNormalized(r)
  <2> DEFINE s1 == [req[r] EXCEPT !.pc = "unlinkNormalized"]
             s2 == [req[r] EXCEPT !.pc = "deleteRow"]
  <2>1. /\ s1 \in RequestState /\ s1.ds = d
        /\ s2 \in RequestState /\ s2.ds = d /\ Born(d)
    BY <1>0, <1>1 DEF UnlinkSource, UnlinkNormalized, RequestState, RequestPC
  <2>2. /\ req' = [req EXCEPT ![r] = s1] \/ req' = [req EXCEPT ![r] = s2]
        /\ UNCHANGED <<life, job>>
    BY <1>1 DEF UnlinkSource, UnlinkNormalized, Unlink, Goto
  <2>3. RequestsInv' /\ JobsInv'
    <3> HIDE DEF s1, s2, d
    <3> QED BY <2>1, <2>2, RequestGoes, OthersStay DEF Born
  <2>4. /\ objects' \in SUBSET (Dataset \X {"source", "normalized"})
        /\ unlinked' \in SUBSET Dataset
    BY <1>1, <2>1 DEF UnlinkSource, UnlinkNormalized, Unlink, Born
  <2>5. QED
    BY <1>1, <2>3, <2>4
       DEF UnlinkSource, UnlinkNormalized, Unlink, RequestsInv, JobsInv
<1>2. CASE DeleteRow(r)
  <2>1. /\ life' = [life EXCEPT ![d] = "gone"]
        /\ row' = [row EXCEPT ![d] = NewRow("PENDING")]
        /\ profile' = [profile EXCEPT ![d] = 0]
        /\ req' = [req EXCEPT ![r] = IdleRequest]
        /\ UNCHANGED job
    BY <1>2 DEF DeleteRow, EndRequest
  <2>2. RequestsInv' /\ JobsInv'
    BY <2>1, IdleTypes, RequestGoes, OthersStay
  <2>3. /\ life' \in [Dataset -> {"unborn", "live", "gone"}]
        /\ row' \in [Dataset -> Row]
        /\ profile' \in [Dataset -> Nat]
    BY <2>1, NewRowType
  <2>4. QED
    BY <1>2, <2>2, <2>3 DEF DeleteRow, RequestsInv, JobsInv
<1>3. QED
  BY <1>1, <1>2 DEF DeleteStep

LEMMA KpiStepType ==
  ASSUME TypeInv, NEW r \in Request, KpiStep(r) PROVE TypeInv'
<1> DEFINE d == req[r].ds
<1>0. req[r] \in RequestState /\ (req[r].pc # "idle" => Born(d))
  BY DEF TypeInv, RequestsInv
<1> USE DEF TypeInv, TypeOK, catalogue, kpiTables, process
<1>1. CASE ReadForKpi(r) \/ AbortKpi(r)
  <2> DEFINE s == [req[r] EXCEPT !.pc = "kpiCommit", !.acts = ActiveOf(d)]
  <2>1. ActiveOf(d) \in SUBSET Kpi
    BY DEF ActiveOf
  <2>2. s \in RequestState /\ s.ds = d /\ Born(d)
    BY <1>0, <1>1, <2>1 DEF ReadForKpi, AbortKpi, RequestState, RequestPC
  <2>3. /\ req' = [req EXCEPT ![r] = s] \/ req' = [req EXCEPT ![r] = IdleRequest]
        /\ UNCHANGED <<life, job>>
    BY <1>1 DEF ReadForKpi, AbortKpi, EndRequest
  <2>4. RequestsInv' /\ JobsInv'
    <3> HIDE DEF s, d
    <3> QED BY <2>2, <2>3, IdleTypes, RequestGoes, OthersStay DEF Born
  <2>5. QED
    BY <1>1, <2>4 DEF ReadForKpi, AbortKpi, RequestsInv, JobsInv
<1>2. CASE \E k \in Kpi : CommitKpi(r, k)
  <2>1. PICK k \in Kpi : CommitKpi(r, k)
    BY <1>2
  <2> DEFINE n == [row[d] EXCEPT !.status = StatusAfterCreate(r)]
  <2>2. Born(d) /\ row[d] \in Row
    BY <1>0, <2>1 DEF CommitKpi, Born
  <2>3. StatusAfterCreate(r) \in DatasetStatus
    BY <2>2, RowFields DEF StatusAfterCreate, DatasetStatus
  <2>4. n \in Row
    BY <2>2, <2>3 DEF Row
  <2>5. /\ req' = [req EXCEPT ![r] = IdleRequest]
        /\ row' = [row EXCEPT ![d] = n]
        /\ owner' = [owner EXCEPT ![k] = d]
        /\ UNCHANGED <<life, job>>
    BY <2>1 DEF CommitKpi, EndRequest
  <2>6. RequestsInv' /\ JobsInv'
    BY <2>5, IdleTypes, RequestGoes, OthersStay
  <2>7. row' \in [Dataset -> Row] /\ owner' \in [Kpi -> Dataset \cup {None}]
    <3> HIDE DEF n, d
    <3> QED BY <2>2, <2>4, <2>5 DEF Born
  <2>8. QED
    BY <2>1, <2>6, <2>7 DEF CommitKpi, RequestsInv, JobsInv
<1>3. CASE FindKpi(r)
  <2>1. CASE req' = [req EXCEPT ![r] = IdleRequest]
    BY <1>3, <2>1, IdleTypes, RequestGoes, OthersStay DEF FindKpi, RequestsInv, JobsInv
  <2>2. CASE \E k \in KpisOf(d) :
                req' = [req EXCEPT ![r].pc = "kpiDrop", ![r].kpi = k,
                                   ![r].was = (k \in active)]
    <3>1. PICK k \in KpisOf(d) :
             req' = [req EXCEPT ![r].pc = "kpiDrop", ![r].kpi = k,
                                ![r].was = (k \in active)]
      BY <2>2
    <3> DEFINE s == [req[r] EXCEPT !.pc = "kpiDrop", !.kpi = k, !.was = (k \in active)]
    <3>2. k \in Kpi /\ (k \in active) \in BOOLEAN
      BY DEF KpisOf
    <3>3. s \in RequestState /\ s.ds = d /\ Born(d)
      BY <1>0, <1>3, <3>2 DEF FindKpi, RequestState, RequestPC
    <3>4. req' = [req EXCEPT ![r] = s] /\ UNCHANGED <<life, job>>
      BY <1>3, <3>1 DEF FindKpi
    <3>5. RequestsInv' /\ JobsInv'
      <4> HIDE DEF s, d
      <4> QED BY <3>3, <3>4, RequestGoes, OthersStay DEF Born
    <3>6. QED
      BY <1>3, <3>5 DEF FindKpi, RequestsInv, JobsInv
  <2>3. QED
    BY <1>3, <2>1, <2>2 DEF FindKpi, EndRequest
<1>4. CASE DropKpi(r)
  <2> DEFINE n == [row[d] EXCEPT !.status = "PROFILED"]
  <2>1. Born(d) /\ row[d] \in Row
    BY <1>0, <1>4 DEF DropKpi, Born
  <2>2. n \in Row
    BY <2>1 DEF Row, DatasetStatus
  <2>3. /\ req' = [req EXCEPT ![r] = IdleRequest]
        /\ row' = [row EXCEPT ![d] = n] \/ row' = row
        /\ UNCHANGED <<life, job>>
    BY <1>4 DEF DropKpi, EndRequest
  <2>4. RequestsInv' /\ JobsInv' /\ row' \in [Dataset -> Row]
    <3> HIDE DEF n, d
    <3> QED BY <2>2, <2>3, IdleTypes, RequestGoes, OthersStay
  <2>5. QED
    BY <1>4, <2>4 DEF DropKpi, RequestsInv, JobsInv
<1>5. QED
  BY <1>1, <1>2, <1>3, <1>4 DEF KpiStep

LEMMA JobStepType ==
  ASSUME TypeInv, NEW w \in Worker, JobStep(w) PROVE TypeInv'
<1> DEFINE d == job[w].ds
<1>0. job[w] \in JobState /\ (job[w].pc # "idle" => Born(d))
  BY DEF TypeInv, JobsInv
<1>00. Born(d) => row[d] \in Row /\ profile[d] \in Nat
  BY DEF TypeInv, TypeOK, Born
<1> USE DEF TypeInv, TypeOK, catalogue, kpiTables, process
<1>1. CASE LoadJob(w)
  <2> DEFINE j == [job[w] EXCEPT !.pc = "loaded", !.seen = row[d].status,
                                 !.stored = row[d].stored, !.norm = row[d].norm]
  <2>1. Born(d) /\ row[d] \in Row
    BY <1>0, <1>00, <1>1 DEF LoadJob
  <2>2. j \in JobState /\ j.ds = d
    BY <1>0, <2>1, RowFields DEF JobState, JobPC
  <2>3. /\ job' = [job EXCEPT ![w] = j] \/ job' = [job EXCEPT ![w] = IdleJob]
        /\ UNCHANGED <<life, req>>
    BY <1>1 DEF LoadJob, EndJob
  <2>4. RequestsInv' /\ JobsInv'
    <3> HIDE DEF j, d
    <3> QED BY <2>1, <2>2, <2>3, IdleTypes, JobGoes, OthersStay DEF Born
  <2>5. QED
    BY <1>1, <2>4 DEF LoadJob, RequestsInv, JobsInv
<1>2. CASE StartJob(w)
  <2> DEFINE j == [job[w] EXCEPT !.pc = "reading", !.seen = "PROFILING"]
             n == [row[d] EXCEPT !.status = StatusAfterStart(w), !.started = "recent"]
  <2>1. Born(d) /\ row[d] \in Row
    BY <1>0, <1>00, <1>2 DEF StartJob
  <2>2. j \in JobState /\ j.ds = d
    BY <1>0 DEF JobState, JobPC, DatasetStatus
  <2>3. StatusAfterStart(w) \in DatasetStatus
    BY <2>1, RowFields DEF StatusAfterStart, DatasetStatus
  <2>4. n \in Row
    BY <2>1, <2>3 DEF Row
  <2>5. /\ job' = [job EXCEPT ![w] = j] \/ job' = [job EXCEPT ![w] = IdleJob]
        /\ row' = [row EXCEPT ![d] = n] \/ row' = row
        /\ UNCHANGED <<life, req>>
    BY <1>2 DEF StartJob, EndJob
  <2>6. RequestsInv' /\ JobsInv' /\ row' \in [Dataset -> Row]
    <3> HIDE DEF j, n, d
    <3> QED BY <2>1, <2>2, <2>4, <2>5, IdleTypes, JobGoes, OthersStay DEF Born
  <2>7. QED
    BY <1>2, <2>6 DEF StartJob, RequestsInv, JobsInv
<1>3. CASE ReadSource(w)
  <2>1. PICK v \in Verdict, pc \in JobPC :
           \/ job' = [job EXCEPT ![w].verdict = v, ![w].pc = pc]
           \/ job' = [job EXCEPT ![w].pc = "failing"]
    BY <1>3 DEF ReadSource, Verdict, JobPC
  <2> DEFINE j1 == [job[w] EXCEPT !.verdict = v, !.pc = pc]
             j2 == [job[w] EXCEPT !.pc = "failing"]
  <2>2. j1 \in JobState /\ j1.ds = d /\ j2 \in JobState /\ j2.ds = d
    BY <1>0, <2>1 DEF JobState, JobPC
  <2>3. /\ job' = [job EXCEPT ![w] = j1] \/ job' = [job EXCEPT ![w] = j2]
        /\ Born(d) /\ UNCHANGED <<life, req>>
    BY <1>0, <1>3, <2>1 DEF ReadSource
  <2>4. RequestsInv' /\ JobsInv'
    <3> HIDE DEF j1, j2, d
    <3> QED BY <2>2, <2>3, JobGoes, OthersStay DEF Born
  <2>5. QED
    BY <1>3, <2>4 DEF ReadSource, RequestsInv, JobsInv
<1>4. CASE Materialise(w)
  <2> DEFINE j1 == [job[w] EXCEPT !.pc = "selecting", !.made = TRUE]
             j2 == [job[w] EXCEPT !.pc = "selecting"]
  <2>1. j1 \in JobState /\ j1.ds = d /\ j2 \in JobState /\ j2.ds = d
    BY <1>0 DEF JobState, JobPC
  <2>2. /\ job' = [job EXCEPT ![w] = j1] \/ job' = [job EXCEPT ![w] = j2]
        /\ Born(d) /\ UNCHANGED <<life, req>>
    BY <1>0, <1>4 DEF Materialise
  <2>3. RequestsInv' /\ JobsInv'
    <3> HIDE DEF j1, j2, d
    <3> QED BY <2>1, <2>2, JobGoes, OthersStay DEF Born
  <2>4. objects' \in SUBSET (Dataset \X {"source", "normalized"})
    BY <1>4, <2>2 DEF Materialise, Born
  <2>5. QED
    BY <1>4, <2>3, <2>4 DEF Materialise, RequestsInv, JobsInv
<1>5. CASE SelectProfile(w)
  <2> DEFINE j == [job[w] EXCEPT !.pc = "committing", !.version = profile[d]]
  <2>1. Born(d) /\ profile[d] \in Nat
    BY <1>0, <1>00, <1>5 DEF SelectProfile
  <2>2. j \in JobState /\ j.ds = d
    BY <1>0, <2>1 DEF JobState, JobPC
  <2>3. job' = [job EXCEPT ![w] = j] /\ UNCHANGED <<life, req>>
    BY <1>5 DEF SelectProfile
  <2>4. RequestsInv' /\ JobsInv'
    <3> HIDE DEF j, d
    <3> QED BY <2>1, <2>2, <2>3, JobGoes, OthersStay DEF Born
  <2>5. QED
    BY <1>5, <2>4 DEF SelectProfile, RequestsInv, JobsInv
<1>6. CASE CommitProfile(w)
  <2> DEFINE j == [job[w] EXCEPT !.pc = "failing"]
             n == [row[d] EXCEPT !.status = StatusAfterProfile(w),
                                 !.norm = NormAfterProfile(w)]
  <2>1. Born(d) /\ row[d] \in Row /\ profile[d] \in Nat
    BY <1>0, <1>00, <1>6 DEF CommitProfile
  <2>2. j \in JobState /\ j.ds = d /\ job[w].version \in Nat
    BY <1>0 DEF JobState, JobPC
  <2>3. StatusAfterProfile(w) \in DatasetStatus /\ NormAfterProfile(w) \in NormalizedKey
    BY <1>0, <2>1, RowFields, JobFields
       DEF StatusAfterProfile, NormAfterProfile, DatasetStatus, NormalizedKey, Verdict
  <2>4. n \in Row
    BY <2>1, <2>3 DEF Row
  <2>5. /\ job' = [job EXCEPT ![w] = j] \/ job' = [job EXCEPT ![w] = IdleJob]
        /\ row' = [row EXCEPT ![d] = n] \/ row' = row
        /\ profile' = [profile EXCEPT ![d] = job[w].version + 1] \/ profile' = profile
        /\ UNCHANGED <<life, req>>
    BY <1>6 DEF CommitProfile, EndJob
  <2>6. /\ RequestsInv' /\ JobsInv' /\ row' \in [Dataset -> Row]
        /\ profile' \in [Dataset -> Nat]
    <3> HIDE DEF j, n, d
    <3> QED BY <2>1, <2>2, <2>4, <2>5, IdleTypes, JobGoes, OthersStay DEF Born
  <2>7. QED
    BY <1>6, <2>6 DEF CommitProfile, RequestsInv, JobsInv
<1>7. CASE FailJob(w)
  <2> DEFINE n == [row[d] EXCEPT !.status = "PROFILING_FAILED"]
  <2>1. Born(d) /\ row[d] \in Row
    BY <1>0, <1>00, <1>7 DEF FailJob
  <2>2. n \in Row
    BY <2>1 DEF Row, DatasetStatus
  <2>3. /\ job' = [job EXCEPT ![w] = IdleJob]
        /\ row' = [row EXCEPT ![d] = n] \/ row' = row
        /\ UNCHANGED <<life, req>>
    BY <1>7 DEF FailJob, EndJob
  <2>4. RequestsInv' /\ JobsInv' /\ row' \in [Dataset -> Row]
    <3> HIDE DEF n, d
    <3> QED BY <2>2, <2>3, IdleTypes, JobGoes, OthersStay
  <2>5. QED
    BY <1>7, <2>4 DEF FailJob, RequestsInv, JobsInv
<1>8. QED
  BY <1>1, <1>2, <1>3, <1>4, <1>5, <1>6, <1>7 DEF JobStep

LEMMA NextType ==
  ASSUME TypeInv, [Next]_vars PROVE TypeInv'
<1> USE DEF TypeInv, TypeOK, catalogue, kpiTables, process
<1>1. CASE \E r \in Request : Arrive(r) \/ RequestStep(r)
  BY <1>1, ArriveType, UploadStepType, DeleteStepType, KpiStepType DEF RequestStep
<1>2. CASE \E w \in Worker : JobStep(w)
  BY <1>2, JobStepType
<1>3. CASE \E d \in Dataset : Regenerate(d)
  <2>1. PICK d \in Dataset : Regenerate(d)
    BY <1>3
  <2>2. Born(d) /\ Enqueue(d) /\ UNCHANGED <<life, req>>
    BY <2>1 DEF Regenerate, Live, Born
  <2>3. RequestsInv' /\ JobsInv'
    BY <2>2, EnqueueType, OthersStay
  <2>4. QED
    BY <2>1, <2>3 DEF Regenerate, RequestsInv, JobsInv
<1>4. CASE \E d \in Dataset : Age(d)
  <2>1. PICK d \in Dataset : Age(d)
    BY <1>4
  <2> DEFINE n == [row[d] EXCEPT !.started = "stale"]
  <2>2. n \in Row
    BY DEF Row
  <2>3. row' = [row EXCEPT ![d] = n] /\ UNCHANGED <<life, req, job>>
    BY <2>1 DEF Age
  <2>4. RequestsInv' /\ JobsInv' /\ row' \in [Dataset -> Row]
    BY <2>2, <2>3, OthersStay
  <2>5. QED
    BY <2>1, <2>4 DEF Age
<1>5. CASE Die
  <2>1. RequestsInv' /\ JobsInv'
    BY <1>5, IdleTypes DEF Die, RequestsInv, JobsInv
  <2>2. restarts' \in 0..MaxRestarts
    BY <1>5, ConfigAssumption DEF Die
  <2>3. QED
    BY <1>5, <2>1, <2>2 DEF Die, RequestsInv, JobsInv
<1>6. CASE Boot
  <2>1. Reconciled \in [Dataset -> Row]
    BY DEF Reconciled, Row, DatasetStatus
  <2>2. RequestsInv' /\ JobsInv'
    BY <1>6, OthersStay DEF Boot
  <2>3. QED
    BY <1>6, <2>1, <2>2 DEF Boot
<1>7. CASE UNCHANGED vars
  BY <1>7 DEF vars, RequestsInv, JobsInv, Born
<1>8. QED
  BY <1>1, <1>2, <1>3, <1>4, <1>5, <1>6, <1>7 DEF Next

LEMMA TypeInvariant == Spec => []TypeInv
<1>1. Init => TypeInv
  BY InitType
<1>2. TypeInv /\ [Next]_vars => TypeInv'
  BY NextType
<1>3. QED
  BY <1>1, <1>2, PTL DEF Spec

\* Every variable keeps its type, whatever the handlers, jobs and restarts do to
\* each other.
THEOREM TypeCorrect == Spec => []TypeOK
<1>1. TypeInv => TypeOK
  BY DEF TypeInv
<1>2. QED
  BY <1>1, TypeInvariant, PTL

-----------------------------------------------------------------------------
(***************************************************************************)
(* KPI definitions and profiles: a dataset has at most one active          *)
(* definition, and no status promises a profile that is not there.         *)
(*                                                                         *)
(* Neither property is inductive.  A configure call that passed its check  *)
(* for a profile commits later: that the profile is still there then rests *)
(* on profiles only disappearing with their dataset (Configuring).  A      *)
(* definition that is deleted resets the status: that there is a profile   *)
(* rests on definitions being deleted with their dataset (Owned).          *)
(***************************************************************************)

Settled == {"PROFILED", "ANALYSIS_READY", "BLOCKED"}

\* A definition belongs to a dataset that exists and has a profile.
Owned ==
    /\ active \subseteq kpis
    /\ \A k \in kpis :
          owner[k] \in Dataset /\ Live(owner[k]) /\ profile[owner[k]] > 0

Profiled(d) == Live(d) => profile[d] > 0

\* A request that is about to write a status has seen a profile.
ConfiguringPC == {"kpiCommit", "kpiDrop"}
Configuring ==
    \A r \in Request : req[r].pc \in ConfiguringPC => Profiled(req[r].ds)

KpiInv == Owned /\ Configuring /\ OneActiveKpi /\ SettledHasProfile

LEMMA KpiInit == Init => KpiInv
  BY DEF Init, KpiInv, Owned, Configuring, ConfiguringPC, OneActiveKpi,
         SettledHasProfile, Live, IdleRequest

\* Steps that leave the KPI tables and the profiles alone.
LEMMA KpiFrame ==
  ASSUME TypeInv, KpiInv,
         UNCHANGED <<life, profile, owner, kpis, active>>,
         \A d \in Dataset :
            row'[d].status \in Settled => row[d].status \in Settled \/ profile[d] > 0,
         \A r \in Request :
            req'[r] = req[r] \/ req'[r].pc \notin ConfiguringPC \/ Profiled(req'[r].ds)
  PROVE  KpiInv'
<1>1. Owned' /\ OneActiveKpi'
  BY DEF KpiInv, Owned, OneActiveKpi, Live
<1>2. Configuring'
  BY DEF KpiInv, Configuring, Profiled, Live
<1>3. SettledHasProfile'
  BY DEF KpiInv, SettledHasProfile, Settled, Live, TypeInv, TypeOK
<1>4. QED
  BY <1>1, <1>2, <1>3 DEF KpiInv

\* A request that ends, or goes on anywhere but to a KPI commit.
LEMMA RequestLeaves ==
  ASSUME TypeInv, NEW r \in Request, NEW s, req' = [req EXCEPT ![r] = s],
         s.pc \notin ConfiguringPC \/ Profiled(s.ds)
  PROVE  \A q \in Request :
            req'[q] = req[q] \/ req'[q].pc \notin ConfiguringPC \/ Profiled(req'[q].ds)
  BY DEF TypeInv, TypeOK

LEMMA ArriveKpi ==
  ASSUME TypeInv, KpiInv, NEW r \in Request, Arrive(r) PROVE KpiInv'
<1>1. PICK d \in Dataset :
         \/ BeginUpload(r, d) \/ BeginSqlSave(r, d) \/ BeginDelete(r, d)
         \/ BeginCreateKpi(r, d) \/ BeginDeleteKpi(r, d)
  BY DEF Arrive
<1> DEFINE s1 == [IdleRequest EXCEPT !.pc = "created", !.ds = d, !.loop = TRUE]
           s2 == [IdleRequest EXCEPT !.pc = "sqlRun", !.ds = d]
           s3 == [IdleRequest EXCEPT !.pc = "unlinkSource", !.ds = d,
                        !.stored = row[d].stored, !.norm = row[d].norm]
           s4 == [IdleRequest EXCEPT !.pc = "kpiRead", !.ds = d, !.seen = row[d].status]
           s5 == [IdleRequest EXCEPT !.pc = "kpiFind", !.ds = d, !.seen = row[d].status]
<1>2. PICK s \in {s1, s2, s3, s4, s5} :
         req' = [req EXCEPT ![r] = s] /\ s.pc \notin ConfiguringPC
  <2>1. \A s \in {s1, s2, s3, s4, s5} : s.pc \notin ConfiguringPC
    BY ZenonT(40) DEF IdleRequest, ConfiguringPC
  <2>2. \E s \in {s1, s2, s3, s4, s5} : req' = [req EXCEPT ![r] = s]
    BY <1>1 DEF BeginUpload, BeginSqlSave, BeginDelete, BeginCreateKpi, BeginDeleteKpi
  <2>3. QED
    BY <2>1, <2>2
<1> HIDE DEF s1, s2, s3, s4, s5
<1>3. \A q \in Request :
         req'[q] = req[q] \/ req'[q].pc \notin ConfiguringPC \/ Profiled(req'[q].ds)
  BY <1>2, RequestLeaves
<1>4. CASE BeginUpload(r, d) \/ BeginSqlSave(r, d)
  <2>1. /\ life[d] = "unborn" /\ life' = [life EXCEPT ![d] = "live"]
        /\ \E u : row' = [row EXCEPT ![d] = NewRow(u)]
        /\ UNCHANGED <<profile, owner, kpis, active>>
    BY <1>4 DEF BeginUpload, BeginSqlSave, kpiTables
  <2>2. Owned' /\ OneActiveKpi'
    BY <2>1 DEF KpiInv, Owned, OneActiveKpi, Live, TypeInv, TypeOK
  <2>3. \A q \in Request : req[q].pc # "idle" => req[q].ds # d
    BY <2>1 DEF TypeInv, RequestsInv, Born
  <2>4. Configuring'
    <3>1. ASSUME NEW q \in Request, req'[q].pc \in ConfiguringPC
          PROVE  Profiled(req[q].ds)'
      <4>1. req'[q] = req[q] /\ req[q].pc \in ConfiguringPC /\ req[q].ds # d
        BY <1>2, <2>3, <3>1 DEF TypeInv, TypeOK, ConfiguringPC
      <4>2. QED
        BY <2>1, <4>1 DEF KpiInv, Configuring, Profiled, Live, TypeInv, TypeOK
    <3>2. QED
      BY <3>1 DEF Configuring
  <2>5. SettledHasProfile'
    BY <2>1 DEF KpiInv, SettledHasProfile, NewRow, Live, TypeInv, TypeOK
  <2>6. QED
    BY <2>2, <2>4, <2>5 DEF KpiInv
<1>5. CASE BeginDelete(r, d) \/ BeginCreateKpi(r, d) \/ BeginDeleteKpi(r, d)
  BY <1>3, <1>5, KpiFrame
     DEF BeginDelete, BeginCreateKpi, BeginDeleteKpi, catalogue, kpiTables
<1>6. QED
  BY <1>1, <1>4, <1>5

\* An upload never heads for a KPI commit and never writes a settled status.
LEMMA UploadStepKpi ==
  ASSUME TypeInv, KpiInv, NEW r \in Request, UploadStep(r) PROVE KpiInv'
<1> DEFINE Elsewhere ==
              \A q \in Request : req'[q] = req[q] \/ req'[q].pc \notin ConfiguringPC
           Unsettled ==
              \A d \in Dataset :
                 row'[d].status = row[d].status \/ row'[d].status \notin Settled
<1>1. CASE StartStream(r)
  <2>1. Elsewhere
    BY <1>1 DEF StartStream, EndRequest, IdleRequest, ConfiguringPC, TypeInv, TypeOK,
                RequestState
  <2>2. Unsettled
    BY <1>1 DEF StartStream, TypeInv, TypeOK, Row
  <2>3. QED
    BY <1>1, <2>1, <2>2, KpiFrame DEF StartStream, kpiTables
<1>2. CASE \E c \in Content : StreamOk(r, c)
  <2>1. PICK c \in Content : StreamOk(r, c)
    BY <1>2
  <2>2. Elsewhere
    BY <2>1 DEF StreamOk, ConfiguringPC, TypeInv, TypeOK, RequestState
  <2>3. QED
    BY <2>1, <2>2, KpiFrame DEF StreamOk, catalogue, kpiTables
<1>3. CASE StreamFail(r) \/ StreamEmpty(r)
  <2>1. Elsewhere
    BY <1>3 DEF StreamFail, StreamEmpty, EndRequest, IdleRequest, ConfiguringPC,
                TypeInv, TypeOK, RequestState
  <2>2. QED
    BY <1>3, <2>1, KpiFrame DEF StreamFail, StreamEmpty, catalogue, kpiTables
<1>4. CASE FailUpload(r)
  <2>1. Elsewhere
    BY <1>4 DEF FailUpload, EndRequest, IdleRequest, ConfiguringPC, TypeInv, TypeOK
  <2>2. Unsettled
    BY <1>4 DEF FailUpload, TypeInv, TypeOK, Row, Settled
  <2>3. QED
    BY <1>4, <2>1, <2>2, KpiFrame DEF FailUpload, kpiTables
<1>5. CASE CommitUpload(r)
  <2>1. Elsewhere
    BY <1>5 DEF CommitUpload, Goto, EndRequest, IdleRequest, ConfiguringPC,
                TypeInv, TypeOK, RequestState
  <2>2. Unsettled
    <3> DEFINE d == req[r].ds
               n == [row[d] EXCEPT !.stored = TRUE, !.sum = req[r].sum,
                                   !.upload = "STORED", !.status = "UPLOADED"]
    <3>1. (row' = row \/ row' = [row EXCEPT ![d] = n]) /\ d \in Dataset
      BY <1>5 DEF CommitUpload, TypeInv, RequestsInv, Born
    <3>2. n.status = "UPLOADED"
      BY <3>1 DEF TypeInv, TypeOK, Row
    <3> HIDE DEF d, n
    <3>3. QED
      BY <3>1, <3>2 DEF TypeInv, TypeOK, Settled
  <2>3. QED
    BY <1>5, <2>1, <2>2, KpiFrame DEF CommitUpload, kpiTables
<1>6. CASE RejectDuplicate(r)
  <2>1. Elsewhere
    BY <1>6 DEF RejectDuplicate, ConfiguringPC, TypeInv, TypeOK, RequestState
  <2>2. QED
    BY <1>6, <2>1, KpiFrame DEF RejectDuplicate, catalogue, kpiTables
<1>7. CASE AcceptUpload(r)
  <2>1. Elsewhere
    BY <1>7 DEF AcceptUpload, EndRequest, IdleRequest, ConfiguringPC, TypeInv, TypeOK
  <2>2. QED
    BY <1>7, <2>1, KpiFrame DEF AcceptUpload, catalogue, kpiTables
<1>8. CASE RunSqlSave(r)
  <2>1. Elsewhere
    BY <1>8 DEF RunSqlSave, Goto, ConfiguringPC, TypeInv, TypeOK, RequestState
  <2>2. QED
    BY <1>8, <2>1, KpiFrame DEF RunSqlSave, catalogue, kpiTables
<1>9. CASE CommitSqlSave(r)
  <2>1. Elsewhere
    BY <1>9 DEF CommitSqlSave, Goto, EndRequest, IdleRequest, ConfiguringPC,
                TypeInv, TypeOK, RequestState
  <2>2. Unsettled
    <3> DEFINE d == req[r].ds
               n == [row[d] EXCEPT !.stored = TRUE, !.norm = "source", !.sum = req[r].sum,
                                   !.upload = "STORED", !.status = "UPLOADED"]
    <3>1. (row' = row \/ row' = [row EXCEPT ![d] = n]) /\ d \in Dataset
      BY <1>9 DEF CommitSqlSave, TypeInv, RequestsInv, Born
    <3>2. n.status = "UPLOADED"
      BY <3>1 DEF TypeInv, TypeOK, Row
    <3> HIDE DEF d, n
    <3>3. QED
      BY <3>1, <3>2 DEF TypeInv, TypeOK, Settled
  <2>3. QED
    BY <1>9, <2>1, <2>2, KpiFrame DEF CommitSqlSave, kpiTables
<1>10. QED
  BY <1>1, <1>2, <1>3, <1>4, <1>5, <1>6, <1>7, <1>8, <1>9 DEF UploadStep

\* Deleting a dataset takes its profile, its definitions and its active one along.
LEMMA DeleteStepKpi ==
  ASSUME TypeInv, KpiInv, NEW r \in Request, DeleteStep(r) PROVE KpiInv'
<1>1. CASE UnlinkSource(r) \/ UnlinkNormalized(r)
  <2>1. \A q \in Request : req'[q] = req[q] \/ req'[q].pc \notin ConfiguringPC
    BY <1>1 DEF UnlinkSource, UnlinkNormalized, Unlink, Goto, ConfiguringPC,
                TypeInv, TypeOK, RequestState
  <2>2. QED
    BY <1>1, <2>1, KpiFrame
       DEF UnlinkSource, UnlinkNormalized, Unlink, catalogue, kpiTables
<1>2. CASE DeleteRow(r)
  <2> DEFINE d == req[r].ds
  <2>1. /\ life' = [life EXCEPT ![d] = "gone"]
        /\ row' = [row EXCEPT ![d] = NewRow("PENDING")]
        /\ profile' = [profile EXCEPT ![d] = 0]
        /\ kpis' = kpis \ KpisOf(d) /\ active' = active \ KpisOf(d)
        /\ owner' = owner /\ req' = [req EXCEPT ![r] = IdleRequest]
    BY <1>2 DEF DeleteRow, EndRequest
  <2>2. Owned' /\ OneActiveKpi'
    <3> HIDE DEF d
    <3> QED
      BY <2>1 DEF KpiInv, Owned, OneActiveKpi, KpisOf, Live, TypeInv, TypeOK
  <2>3. Configuring'
    <3>1. ASSUME NEW q \in Request, req'[q].pc \in ConfiguringPC
          PROVE  Profiled(req[q].ds)'
      <4>1. req'[q] = req[q] /\ req[q].pc \in ConfiguringPC /\ Born(req[q].ds)
        BY <2>1, <3>1 DEF TypeInv, TypeOK, RequestsInv, ConfiguringPC, IdleRequest
      <4> HIDE DEF d
      <4>2. QED
        BY <2>1, <4>1 DEF KpiInv, Configuring, Profiled, Live, Born, TypeInv, TypeOK
    <3>2. QED
      BY <3>1 DEF Configuring
  <2>4. SettledHasProfile'
    <3> HIDE DEF d
    <3> QED
      BY <2>1 DEF KpiInv, SettledHasProfile, NewRow, Live, TypeInv, TypeOK
  <2>5. QED
    BY <2>2, <2>3, <2>4 DEF KpiInv
<1>3. QED
  BY <1>1, <1>2 DEF DeleteStep

LEMMA KpiStepKpi ==
  ASSUME TypeInv, KpiInv, NEW r \in Request, KpiStep(r) PROVE KpiInv'
<1> DEFINE d == req[r].ds
<1>0. req[r].pc # "idle" => Born(d)
  BY DEF TypeInv, RequestsInv
<1>1. CASE ReadForKpi(r) \/ AbortKpi(r)
  <2>1. \A q \in Request :
           req'[q] = req[q] \/ req'[q].pc \notin ConfiguringPC \/ Profiled(req'[q].ds)
    BY <1>1 DEF ReadForKpi, AbortKpi, EndRequest, IdleRequest, ConfiguringPC, Profiled,
                TypeInv, TypeOK, RequestState
  <2>2. QED
    BY <1>1, <2>1, KpiFrame DEF ReadForKpi, AbortKpi, catalogue, kpiTables
<1>2. CASE \E k \in Kpi : CommitKpi(r, k)
  <2>1. PICK k \in Kpi : CommitKpi(r, k)
    BY <1>2
  <2>2. /\ req[r].pc = "kpiCommit" /\ owner[k] = None /\ ~CreateConflicts(r)
        /\ owner' = [owner EXCEPT ![k] = d]
        /\ kpis' = kpis \cup {k}
        /\ active' = (active \ req[r].acts) \cup {k}
        /\ row' = [row EXCEPT ![d].status = StatusAfterCreate(r)]
        /\ req' = [req EXCEPT ![r] = IdleRequest]
        /\ UNCHANGED <<life, profile>>
    BY <2>1 DEF CommitKpi, EndRequest
  <2>3. d \in Dataset /\ Live(d) /\ profile[d] > 0 /\ k \notin kpis
    <3>1. Born(d) /\ Live(d) /\ Profiled(d)
      BY <1>0, <2>2 DEF CreateConflicts, KpiInv, Configuring, ConfiguringPC
    <3>2. QED
      BY <2>2, <3>1, NoneAssumption DEF KpiInv, Owned, Profiled, Born
  <2> HIDE DEF d
  <2>4. Owned'
    BY <2>2, <2>3 DEF KpiInv, Owned, Live, TypeInv, TypeOK
  <2>5. OneActiveKpi'
    <3>1. ASSUME NEW j \in active', j # k PROVE owner'[j] # d
      <4>1. j \in active /\ j \notin req[r].acts /\ owner'[j] = owner[j]
        BY <2>2, <3>1 DEF TypeInv, TypeOK
      <4>2. j \in kpis
        BY <4>1 DEF KpiInv, Owned
      <4>3. j \notin ActiveOf(d)
        BY <2>2, <4>1 DEF CreateConflicts, d
      <4>4. QED
        BY <4>1, <4>2, <4>3 DEF ActiveOf, KpisOf
    <3>2. ASSUME NEW i \in active', NEW j \in active', owner'[i] = owner'[j],
                 i # k, j # k
          PROVE  i = j
      BY <2>2, <3>2 DEF KpiInv, OneActiveKpi, TypeInv, TypeOK
    <3>3. owner'[k] = d
      BY <2>2 DEF TypeInv, TypeOK
    <3>4. QED
      BY <3>1, <3>2, <3>3 DEF OneActiveKpi
  <2>6. Configuring'
    BY <2>2 DEF KpiInv, Configuring, ConfiguringPC, Profiled, Live, IdleRequest,
                TypeInv, TypeOK
  <2>7. SettledHasProfile'
    BY <2>2, <2>3 DEF KpiInv, SettledHasProfile, Live, TypeInv, TypeOK
  <2>8. QED
    BY <2>4, <2>5, <2>6, <2>7 DEF KpiInv
<1>3. CASE FindKpi(r)
  <2>1. KpisOf(d) # {} => Profiled(d)
    BY DEF KpisOf, KpiInv, Owned, Profiled
  <2>2. \A q \in Request :
           req'[q] = req[q] \/ req'[q].pc \notin ConfiguringPC \/ Profiled(req'[q].ds)
    <3>1. CASE req' = [req EXCEPT ![r] = IdleRequest]
      BY <3>1 DEF IdleRequest, ConfiguringPC, TypeInv, TypeOK
    <3>2. CASE \E k \in KpisOf(d) :
                  req' = [req EXCEPT ![r].pc = "kpiDrop", ![r].kpi = k,
                                     ![r].was = (k \in active)]
      <4>1. PICK k \in KpisOf(d) :
               req' = [req EXCEPT ![r].pc = "kpiDrop", ![r].kpi = k,
                                  ![r].was = (k \in active)]
        BY <3>2
      <4>2. \A q \in Request : q # r => req'[q] = req[q]
        BY <4>1 DEF TypeInv, TypeOK
      <4>3. req'[r].ds = d
        BY <4>1 DEF TypeInv, TypeOK, RequestState
      <4>4. QED
        BY <2>1, <4>2, <4>3
    <3>3. QED
      BY <1>3, <3>1, <3>2 DEF FindKpi, EndRequest
  <2>3. QED
    BY <1>3, <2>2, KpiFrame DEF FindKpi, catalogue, kpiTables
<1>4. CASE DropKpi(r)
  <2>1. /\ kpis' \subseteq kpis /\ active' \subseteq active
        /\ active' \subseteq kpis'
        /\ row' = row \/ (Live(d) /\ row' = [row EXCEPT ![d].status = "PROFILED"])
        /\ req' = [req EXCEPT ![r] = IdleRequest]
        /\ UNCHANGED <<life, profile, owner>>
    BY <1>4 DEF DropKpi, EndRequest, KpiInv, Owned
  <2>2. Profiled(d) /\ d \in Dataset
    BY <1>0, <1>4 DEF DropKpi, KpiInv, Configuring, ConfiguringPC, Born
  <2> HIDE DEF d
  <2>3. Owned' /\ OneActiveKpi'
    BY <2>1 DEF KpiInv, Owned, OneActiveKpi, Live
  <2>4. Configuring'
    BY <2>1 DEF KpiInv, Configuring, ConfiguringPC, Profiled, Live, IdleRequest,
                TypeInv, TypeOK
  <2>5. SettledHasProfile'
    BY <2>1, <2>2 DEF KpiInv, SettledHasProfile, Profiled, Live, TypeInv, TypeOK
  <2>6. QED
    BY <2>3, <2>4, <2>5 DEF KpiInv
<1>5. QED
  BY <1>1, <1>2, <1>3, <1>4 DEF KpiStep

\* A job writes a settled status only together with the profile.
LEMMA JobStepKpi ==
  ASSUME TypeInv, KpiInv, NEW w \in Worker, JobStep(w) PROVE KpiInv'
<1> DEFINE d == job[w].ds
<1>0. job[w] \in JobState /\ (job[w].pc # "idle" => Born(d))
  BY DEF TypeInv, JobsInv
<1>1. CASE LoadJob(w) \/ ReadSource(w) \/ Materialise(w) \/ SelectProfile(w)
  BY <1>1, KpiFrame
     DEF LoadJob, ReadSource, Materialise, SelectProfile, catalogue, kpiTables
<1>2. CASE StartJob(w)
  <2> DEFINE n == [row[d] EXCEPT !.status = StatusAfterStart(w), !.started = "recent"]
  <2>1. (row' = row \/ row' = [row EXCEPT ![d] = n]) /\ d \in Dataset
    BY <1>0, <1>2 DEF StartJob, Born
  <2>2. n.status \in {row[d].status, "PROFILING"}
    BY <2>1 DEF StatusAfterStart, TypeInv, TypeOK, Row
  <2>3. \A e \in Dataset : row'[e].status \in {row[e].status, "PROFILING"}
    <3> HIDE DEF d, n
    <3> QED BY <2>1, <2>2 DEF TypeInv, TypeOK
  <2>4. QED
    BY <1>2, <2>3, KpiFrame DEF StartJob, kpiTables, Settled
<1>3. CASE CommitProfile(w)
  <2> DEFINE n == [row[d] EXCEPT !.status = StatusAfterProfile(w),
                                 !.norm = NormAfterProfile(w)]
  <2>1. /\ \/ UNCHANGED <<row, profile>>
           \/ /\ row' = [row EXCEPT ![d] = n]
              /\ profile' = [profile EXCEPT ![d] = job[w].version + 1]
        /\ d \in Dataset /\ job[w].version \in Nat
        /\ UNCHANGED <<life, owner, kpis, active, req>>
    BY <1>0, <1>3, JobFields DEF CommitProfile, Born, kpiTables
  <2> HIDE DEF d, n
  <2>2. \A e \in Dataset : profile'[e] = profile[e] \/ profile'[e] > 0
    BY <2>1 DEF TypeInv, TypeOK
  <2>3. \A e \in Dataset : row'[e] = row[e] \/ profile'[e] > 0
    BY <2>1 DEF TypeInv, TypeOK
  <2>4. Owned' /\ OneActiveKpi'
    BY <2>1, <2>2 DEF KpiInv, Owned, OneActiveKpi, Live
  <2>5. Configuring'
    BY <2>1, <2>2 DEF KpiInv, Configuring, ConfiguringPC, Profiled, Live, TypeInv,
                      RequestsInv, Born
  <2>6. SettledHasProfile'
    BY <2>1, <2>2, <2>3 DEF KpiInv, SettledHasProfile, Live
  <2>7. QED
    BY <2>4, <2>5, <2>6 DEF KpiInv
<1>4. CASE FailJob(w)
  <2>1. \A e \in Dataset : row'[e].status \in {row[e].status, "PROFILING_FAILED"}
    BY <1>0, <1>4 DEF FailJob, TypeInv, TypeOK, Row, Born
  <2>2. QED
    BY <1>4, <2>1, KpiFrame DEF FailJob, kpiTables, Settled
<1>5. QED
  BY <1>1, <1>2, <1>3, <1>4 DEF JobStep

LEMMA NextKpi ==
  ASSUME TypeInv, KpiInv, [Next]_vars PROVE KpiInv'
<1>1. CASE \E r \in Request : Arrive(r) \/ RequestStep(r)
  BY <1>1, ArriveKpi, UploadStepKpi, DeleteStepKpi, KpiStepKpi DEF RequestStep
<1>2. CASE \E w \in Worker : JobStep(w)
  BY <1>2, JobStepKpi
<1>3. CASE \E d \in Dataset : Regenerate(d)
  BY <1>3, KpiFrame DEF Regenerate, catalogue, kpiTables
<1>4. CASE \E d \in Dataset : Age(d)
  <2>1. \A e \in Dataset : row'[e].status = row[e].status
    BY <1>4 DEF Age, TypeInv, TypeOK, Row
  <2>2. QED
    BY <1>4, <2>1, KpiFrame DEF Age, kpiTables
<1>5. CASE Die
  BY <1>5, KpiFrame DEF Die, catalogue, kpiTables, IdleRequest, ConfiguringPC
<1>6. CASE Boot
  <2>1. \A e \in Dataset : row'[e].status \in {row[e].status, "PROFILING_FAILED"}
    BY <1>6 DEF Boot, Reconciled, TypeInv, TypeOK, Row
  <2>2. QED
    BY <1>6, <2>1, KpiFrame DEF Boot, kpiTables, Settled
<1>7. CASE UNCHANGED vars
  BY <1>7, KpiFrame DEF vars, catalogue, kpiTables
<1>8. QED
  BY <1>1, <1>2, <1>3, <1>4, <1>5, <1>6, <1>7 DEF Next

LEMMA KpiInvariant == Spec => []KpiInv
<1>1. Init => KpiInv
  BY KpiInit
<1>2. TypeInv /\ KpiInv /\ [Next]_vars => KpiInv'
  BY NextKpi
<1>3. QED
  BY <1>1, <1>2, TypeInvariant, PTL DEF Spec

\* However many configure calls overlap, with each other, with deletes and with
\* restarts, a dataset never has two active definitions.
THEOREM AtMostOneActive == Spec => []OneActiveKpi
<1>1. KpiInv => OneActiveKpi
  BY DEF KpiInv
<1>2. QED
  BY <1>1, KpiInvariant, PTL

\* A dataset that says it is profiled, blocked or ready has a profile to show.
THEOREM SettledIsProfiled == Spec => []SettledHasProfile
<1>1. KpiInv => SettledHasProfile
  BY DEF KpiInv
<1>2. QED
  BY <1>1, KpiInvariant, PTL

(***************************************************************************)
(* One request at a time.  A dataset then says ANALYSIS_READY only while   *)
(* it has an active definition.  What a KPI request has read is still true *)
(* when it commits: nobody but itself activates or configures.             *)
(***************************************************************************)
Serial == \A q, r \in Request : q = r
KpiPC == {"kpiFind", "kpiDrop", "kpiCommit"}

KnowsKpi(s) ==
    /\ s.pc \in {"kpiFind", "kpiDrop"} /\ Live(s.ds)
          /\ row[s.ds].status = "ANALYSIS_READY" => s.seen = "ANALYSIS_READY"
    /\ s.pc = "kpiDrop" => owner[s.kpi] = s.ds /\ (~s.was => s.kpi \notin active)
    /\ s.pc = "kpiCommit" => \A k \in s.acts : owner[k] = s.ds

ReadyInv == ReadyHasActiveKpi /\ \A r \in Request : KnowsKpi(req[r])

LEMMA ReadyInit == Init => ReadyInv
  BY DEF Init, ReadyInv, ReadyHasActiveKpi, KnowsKpi, IdleRequest, Live

\* Steps that configure nothing and leave the KPI tables alone.
LEMMA ReadyFrame ==
  ASSUME TypeInv, ReadyInv, UNCHANGED kpiTables,
         \A d \in Dataset : Live(d)' /\ row'[d].status = "ANALYSIS_READY"
            => Live(d) /\ row[d].status = "ANALYSIS_READY",
         \A r \in Request :
            req'[r] = req[r] \/ req'[r].pc \notin KpiPC \/ KnowsKpi(req[r])'
  PROVE  ReadyInv'
<1>1. ReadyHasActiveKpi'
  BY DEF ReadyInv, ReadyHasActiveKpi, ActiveOf, KpisOf, kpiTables
<1>2. ASSUME NEW r \in Request PROVE KnowsKpi(req[r])'
  <2>1. CASE req'[r] = req[r]
    <3>1. req[r].pc # "idle" => req[r].ds \in Dataset
      BY DEF TypeInv, RequestsInv, Born
    <3>2. QED
      BY <2>1, <3>1 DEF ReadyInv, KnowsKpi, kpiTables
  <2>2. CASE req'[r].pc \notin KpiPC
    BY <2>2 DEF KnowsKpi, KpiPC
  <2>3. QED
    BY <2>1, <2>2
<1>3. QED
  BY <1>1, <1>2 DEF ReadyInv

LEMMA ArriveReady ==
  ASSUME TypeInv, ReadyInv, NEW r \in Request, Arrive(r) PROVE ReadyInv'
<1>1. PICK d \in Dataset :
         \/ BeginUpload(r, d) \/ BeginSqlSave(r, d) \/ BeginDelete(r, d)
         \/ BeginCreateKpi(r, d) \/ BeginDeleteKpi(r, d)
  BY DEF Arrive
<1> DEFINE s1 == [IdleRequest EXCEPT !.pc = "created", !.ds = d, !.loop = TRUE]
           s2 == [IdleRequest EXCEPT !.pc = "sqlRun", !.ds = d]
           s3 == [IdleRequest EXCEPT !.pc = "unlinkSource", !.ds = d,
                        !.stored = row[d].stored, !.norm = row[d].norm]
           s4 == [IdleRequest EXCEPT !.pc = "kpiRead", !.ds = d, !.seen = row[d].status]
           s5 == [IdleRequest EXCEPT !.pc = "kpiFind", !.ds = d, !.seen = row[d].status]
<1>2. /\ s1.pc = "created" /\ s2.pc = "sqlRun" /\ s3.pc = "unlinkSource"
      /\ s4.pc = "kpiRead" /\ s5.pc = "kpiFind" /\ s5.ds = d /\ s5.seen = row[d].status
  BY DEF IdleRequest
<1>3. req \in [Request -> RequestState] /\ row \in [Dataset -> Row]
      /\ life \in [Dataset -> {"unborn", "live", "gone"}]
  BY DEF TypeInv, TypeOK
<1>4. CASE BeginUpload(r, d) \/ BeginSqlSave(r, d)
  <2>1. /\ req' = [req EXCEPT ![r] = s1] \/ req' = [req EXCEPT ![r] = s2]
        /\ life' = [life EXCEPT ![d] = "live"] /\ UNCHANGED kpiTables
        /\ \E u : row' = [row EXCEPT ![d] = NewRow(u)]
    BY <1>4 DEF BeginUpload, BeginSqlSave
  <2> HIDE DEF s1, s2, s3, s4, s5
  <2>2. \A q \in Request : req'[q] = req[q] \/ req'[q].pc \notin KpiPC
    BY <1>2, <1>3, <2>1 DEF KpiPC
  <2>3. \A e \in Dataset : Live(e)' /\ row'[e].status = "ANALYSIS_READY"
            => Live(e) /\ row[e].status = "ANALYSIS_READY"
    BY <1>3, <2>1 DEF NewRow, Live
  <2>4. QED
    BY <2>1, <2>2, <2>3, ReadyFrame
<1>5. CASE BeginDelete(r, d) \/ BeginCreateKpi(r, d) \/ BeginDeleteKpi(r, d)
  <2>1. /\ \E s \in {s3, s4, s5} : req' = [req EXCEPT ![r] = s]
        /\ UNCHANGED <<catalogue, kpiTables>>
    BY <1>5 DEF BeginDelete, BeginCreateKpi, BeginDeleteKpi
  <2> HIDE DEF s1, s2, s3, s4, s5
  <2>2. req'[r].pc \notin KpiPC \/ KnowsKpi(req[r])'
    BY <1>2, <1>3, <2>1 DEF KnowsKpi, KpiPC, catalogue
  <2>3. \A q \in Request : q # r => req'[q] = req[q]
    BY <1>3, <2>1
  <2>4. QED
    BY <2>1, <2>2, <2>3, ReadyFrame DEF catalogue, Live
<1>6. QED
  BY <1>1, <1>4, <1>5

LEMMA UploadReady ==
  ASSUME TypeInv, ReadyInv, NEW r \in Request, UploadStep(r) PROVE ReadyInv'
<1> DEFINE d == req[r].ds
<1>0. /\ req[r] \in RequestState /\ (req[r].pc # "idle" => d \in Dataset)
      /\ req \in [Request -> RequestState] /\ row \in [Dataset -> Row]
  BY DEF TypeInv, TypeOK, RequestsInv, Born
<1>1. UNCHANGED <<life, kpiTables>>
  BY DEF UploadStep, StartStream, StreamOk, StreamFail, StreamEmpty, FailUpload,
         CommitUpload, RejectDuplicate, AcceptUpload, RunSqlSave, CommitSqlSave, catalogue
<1>2. \A q \in Request : req'[q] = req[q] \/ req'[q].pc \notin KpiPC
  <2>1. CASE req' = [req EXCEPT ![r] = IdleRequest]
    BY <1>0, <2>1 DEF IdleRequest, KpiPC
  <2>2. CASE StartStream(r) \/ StreamFail(r) \/ StreamEmpty(r) \/ RejectDuplicate(r)
             \/ CommitUpload(r) \/ CommitSqlSave(r) \/ RunSqlSave(r)
    BY <1>0, <2>1, <2>2
       DEF StartStream, StreamFail, StreamEmpty, RejectDuplicate, CommitUpload,
           CommitSqlSave, RunSqlSave, EndRequest, Goto, RequestState, KpiPC
  <2>3. CASE \E c \in Content : StreamOk(r, c)
    BY <1>0, <2>3 DEF StreamOk, RequestState, KpiPC
  <2>4. QED
    BY <2>1, <2>2, <2>3 DEF UploadStep, FailUpload, AcceptUpload, EndRequest
<1>3. \A e \in Dataset : row'[e].status = row[e].status \/ row'[e].status # "ANALYSIS_READY"
  <2> DEFINE n1 == [row[d] EXCEPT !.upload = "UPLOADING"]
             n2 == [row[d] EXCEPT !.upload = "FAILED", !.status = "UPLOAD_FAILED"]
             n3 == [row[d] EXCEPT !.stored = TRUE, !.sum = req[r].sum,
                                  !.upload = "STORED", !.status = "UPLOADED"]
             n4 == [row[d] EXCEPT !.stored = TRUE, !.norm = "source", !.sum = req[r].sum,
                                  !.upload = "STORED", !.status = "UPLOADED"]
  <2>1. \/ row' = row
        \/ d \in Dataset /\ \E n \in {n1, n2, n3, n4} : row' = [row EXCEPT ![d] = n]
    BY <1>0
       DEF UploadStep, StartStream, StreamOk, StreamFail, StreamEmpty, FailUpload,
           CommitUpload, RejectDuplicate, AcceptUpload, RunSqlSave, CommitSqlSave, catalogue
  <2>2. d \in Dataset => /\ n1.status = row[d].status /\ n2.status = "UPLOAD_FAILED"
                         /\ n3.status = "UPLOADED" /\ n4.status = "UPLOADED"
    BY <1>0 DEF Row
  <2> HIDE DEF n1, n2, n3, n4, d
  <2>3. QED
    BY <1>0, <2>1, <2>2
<1>4. QED
  BY <1>1, <1>2, <1>3, ReadyFrame DEF Live

LEMMA DeleteReady ==
  ASSUME TypeInv, KpiInv, ReadyInv, Serial, NEW r \in Request, DeleteStep(r)
  PROVE  ReadyInv'
<1> DEFINE d == req[r].ds
<1>0. /\ req[r] \in RequestState /\ (req[r].pc # "idle" => d \in Dataset)
      /\ req \in [Request -> RequestState] /\ row \in [Dataset -> Row]
      /\ life \in [Dataset -> {"unborn", "live", "gone"}]
  BY DEF TypeInv, TypeOK, RequestsInv, Born
<1>1. CASE UnlinkSource(r) \/ UnlinkNormalized(r)
  <2>1. \A q \in Request : req'[q] = req[q] \/ req'[q].pc \notin KpiPC
    BY <1>0, <1>1 DEF UnlinkSource, UnlinkNormalized, Unlink, Goto, RequestState, KpiPC
  <2>2. QED
    BY <1>1, <2>1, ReadyFrame DEF UnlinkSource, UnlinkNormalized, Unlink, catalogue, Live
<1>2. CASE DeleteRow(r)
  <2>1. /\ life' = [life EXCEPT ![d] = "gone"] /\ d \in Dataset
        /\ row' = [row EXCEPT ![d] = NewRow("PENDING")]
        /\ kpis' = kpis \ KpisOf(d) /\ active' = active \ KpisOf(d)
        /\ owner' = owner /\ req' = [req EXCEPT ![r] = IdleRequest]
    BY <1>0, <1>2 DEF DeleteRow, EndRequest
  <2> HIDE DEF d
  <2>2. ReadyHasActiveKpi'
    BY <1>0, <2>1 DEF ReadyInv, ReadyHasActiveKpi, ActiveOf, KpisOf, Live
  <2>3. \A q \in Request : req'[q].pc \notin KpiPC
    BY <1>0, <2>1 DEF Serial, IdleRequest, KpiPC
  <2>4. QED
    BY <2>2, <2>3 DEF ReadyInv, KnowsKpi, KpiPC
<1>3. QED
  BY <1>1, <1>2 DEF DeleteStep

LEMMA KpiReady ==
  ASSUME TypeInv, KpiInv, ReadyInv, Serial, NEW r \in Request, KpiStep(r)
  PROVE  ReadyInv'
<1> DEFINE d == req[r].ds
<1>0. /\ req[r] \in RequestState /\ (req[r].pc # "idle" => d \in Dataset)
      /\ req \in [Request -> RequestState] /\ row \in [Dataset -> Row]
      /\ owner \in [Kpi -> Dataset \cup {None}] /\ KnowsKpi(req[r])
  BY DEF TypeInv, TypeOK, RequestsInv, Born, ReadyInv
<1>1. CASE ReadForKpi(r) \/ AbortKpi(r)
  <2>1. req'[r].pc \notin KpiPC \/ KnowsKpi(req[r])'
    <3>1. CASE req' = [req EXCEPT ![r] = IdleRequest]
      BY <1>0, <3>1 DEF IdleRequest, KpiPC
    <3>2. CASE req' = [req EXCEPT ![r].pc = "kpiCommit", ![r].acts = ActiveOf(d)]
      <4>1. req'[r].pc = "kpiCommit" /\ req'[r].ds = d /\ req'[r].acts = ActiveOf(d)
        BY <1>0, <3>2 DEF RequestState
      <4>2. owner' = owner
        BY <1>1 DEF ReadForKpi, AbortKpi, kpiTables
      <4>3. \A k \in ActiveOf(d) : owner[k] = d
        BY DEF ActiveOf, KpisOf
      <4> HIDE DEF d
      <4>4. QED
        BY <4>1, <4>2, <4>3 DEF KnowsKpi
    <3>3. QED
      BY <1>1, <3>1, <3>2 DEF ReadForKpi, AbortKpi, EndRequest
  <2>2. \A q \in Request : req'[q].pc \notin KpiPC \/ KnowsKpi(req[q])'
    BY <2>1 DEF Serial
  <2>3. QED
    BY <1>1, <2>2, ReadyFrame DEF ReadForKpi, AbortKpi, catalogue, Live
<1>2. CASE FindKpi(r)
  <2>1. req'[r].pc \notin KpiPC \/ KnowsKpi(req[r])'
    <3>1. CASE req' = [req EXCEPT ![r] = IdleRequest]
      BY <1>0, <3>1 DEF IdleRequest, KpiPC
    <3>2. ASSUME NEW k \in KpisOf(d),
                 req' = [req EXCEPT ![r].pc = "kpiDrop", ![r].kpi = k,
                                    ![r].was = (k \in active)]
          PROVE  KnowsKpi(req[r])'
      <4>1. /\ req'[r].pc = "kpiDrop" /\ req'[r].ds = d /\ req'[r].kpi = k
            /\ req'[r].seen = req[r].seen
        BY <1>0, <3>2 DEF RequestState
      <4>2. req'[r].was = (k \in active)
        BY <1>0, <3>2 DEF RequestState
      <4>3. owner[k] = d
        BY <3>2 DEF KpisOf
      <4>4. UNCHANGED <<life, row, owner, active>> /\ req[r].pc = "kpiFind"
        BY <1>2 DEF FindKpi, catalogue, kpiTables
      <4>5. QED
        BY <1>0, <4>1, <4>2, <4>3, <4>4 DEF KnowsKpi, Live
    <3>3. QED
      BY <1>2, <3>1, <3>2 DEF FindKpi, EndRequest
  <2>2. \A q \in Request : req'[q].pc \notin KpiPC \/ KnowsKpi(req[q])'
    BY <2>1 DEF Serial
  <2>3. QED
    BY <1>2, <2>2, ReadyFrame DEF FindKpi, catalogue, Live
<1>e. ASSUME req' = [req EXCEPT ![r] = IdleRequest], ReadyHasActiveKpi' PROVE ReadyInv'
  <2>1. \A q \in Request : req'[q].pc \notin KpiPC
    BY <1>0, <1>e DEF Serial, IdleRequest, KpiPC
  <2>2. QED
    BY <1>e, <2>1 DEF ReadyInv, KnowsKpi, KpiPC
<1>3. CASE \E k \in Kpi : CommitKpi(r, k)
  <2>1. PICK k \in Kpi : CommitKpi(r, k)
    BY <1>3
  <2>2. /\ owner[k] = None /\ req[r].pc = "kpiCommit" /\ life' = life
        /\ owner' = [owner EXCEPT ![k] = d]
        /\ kpis' = kpis \cup {k}
        /\ active' = (active \ req[r].acts) \cup {k}
        /\ row' = [row EXCEPT ![d].status = StatusAfterCreate(r)]
        /\ req' = [req EXCEPT ![r] = IdleRequest] /\ d \in Dataset
    BY <1>0, <2>1 DEF CommitKpi, EndRequest
  <2>3. \A j \in req[r].acts : owner[j] = d
    BY <1>0, <2>2 DEF KnowsKpi
  <2> HIDE DEF d
  <2>4. \A e \in Dataset \ {d} : ActiveOf(e) \subseteq ActiveOf(e)'
    BY <1>0, <2>2, <2>3, NoneAssumption DEF ActiveOf, KpisOf, TypeInv, TypeOK
  <2>5. ReadyHasActiveKpi'
    <3>1. ASSUME NEW e \in Dataset, Live(e)', row'[e].status = "ANALYSIS_READY"
          PROVE  ActiveOf(e)' # {}
      <4>1. CASE e = d
        BY <1>0, <2>2, <4>1 DEF ActiveOf, KpisOf, TypeInv, TypeOK
      <4>2. CASE e # d
        BY <1>0, <2>2, <2>4, <3>1, <4>2 DEF ReadyInv, ReadyHasActiveKpi, Live
      <4>3. QED
        BY <4>1, <4>2
    <3>2. QED
      BY <3>1 DEF ReadyHasActiveKpi
  <2>6. QED
    BY <1>e, <2>2, <2>5
<1>4. CASE DropKpi(r)
  <2>1. CASE UNCHANGED <<kpis, active, row>>
    <3>1. req' = [req EXCEPT ![r] = IdleRequest] /\ UNCHANGED <<life, owner>>
      BY <1>4 DEF DropKpi, EndRequest
    <3>2. ReadyHasActiveKpi'
      BY <2>1, <3>1 DEF ReadyInv, ReadyHasActiveKpi, ActiveOf, KpisOf, Live
    <3>3. QED
      BY <1>e, <3>1, <3>2
  <2>2. CASE ~UNCHANGED <<kpis, active, row>>
    <3> DEFINE demotes == req[r].was /\ req[r].seen = "ANALYSIS_READY"
    <3>1. /\ req[r].pc = "kpiDrop" /\ UNCHANGED <<life, owner>>
          /\ kpis' = kpis \ {req[r].kpi} /\ active' = active \ {req[r].kpi}
          /\ row' = IF demotes THEN [row EXCEPT ![d].status = "PROFILED"] ELSE row
          /\ req' = [req EXCEPT ![r] = IdleRequest] /\ d \in Dataset
      BY <1>0, <1>4, <2>2 DEF DropKpi, EndRequest
    <3>2. owner[req[r].kpi] = d /\ (~req[r].was => req[r].kpi \notin active)
          /\ (Live(d) /\ row[d].status = "ANALYSIS_READY" => req[r].seen = "ANALYSIS_READY")
      BY <1>0, <3>1 DEF KnowsKpi
    <3>3. ASSUME NEW e \in Dataset, Live(e)', row'[e].status = "ANALYSIS_READY"
          PROVE  ActiveOf(e)' # {}
      <4>1. Live(e) /\ row[e].status = "ANALYSIS_READY" /\ (e = d => ~demotes)
        BY <1>0, <3>1, <3>3 DEF Live, Row
      <4>2. PICK k \in ActiveOf(e) : TRUE
        BY <4>1 DEF ReadyInv, ReadyHasActiveKpi
      <4>3. k # req[r].kpi
        <5>1. CASE e = d
          BY <3>2, <4>1, <4>2, <5>1 DEF ActiveOf
        <5>2. CASE e # d
          BY <3>2, <4>2, <5>2 DEF ActiveOf, KpisOf
        <5>3. QED
          BY <5>1, <5>2
      <4>4. QED
        BY <3>1, <4>2, <4>3 DEF ActiveOf, KpisOf
    <3>4. ReadyHasActiveKpi'
      BY <3>3 DEF ReadyHasActiveKpi
    <3>5. QED
      BY <1>e, <3>1, <3>4
  <2>3. QED
    BY <2>1, <2>2
<1>5. QED
  BY <1>1, <1>2, <1>3, <1>4 DEF KpiStep

LEMMA JobReady ==
  ASSUME TypeInv, ReadyInv, NEW w \in Worker, JobStep(w) PROVE ReadyInv'
<1> DEFINE d == job[w].ds
<1>0. /\ job[w] \in JobState /\ (job[w].pc # "idle" => d \in Dataset)
      /\ row \in [Dataset -> Row]
  BY DEF TypeInv, TypeOK, JobsInv, Born
<1>1. UNCHANGED <<life, req, kpiTables>>
  BY DEF JobStep, LoadJob, StartJob, ReadSource, Materialise, SelectProfile,
         CommitProfile, FailJob, catalogue
<1>2. \A e \in Dataset : row'[e].status = row[e].status \/ row'[e].status # "ANALYSIS_READY"
  <2> DEFINE n1 == [row[d] EXCEPT !.status = StatusAfterStart(w), !.started = "recent"]
             n2 == [row[d] EXCEPT !.status = StatusAfterProfile(w),
                                  !.norm = NormAfterProfile(w)]
             n3 == [row[d] EXCEPT !.status = "PROFILING_FAILED"]
  <2>1. \/ row' = row
        \/ d \in Dataset /\ \E n \in {n1, n2, n3} : row' = [row EXCEPT ![d] = n]
    BY <1>0 DEF JobStep, LoadJob, StartJob, ReadSource, Materialise, SelectProfile,
                CommitProfile, FailJob, catalogue
  <2>2. d \in Dataset => /\ n1.status \in {row[d].status, "PROFILING"}
                         /\ n2.status \in Verdict /\ n3.status = "PROFILING_FAILED"
    BY <1>0 DEF Row, JobState, StatusAfterStart, StatusAfterProfile
  <2> HIDE DEF n1, n2, n3, d
  <2>3. QED
    BY <1>0, <2>1, <2>2 DEF Verdict
<1>3. QED
  BY <1>1, <1>2, ReadyFrame DEF Live

LEMMA NextReady ==
  ASSUME TypeInv, KpiInv, ReadyInv, Serial, [Next]_vars PROVE ReadyInv'
<1>0. row \in [Dataset -> Row]
  BY DEF TypeInv, TypeOK
<1>1. CASE \E r \in Request : Arrive(r) \/ RequestStep(r)
  BY <1>1, ArriveReady, UploadReady, DeleteReady, KpiReady DEF RequestStep
<1>2. CASE \E w \in Worker : JobStep(w)
  BY <1>2, JobReady
<1>3. CASE \E d \in Dataset : Regenerate(d) \/ Age(d)
  <2>1. \A e \in Dataset : row'[e].status = row[e].status
    BY <1>0, <1>3 DEF Regenerate, Age, Row, catalogue
  <2>2. QED
    BY <1>3, <2>1, ReadyFrame DEF Regenerate, Age, catalogue, Live
<1>4. CASE Die
  BY <1>4, ReadyFrame DEF Die, catalogue, Live, IdleRequest, KpiPC
<1>5. CASE Boot
  <2>1. \A e \in Dataset : row'[e].status \in {row[e].status, "PROFILING_FAILED"}
    BY <1>0, <1>5 DEF Boot, Reconciled, Row
  <2>2. QED
    BY <1>5, <2>1, ReadyFrame DEF Boot, Live
<1>6. CASE UNCHANGED vars
  BY <1>6, ReadyFrame DEF vars, catalogue, Live
<1>7. QED
  BY <1>1, <1>2, <1>3, <1>4, <1>5, <1>6 DEF Next

\* With requests served one at a time, whatever the jobs and restarts beside them,
\* a dataset that says it is ready has a definition to analyse.  (Two overlapping
\* KPI requests break this: the second commits on what it read before the first.)
THEOREM SerialReadyIsConfigured ==
  ASSUME Serial PROVE Spec => []ReadyHasActiveKpi
<1>1. Init => ReadyInv
  BY ReadyInit
<1>2. TypeInv /\ KpiInv /\ ReadyInv /\ [Next]_vars => ReadyInv'
  BY NextReady
<1>3. ReadyInv => ReadyHasActiveKpi
  BY DEF ReadyInv
<1>4. QED
  BY <1>1, <1>2, <1>3, TypeInvariant, KpiInvariant, PTL DEF Spec

-----------------------------------------------------------------------------
(***************************************************************************)
(* Files and status columns: the keys of a row resolve, and its two        *)
(* statuses agree.                                                         *)
(*                                                                         *)
(* Neither is inductive.  A handler that stored a file writes the key      *)
(* later, over whatever the row says by then: that this is right rests on  *)
(* what every handler and job in flight knows of its dataset's row (the    *)
(* phases below), and on no two of them registering the same dataset.      *)
(***************************************************************************)

\* A request that still has to finish the upload or SQL save it registered.
WritingPC == {"created", "streaming", "landed", "finalise", "sqlRun", "sqlLanded",
              "failUpload"}
RunningPC == {"reading", "materialising", "selecting", "committing", "failing"}

SoleWriter ==
    \A q, r \in Request :
        q # r /\ req[q].pc \in WritingPC /\ req[r].pc \in WritingPC
            => req[q].ds # req[r].ds

\* What a request with the session s knows of the row it registered.
Writes(s) ==
    /\ s.pc = "created" /\ Live(s.ds) => row[s.ds].upload = "PENDING"
    /\ s.pc \in WritingPC \ {"created", "finalise"} /\ Live(s.ds)
           => row[s.ds].upload = "UPLOADING"
    /\ s.pc = "finalise" /\ Live(s.ds) => row[s.ds].stored
    /\ s.pc \in {"landed", "sqlLanded"} /\ s.ds \notin unlinked
           => <<s.ds, "source">> \in objects

\* What a job with the session j knows of its row: there is data, the object it
\* made is there, and once it has begun the row does not go back to UPLOADED.
Works(j) ==
    /\ j.pc = "idle" => ~j.made
    /\ j.pc # "idle" /\ Live(j.ds) => row[j.ds].stored
    /\ j.made /\ j.ds \notin unlinked => <<j.ds, "normalized">> \in objects
    /\ (j.pc \in RunningPC \/ (j.pc = "loaded" /\ j.seen # "UPLOADED")) /\ Live(j.ds)
           => row[j.ds].status # "UPLOADED"

NeverValidating == \A d \in Dataset : row[d].status # "VALIDATING"
NoRowNoProfile == \A d \in Dataset : ~Live(d) => profile[d] = 0

RowsInv == ColumnsAgree /\ KeysResolve /\ NeverValidating /\ NoRowNoProfile
PhasesInv ==
    /\ SoleWriter
    /\ \A r \in Request : Writes(req[r])
    /\ \A w \in Worker : Works(job[w])

FilesInv == RowsInv /\ PhasesInv

LEMMA FilesInit == Init => FilesInv
  BY DEF Init, FilesInv, RowsInv, PhasesInv, ColumnsAgree, KeysResolve,
         NeverValidating, NoRowNoProfile, SoleWriter, Writes, Works, WritingPC,
         RunningPC, Live, NewRow, IdleRequest, IdleJob

(***************************************************************************)
(* What steps have in common.  Most leave alone what the other handlers    *)
(* and jobs know of a row, and take no file from a dataset that is not     *)
(* being deleted.                                                          *)
(***************************************************************************)
KeepsUpload(d) == Live(d)' => Live(d) /\ row'[d].upload = row[d].upload
KeepsData(d) ==
    Live(d)' => /\ Live(d)
                /\ row[d].stored => row'[d].stored
                /\ row'[d].status = "UPLOADED" => row[d].status = "UPLOADED"
KeepsFiles ==
    /\ unlinked \subseteq unlinked'
    /\ \A o \in objects : o[1] \in unlinked' \/ o \in objects'

\* The request stays where it is, leaves the upload, or knows what it must.
RequestKeeps(r) ==
    \/ req'[r].pc \notin WritingPC
    \/ /\ req'[r] = req[r]
       /\ KeepsUpload(req[r].ds) /\ KeepsData(req[r].ds)
    \/ /\ req[r].pc \in WritingPC /\ req'[r].ds = req[r].ds
       /\ Writes(req[r])'
JobKeeps(w) ==
    \/ job'[w] = job[w] /\ (job[w].pc = "idle" \/ KeepsData(job[w].ds))
    \/ Works(job[w])'

LEMMA PhasesFrame ==
  ASSUME PhasesInv, KeepsFiles,
         \A r \in Request : RequestKeeps(r),
         \A w \in Worker : JobKeeps(w)
  PROVE  PhasesInv'
<1>1. SoleWriter'
  BY DEF PhasesInv, SoleWriter, RequestKeeps
<1>2. ASSUME NEW r \in Request PROVE Writes(req[r])'
  <2>1. CASE req'[r].pc \notin WritingPC
    BY <2>1 DEF Writes, WritingPC
  <2>2. CASE req'[r] = req[r] /\ KeepsUpload(req[r].ds) /\ KeepsData(req[r].ds)
    BY <2>2 DEF PhasesInv, Writes, KeepsUpload, KeepsData, KeepsFiles
  <2>3. QED
    BY <2>1, <2>2 DEF RequestKeeps
<1>3. ASSUME NEW w \in Worker PROVE Works(job[w])'
  <2>1. CASE job'[w] = job[w] /\ (job[w].pc = "idle" \/ KeepsData(job[w].ds))
    BY <2>1 DEF PhasesInv, Works, KeepsData, KeepsFiles, RunningPC
  <2>2. QED
    BY <2>1 DEF JobKeeps
<1>4. QED
  BY <1>1, <1>2, <1>3 DEF PhasesInv

\* A step that leaves rows and profiles alone.
LEMMA RowsFrame ==
  ASSUME RowsInv, KeepsFiles, UNCHANGED catalogue
  PROVE  /\ RowsInv'
         /\ \A d \in Dataset : KeepsUpload(d) /\ KeepsData(d)
<1> USE DEF catalogue
<1>1. ColumnsAgree' /\ NeverValidating' /\ NoRowNoProfile'
  BY DEF RowsInv, ColumnsAgree, NeverValidating, NoRowNoProfile, Live
<1>2. KeysResolve'
  BY DEF RowsInv, KeysResolve, KeepsFiles, Live
<1>3. QED
  BY <1>1, <1>2 DEF RowsInv, KeepsUpload, KeepsData, Live

\* The statuses that handlers and jobs give to a dataset that has data.
DataStatus == {"PROFILING", "PROFILED", "BLOCKED", "ANALYSIS_READY", "PROFILING_FAILED"}

\* A step that at most moves such statuses, profiles and normalised keys.
LEMMA StatusFrame ==
  ASSUME RowsInv, UNCHANGED <<life, objects, unlinked>>,
         \A d \in Dataset :
            /\ row'[d].upload = row[d].upload /\ row'[d].stored = row[d].stored
            /\ \/ row'[d].norm = row[d].norm
               \/ d \in unlinked \/ <<d, "normalized">> \in objects
            /\ \/ row'[d].status = row[d].status
               \/ row'[d].status \in DataStatus /\ Live(d) /\ row[d].stored
            /\ \/ profile'[d] = profile[d]
               \/ Live(d) /\ row[d].stored
  PROVE  /\ RowsInv' /\ KeepsFiles
         /\ \A d \in Dataset : KeepsUpload(d) /\ KeepsData(d)
<1>1. ColumnsAgree'
  BY ZenonT(40) DEF RowsInv, ColumnsAgree, DataStatus, Live
<1>2. KeysResolve'
  BY DEF RowsInv, KeysResolve, Live
<1>3. NeverValidating' /\ NoRowNoProfile'
  BY DEF RowsInv, NeverValidating, NoRowNoProfile, DataStatus, Live
<1>4. QED
  BY <1>1, <1>2, <1>3 DEF RowsInv, KeepsFiles, KeepsUpload, KeepsData, DataStatus, Live

\* A step that moves one request and leaves rows and jobs alone.
LEMMA RequestMoves ==
  ASSUME TypeInv, FilesInv, KeepsFiles, UNCHANGED <<catalogue, job>>,
         NEW r \in Request, NEW s, req' = [req EXCEPT ![r] = s],
         \/ s.pc \notin WritingPC
         \/ /\ req[r].pc \in WritingPC /\ s.ds = req[r].ds
            /\ Writes(req[r])'
  PROVE  FilesInv'
<1>1. /\ RowsInv'
      /\ \A d \in Dataset : KeepsUpload(d) /\ KeepsData(d)
  BY RowsFrame DEF FilesInv
<1>2. ASSUME NEW q \in Request PROVE RequestKeeps(q)
  <2>1. CASE q = r
    BY <2>1 DEF RequestKeeps, TypeInv, TypeOK
  <2>2. CASE q # r
    <3>1. req'[q] = req[q] /\ (req[q].pc = "idle" \/ req[q].ds \in Dataset)
      BY <2>2 DEF TypeInv, TypeOK, RequestsInv, Born
    <3>2. QED
      BY <1>1, <3>1 DEF RequestKeeps, WritingPC
  <2>3. QED
    BY <2>1, <2>2
<1>3. ASSUME NEW w \in Worker PROVE JobKeeps(w)
  BY <1>1 DEF JobKeeps, TypeInv, JobsInv, Born
<1>4. QED
  BY <1>1, <1>2, <1>3, PhasesFrame DEF FilesInv

\* A step that moves one job and leaves rows and requests alone.
LEMMA JobMoves ==
  ASSUME TypeInv, FilesInv, KeepsFiles, UNCHANGED <<catalogue, req>>,
         NEW w \in Worker, NEW j, job' = [job EXCEPT ![w] = j], Works(job[w])'
  PROVE  FilesInv'
<1>1. /\ RowsInv'
      /\ \A d \in Dataset : KeepsUpload(d) /\ KeepsData(d)
  BY RowsFrame DEF FilesInv
<1>2. ASSUME NEW q \in Request PROVE RequestKeeps(q)
  BY <1>1 DEF RequestKeeps, TypeInv, RequestsInv, Born, WritingPC
<1>3. ASSUME NEW v \in Worker PROVE JobKeeps(v)
  <2>1. CASE v = w
    BY <2>1 DEF JobKeeps
  <2>2. CASE v # w
    BY <1>1, <2>2 DEF JobKeeps, TypeInv, TypeOK, JobsInv, Born
  <2>3. QED
    BY <2>1, <2>2
<1>4. QED
  BY <1>1, <1>2, <1>3, PhasesFrame DEF FilesInv

(***************************************************************************)
(* The steps, one lemma per component.                                     *)
(***************************************************************************)
LEMMA EnqueueWorks ==
  ASSUME TypeInv, FilesInv, NEW d \in Dataset, Enqueue(d), UNCHANGED <<life, unlinked>>,
         objects' = objects,
         Live(d) => row'[d].stored
  PROVE  \A w \in Worker : job'[w] = job[w] \/ Works(job[w])'
<1>1. PICK v \in Worker : /\ job[v].pc = "idle"
                          /\ job' = [job EXCEPT ![v].pc = "queued", ![v].ds = d]
  BY DEF Enqueue
<1>2. job[v] \in JobState /\ ~job[v].made
  BY <1>1 DEF TypeInv, TypeOK, FilesInv, PhasesInv, Works
<1>3. job'[v].pc = "queued" /\ job'[v].ds = d /\ ~job'[v].made
  BY <1>1, <1>2 DEF JobState, TypeInv, TypeOK
<1>4. Works(job[v])'
  BY <1>3 DEF Works, RunningPC, Live
<1>5. QED
  BY <1>1, <1>4 DEF TypeInv, TypeOK

\* A new row: nobody else knows of it yet.
LEMMA RegisterFiles ==
  ASSUME TypeInv, FilesInv, NEW r \in Request, NEW d \in Dataset,
         BeginUpload(r, d) \/ BeginSqlSave(r, d)
  PROVE  FilesInv'
<1> DEFINE s1 == [IdleRequest EXCEPT !.pc = "created", !.ds = d, !.loop = TRUE]
           s2 == [IdleRequest EXCEPT !.pc = "sqlRun", !.ds = d]
<1>1. PICK s \in {s1, s2}, u \in {"PENDING", "UPLOADING"} :
         /\ req' = [req EXCEPT ![r] = s] /\ s.ds = d
         /\ s.pc \in {"created", "sqlRun"}
         /\ u = IF s.pc = "created" THEN "PENDING" ELSE "UPLOADING"
         /\ life[d] = "unborn" /\ life' = [life EXCEPT ![d] = "live"]
         /\ row' = [row EXCEPT ![d] = NewRow(u)]
         /\ UNCHANGED <<profile, objects, job, unlinked>>
  BY DEF BeginUpload, BeginSqlSave, IdleRequest
<1> HIDE DEF s1, s2
<1>2. /\ life \in [Dataset -> {"unborn", "live", "gone"}]
      /\ row \in [Dataset -> Row] /\ req \in [Request -> RequestState]
  BY DEF TypeInv, TypeOK
<1>3. RowsInv'
  <2>1. ColumnsAgree' /\ NeverValidating' /\ NoRowNoProfile'
    BY <1>1, <1>2 DEF FilesInv, RowsInv, ColumnsAgree, NeverValidating,
                      NoRowNoProfile, NewRow, Live
  <2>2. KeysResolve'
    BY <1>1, <1>2 DEF FilesInv, RowsInv, KeysResolve, NewRow, Live
  <2>3. QED
    BY <2>1, <2>2 DEF RowsInv
<1>4. \A q \in Request : req[q].pc # "idle" => req[q].ds \in Dataset \ {d}
  BY <1>1 DEF TypeInv, RequestsInv, Born
<1>5. \A w \in Worker : job[w].pc # "idle" => job[w].ds \in Dataset \ {d}
  BY <1>1 DEF TypeInv, JobsInv, Born
<1>6. \A e \in Dataset \ {d} : KeepsUpload(e) /\ KeepsData(e)
  BY <1>1, <1>2 DEF KeepsUpload, KeepsData, Live
<1>7. \A q \in Request : q # r => req'[q] = req[q]
  BY <1>1, <1>2
<1>8. ASSUME NEW q \in Request PROVE Writes(req[q])'
  <2>1. CASE q = r
    BY <1>1, <1>2, <2>1 DEF Writes, NewRow, WritingPC, Live
  <2>2. CASE q # r
    BY <1>1, <1>4, <1>6, <1>7, <2>2
       DEF FilesInv, PhasesInv, Writes, KeepsUpload, KeepsData, WritingPC
  <2>3. QED
    BY <2>1, <2>2
<1>9. ASSUME NEW w \in Worker PROVE Works(job[w])'
  BY <1>1, <1>5, <1>6 DEF FilesInv, PhasesInv, Works, KeepsData, RunningPC
<1>10. SoleWriter'
  BY <1>1, <1>2, <1>4, <1>7 DEF FilesInv, PhasesInv, SoleWriter, WritingPC
<1>11. QED
  BY <1>3, <1>8, <1>9, <1>10 DEF FilesInv, PhasesInv

LEMMA ArriveFiles ==
  ASSUME TypeInv, FilesInv, NEW r \in Request, Arrive(r) PROVE FilesInv'
<1>1. PICK d \in Dataset :
         \/ BeginUpload(r, d) \/ BeginSqlSave(r, d) \/ BeginDelete(r, d)
         \/ BeginCreateKpi(r, d) \/ BeginDeleteKpi(r, d)
  BY DEF Arrive
<1>2. CASE BeginDelete(r, d) \/ BeginCreateKpi(r, d) \/ BeginDeleteKpi(r, d)
  <2> DEFINE s3 == [IdleRequest EXCEPT !.pc = "unlinkSource", !.ds = d,
                        !.stored = row[d].stored, !.norm = row[d].norm]
             s4 == [IdleRequest EXCEPT !.pc = "kpiRead", !.ds = d, !.seen = row[d].status]
             s5 == [IdleRequest EXCEPT !.pc = "kpiFind", !.ds = d, !.seen = row[d].status]
  <2>1. s3.pc = "unlinkSource" /\ s4.pc = "kpiRead" /\ s5.pc = "kpiFind"
    BY DEF IdleRequest
  <2>2. /\ \E s \in {s3, s4, s5} : req' = [req EXCEPT ![r] = s]
        /\ UNCHANGED <<catalogue, job, objects, unlinked>>
    BY <1>2 DEF BeginDelete, BeginCreateKpi, BeginDeleteKpi
  <2> HIDE DEF s3, s4, s5
  <2>3. QED
    BY <2>1, <2>2, RequestMoves DEF KeepsFiles, WritingPC
<1>3. QED
  BY <1>1, <1>2, RegisterFiles

LEMMA DeleteStepFiles ==
  ASSUME TypeInv, FilesInv, NEW r \in Request, DeleteStep(r) PROVE FilesInv'
<1> DEFINE d == req[r].ds
<1>0. req[r] \in RequestState /\ (req[r].pc # "idle" => Born(d))
  BY DEF TypeInv, RequestsInv
<1>1. CASE UnlinkSource(r) \/ UnlinkNormalized(r)
  <2>1. PICK p \in {"unlinkNormalized", "deleteRow"} :
           req' = [req EXCEPT ![r] = [req[r] EXCEPT !.pc = p]]
    BY <1>1 DEF UnlinkSource, UnlinkNormalized, Unlink, Goto
  <2> DEFINE s == [req[r] EXCEPT !.pc = p]
  <2>2. s.pc \notin WritingPC
    BY <1>0 DEF RequestState, WritingPC
  <2>3. KeepsFiles /\ UNCHANGED <<catalogue, job>>
    BY <1>1 DEF UnlinkSource, UnlinkNormalized, Unlink, KeepsFiles
  <2>4. req' = [req EXCEPT ![r] = s]
    BY <2>1
  <2> HIDE DEF s
  <2>5. QED
    BY <2>2, <2>3, <2>4, RequestMoves
<1>2. CASE DeleteRow(r)
  <2>1. /\ life' = [life EXCEPT ![d] = "gone"]
        /\ row' = [row EXCEPT ![d] = NewRow("PENDING")]
        /\ profile' = [profile EXCEPT ![d] = 0]
        /\ req' = [req EXCEPT ![r] = IdleRequest]
        /\ UNCHANGED <<objects, job, unlinked>> /\ d \in Dataset
    BY <1>0, <1>2 DEF DeleteRow, EndRequest, Born
  <2>2. /\ life \in [Dataset -> {"unborn", "live", "gone"}]
        /\ row \in [Dataset -> Row] /\ profile \in [Dataset -> Nat]
        /\ req \in [Request -> RequestState]
    BY DEF TypeInv, TypeOK
  <2> HIDE DEF d
  <2>3. KeepsFiles /\ \A e \in Dataset : KeepsUpload(e) /\ KeepsData(e)
    BY <2>1, <2>2 DEF KeepsFiles, KeepsUpload, KeepsData, Live
  <2>4. RowsInv'
    BY <2>1, <2>2 DEF FilesInv, RowsInv, ColumnsAgree, KeysResolve, NeverValidating,
                      NoRowNoProfile, NewRow, Live
  <2>5. \A q \in Request : RequestKeeps(q)
    BY <2>1, <2>2, <2>3 DEF RequestKeeps, TypeInv, RequestsInv, Born, WritingPC,
                            IdleRequest
  <2>6. \A w \in Worker : JobKeeps(w)
    BY <2>1, <2>3 DEF JobKeeps, TypeInv, JobsInv, Born
  <2>7. QED
    BY <2>3, <2>4, <2>5, <2>6, PhasesFrame DEF FilesInv
<1>3. QED
  BY <1>1, <1>2 DEF DeleteStep

\* The row a request registered is its own until there is data in it: no job and
\* no profile, so what it writes concerns nobody else in flight.
LEMMA WriterWrites ==
  ASSUME TypeInv, FilesInv, NEW r \in Request, NEW d \in Dataset, NEW n, NEW s,
         req[r].ds = d, req[r].pc \in WritingPC \ {"finalise"}, Live(d),
         row' = [row EXCEPT ![d] = n], req' = [req EXCEPT ![r] = s],
         UNCHANGED <<life, profile, objects, unlinked>>,
         s.pc \notin WritingPC \/ (s.ds = d /\ Writes(req[r])'),
         \A w \in Worker : job'[w] = job[w] \/ Works(job[w])',
         n.status \in {"PENDING_UPLOAD", "UPLOADED", "UPLOAD_FAILED"},
         n.status = "PENDING_UPLOAD" <=> n.upload \in {"PENDING", "UPLOADING"},
         n.status = "UPLOAD_FAILED" <=> n.upload = "FAILED",
         n.stored <=> n.upload = "STORED",
         n.stored => d \in unlinked \/ <<d, "source">> \in objects,
         n.norm = "own" => d \in unlinked \/ <<d, "normalized">> \in objects
  PROVE  FilesInv'
<1>0. /\ row \in [Dataset -> Row] /\ req \in [Request -> RequestState]
  BY DEF TypeInv, TypeOK
<1>1. ~row[d].stored /\ ~(profile[d] > 0)
  BY DEF FilesInv, PhasesInv, Writes, WritingPC, RowsInv, ColumnsAgree
<1>2. \A w \in Worker : job[w].pc # "idle" => job[w].ds \in Dataset \ {d}
  BY <1>1 DEF FilesInv, PhasesInv, Works, TypeInv, JobsInv, Born
<1>3. \A q \in Request : q # r /\ req[q].pc \in WritingPC => req[q].ds \in Dataset \ {d}
  BY DEF FilesInv, PhasesInv, SoleWriter, TypeInv, RequestsInv, Born, WritingPC
<1>4. KeepsFiles /\ \A e \in Dataset \ {d} : KeepsUpload(e) /\ KeepsData(e)
  BY <1>0 DEF KeepsFiles, KeepsUpload, KeepsData, Live
<1>5. RowsInv'
  <2>1. ColumnsAgree' /\ NeverValidating' /\ NoRowNoProfile'
    BY <1>0, <1>1
       DEF FilesInv, RowsInv, ColumnsAgree, NeverValidating, NoRowNoProfile, Live
  <2>2. KeysResolve'
    BY <1>0 DEF FilesInv, RowsInv, KeysResolve, Live
  <2>3. QED
    BY <2>1, <2>2 DEF RowsInv
<1>6. \A q \in Request : RequestKeeps(q)
  <2>1. RequestKeeps(r)
    BY <1>0 DEF RequestKeeps
  <2>2. ASSUME NEW q \in Request, q # r PROVE RequestKeeps(q)
    BY <1>0, <1>3, <1>4, <2>2 DEF RequestKeeps
  <2>3. QED
    BY <2>1, <2>2
<1>7. \A w \in Worker : JobKeeps(w)
  BY <1>2, <1>4 DEF JobKeeps
<1>8. QED
  BY <1>4, <1>5, <1>6, <1>7, PhasesFrame DEF FilesInv

LEMMA UploadStepFiles ==
  ASSUME TypeInv, FilesInv, NEW r \in Request, UploadStep(r) PROVE FilesInv'
<1> DEFINE d == req[r].ds
<1>0. /\ req[r] \in RequestState /\ (req[r].pc # "idle" => Born(d))
      /\ req \in [Request -> RequestState] /\ row \in [Dataset -> Row]
      /\ Writes(req[r])
  BY DEF TypeInv, TypeOK, RequestsInv, FilesInv, PhasesInv
<1>1. ASSUME UNCHANGED <<catalogue, objects, job, unlinked>>,
             req' = [req EXCEPT ![r] = IdleRequest]
      PROVE  FilesInv'
  <2>1. IdleRequest.pc \notin WritingPC
    BY DEF IdleRequest, WritingPC
  <2>2. QED
    BY <1>1, <2>1, RequestMoves DEF KeepsFiles
<1>2. CASE StartStream(r)
  <2> DEFINE s == [req[r] EXCEPT !.pc = "streaming", !.loop = FALSE]
             n == [row[d] EXCEPT !.upload = "UPLOADING"]
  <2>1. CASE Live(d)
    <3>1. /\ req[r].pc = "created" /\ row' = [row EXCEPT ![d] = n]
          /\ req' = [req EXCEPT ![r] = s] /\ d \in Dataset
          /\ UNCHANGED <<life, profile, objects, job, unlinked>>
      BY <1>0, <1>2, <2>1 DEF StartStream, Born
    <3>2. s.pc = "streaming" /\ s.ds = d
      BY <1>0 DEF RequestState
    <3>3. /\ n.status = row[d].status /\ n.upload = "UPLOADING"
          /\ n.stored = row[d].stored /\ n.norm = row[d].norm
      BY <1>0, <3>1 DEF Row
    <3>4. row[d].upload = "PENDING" /\ row[d].status = "PENDING_UPLOAD" /\ ~row[d].stored
          /\ (row[d].norm = "own" => d \in unlinked \/ <<d, "normalized">> \in objects)
      BY <1>0, <2>1, <3>1 DEF Writes, FilesInv, RowsInv, ColumnsAgree, KeysResolve
    <3> HIDE DEF s, n, d
    <3>5. Writes(req[r])'
      BY <1>0, <3>1, <3>2, <3>3 DEF Writes, WritingPC
    <3>6. req[r].ds = d
      BY DEF d
    <3>7. QED
      BY <2>1, <3>1, <3>2, <3>3, <3>4, <3>5, <3>6, WriterWrites DEF WritingPC
  <2>2. CASE ~Live(d)
    BY <1>1, <1>2, <2>2 DEF StartStream, EndRequest, catalogue
  <2>3. QED
    BY <2>1, <2>2
<1>3. CASE \E c \in Content : StreamOk(r, c)
  <2>1. PICK c \in Content : StreamOk(r, c)
    BY <1>3
  <2> DEFINE s == [req[r] EXCEPT !.pc = "landed", !.sum = c, !.loop = TRUE]
  <2>2. /\ req' = [req EXCEPT ![r] = s] /\ req[r].pc = "streaming"
        /\ objects' = objects \cup {<<d, "source">>}
        /\ UNCHANGED <<catalogue, job, unlinked>>
    BY <2>1 DEF StreamOk
  <2>3. s.pc = "landed" /\ s.ds = d
    BY <1>0 DEF RequestState
  <2> HIDE DEF s
  <2>4. Writes(req[r])'
    BY <1>0, <2>2, <2>3 DEF Writes, WritingPC, catalogue, Live
  <2>5. QED
    BY <2>2, <2>3, <2>4, RequestMoves DEF KeepsFiles, WritingPC
<1>4. CASE StreamFail(r) \/ StreamEmpty(r)
  <2> DEFINE s == [req[r] EXCEPT !.pc = "failUpload", !.loop = TRUE]
  <2>1. /\ req' = [req EXCEPT ![r] = s] \/ req' = [req EXCEPT ![r] = IdleRequest]
        /\ req[r].pc = "streaming" /\ objects \subseteq objects'
        /\ UNCHANGED <<catalogue, job, unlinked>>
    BY <1>4 DEF StreamFail, StreamEmpty, EndRequest
  <2>2. s.pc = "failUpload" /\ s.ds = d /\ IdleRequest.pc \notin WritingPC
    BY <1>0 DEF RequestState, IdleRequest, WritingPC
  <2> HIDE DEF s
  <2>3. CASE req' = [req EXCEPT ![r] = s]
    <3>1. Writes(req[r])'
      BY <1>0, <2>1, <2>2, <2>3 DEF Writes, WritingPC, catalogue, Live
    <3>2. QED
      BY <2>1, <2>2, <2>3, <3>1, RequestMoves DEF KeepsFiles, WritingPC
  <2>4. CASE req' = [req EXCEPT ![r] = IdleRequest]
    BY <2>1, <2>2, <2>4, RequestMoves DEF KeepsFiles
  <2>5. QED
    BY <2>1, <2>3, <2>4
<1>5. CASE FailUpload(r)
  <2> DEFINE n == [row[d] EXCEPT !.upload = "FAILED", !.status = "UPLOAD_FAILED"]
  <2>1. CASE Live(d)
    <3>1. /\ req[r].pc = "failUpload" /\ row' = [row EXCEPT ![d] = n]
          /\ req' = [req EXCEPT ![r] = IdleRequest] /\ d \in Dataset
          /\ UNCHANGED <<life, profile, objects, job, unlinked>>
      BY <1>0, <1>5, <2>1 DEF FailUpload, EndRequest, Born
    <3>2. /\ n.status = "UPLOAD_FAILED" /\ n.upload = "FAILED"
          /\ n.stored = row[d].stored /\ n.norm = row[d].norm
      BY <1>0, <3>1 DEF Row
    <3>3. ~row[d].stored
          /\ (row[d].norm = "own" => d \in unlinked \/ <<d, "normalized">> \in objects)
      BY <1>0, <2>1, <3>1 DEF Writes, WritingPC, FilesInv, RowsInv, ColumnsAgree, KeysResolve
    <3>4. IdleRequest.pc \notin WritingPC
      BY DEF IdleRequest, WritingPC
    <3> HIDE DEF n
    <3>5. QED
      BY <2>1, <3>1, <3>2, <3>3, <3>4, WriterWrites DEF WritingPC
  <2>2. CASE ~Live(d)
    BY <1>1, <1>5, <2>2 DEF FailUpload, EndRequest, catalogue
  <2>3. QED
    BY <2>1, <2>2
<1>6. CASE CommitUpload(r)
  <2> DEFINE s == [req[r] EXCEPT !.pc = "finalise"]
             n == [row[d] EXCEPT !.stored = TRUE, !.sum = req[r].sum,
                                 !.upload = "STORED", !.status = "UPLOADED"]
  <2>1. CASE Live(d)
    <3>1. /\ req[r].pc = "landed" /\ row' = [row EXCEPT ![d] = n]
          /\ req' = [req EXCEPT ![r] = s] /\ d \in Dataset
          /\ UNCHANGED <<life, profile, objects, job, unlinked>>
      BY <1>0, <1>6, <2>1 DEF CommitUpload, Goto, Born
    <3>2. s.pc = "finalise" /\ s.ds = d
      BY <1>0 DEF RequestState
    <3>3. /\ n.status = "UPLOADED" /\ n.upload = "STORED"
          /\ n.stored = TRUE /\ n.norm = row[d].norm
      BY <1>0, <3>1 DEF Row
    <3>4. /\ row[d].norm = "own" => d \in unlinked \/ <<d, "normalized">> \in objects
          /\ d \in unlinked \/ <<d, "source">> \in objects
      BY <1>0, <2>1, <3>1 DEF Writes, FilesInv, RowsInv, KeysResolve
    <3> HIDE DEF s, n, d
    <3>5. Writes(req[r])'
      BY <1>0, <3>1, <3>2, <3>3 DEF Writes, WritingPC
    <3>6. req[r].ds = d
      BY DEF d
    <3>7. QED
      BY <2>1, <3>1, <3>2, <3>3, <3>4, <3>5, <3>6, WriterWrites DEF WritingPC
  <2>2. CASE ~Live(d)
    BY <1>1, <1>6, <2>2 DEF CommitUpload, EndRequest, catalogue
  <2>3. QED
    BY <2>1, <2>2
<1>7. CASE RejectDuplicate(r)
  <2> DEFINE s == [req[r] EXCEPT !.pc = "unlinkSource", !.stored = TRUE]
  <2>1. s.pc \notin WritingPC
    BY <1>0 DEF RequestState, WritingPC
  <2>2. req' = [req EXCEPT ![r] = s] /\ UNCHANGED <<catalogue, objects, job, unlinked>>
    BY <1>7 DEF RejectDuplicate
  <2> HIDE DEF s
  <2>3. QED
    BY <2>1, <2>2, RequestMoves DEF KeepsFiles
<1>8. CASE AcceptUpload(r)
  <2>1. CASE Enqueue(d) /\ Live(d)
    <3>1. /\ req' = [req EXCEPT ![r] = IdleRequest] /\ d \in Dataset
          /\ UNCHANGED <<catalogue, objects, unlinked>> /\ row[d].stored
      BY <1>0, <1>8, <2>1 DEF AcceptUpload, EndRequest, Born, Writes
    <3>2. \A w \in Worker : JobKeeps(w)
      <4>1. \A w \in Worker : job'[w] = job[w] \/ Works(job[w])'
        <5> HIDE DEF d
        <5> QED BY <2>1, <3>1, EnqueueWorks DEF catalogue
      <4>2. \A e \in Dataset : KeepsData(e)
        BY <3>1 DEF KeepsData, catalogue, Live
      <4>3. QED
        BY <4>1, <4>2 DEF JobKeeps, TypeInv, JobsInv, Born
    <3>3. RowsInv' /\ KeepsFiles /\ \A e \in Dataset : KeepsUpload(e) /\ KeepsData(e)
      BY <3>1, RowsFrame DEF FilesInv, KeepsFiles
    <3>4. \A q \in Request : RequestKeeps(q)
      BY <1>0, <3>1, <3>3 DEF RequestKeeps, WritingPC, IdleRequest, TypeInv,
                              RequestsInv, Born
    <3>5. QED
      BY <3>2, <3>3, <3>4, PhasesFrame DEF FilesInv
  <2>2. CASE UNCHANGED job
    BY <1>1, <1>8, <2>2 DEF AcceptUpload, EndRequest
  <2>3. QED
    BY <1>8, <2>1, <2>2 DEF AcceptUpload
<1>9. CASE RunSqlSave(r)
  <2>1. PICK c \in SqlContent \cup {None}, p \in {"sqlLanded", "failUpload"} :
           /\ req' = [req EXCEPT ![r] = [req[r] EXCEPT !.pc = p, !.sum = c]]
              \/ req' = [req EXCEPT ![r] = [req[r] EXCEPT !.pc = p]]
           /\ p = "sqlLanded" => <<d, "source">> \in objects'
    BY <1>9 DEF RunSqlSave, Goto
  <2> DEFINE s1 == [req[r] EXCEPT !.pc = p, !.sum = c]
             s2 == [req[r] EXCEPT !.pc = p]
  <2>2. s1.pc = p /\ s1.ds = d /\ s2.pc = p /\ s2.ds = d
    BY <1>0, <2>1 DEF RequestState
  <2>3. PICK s \in {s1, s2} : req' = [req EXCEPT ![r] = s]
    BY <2>1
  <2>4. s.pc = p /\ s.ds = d
    BY <2>2
  <2>5. /\ req[r].pc = "sqlRun" /\ objects \subseteq objects'
        /\ UNCHANGED <<catalogue, job, unlinked>>
    BY <1>9 DEF RunSqlSave
  <2>6. Writes(req[r])'
    BY <1>0, <2>1, <2>3, <2>4, <2>5 DEF Writes, WritingPC, catalogue, Live
  <2>7. QED
    BY <2>3, <2>4, <2>5, <2>6, RequestMoves DEF KeepsFiles, WritingPC
<1>10. CASE CommitSqlSave(r)
  <2> DEFINE s == [req[r] EXCEPT !.pc = "failUpload"]
             n == [row[d] EXCEPT !.stored = TRUE, !.norm = "source", !.sum = req[r].sum,
                                 !.upload = "STORED", !.status = "UPLOADED"]
  <2>1. CASE Live(d)
    <3>1. /\ req[r].pc = "sqlLanded" /\ row' = [row EXCEPT ![d] = n]
          /\ req' = [req EXCEPT ![r] = IdleRequest] /\ d \in Dataset /\ Enqueue(d)
          /\ UNCHANGED <<life, profile, objects, unlinked>>
      BY <1>0, <1>10, <2>1 DEF CommitSqlSave, EndRequest, Born
    <3>2. /\ n.status = "UPLOADED" /\ n.upload = "STORED"
          /\ n.stored = TRUE /\ n.norm = "source"
      BY <1>0, <3>1 DEF Row
    <3>3. d \in unlinked \/ <<d, "source">> \in objects
      BY <1>0, <3>1 DEF Writes
    <3>4. IdleRequest.pc \notin WritingPC
      BY DEF IdleRequest, WritingPC
    <3> HIDE DEF n
    <3>5. \A w \in Worker : job'[w] = job[w] \/ Works(job[w])'
      <4>1. Live(d) => row'[d].stored
        BY <1>0, <3>1, <3>2
      <4> HIDE DEF d
      <4>2. QED
        BY <3>1, <4>1, EnqueueWorks
    <3>6. QED
      BY <2>1, <3>1, <3>2, <3>3, <3>4, <3>5, WriterWrites DEF WritingPC
  <2>2. CASE ~Live(d)
    <3>1. req' = [req EXCEPT ![r] = s] /\ req[r].pc = "sqlLanded"
          /\ UNCHANGED <<catalogue, objects, job, unlinked>>
      BY <1>10, <2>2 DEF CommitSqlSave, Goto, catalogue
    <3>2. s.pc = "failUpload" /\ s.ds = d
      BY <1>0 DEF RequestState
    <3> HIDE DEF s
    <3>3. Writes(req[r])'
      BY <1>0, <2>2, <3>1, <3>2 DEF Writes, WritingPC, catalogue, Live
    <3>4. QED
      BY <3>1, <3>2, <3>3, RequestMoves DEF KeepsFiles, WritingPC
  <2>3. QED
    BY <2>1, <2>2
<1>11. QED
  BY <1>2, <1>3, <1>4, <1>5, <1>6, <1>7, <1>8, <1>9, <1>10 DEF UploadStep

\* Steps under StatusFrame that move no request into, and no job within, a phase.
LEMMA StatusMoves ==
  ASSUME TypeInv, FilesInv, RowsInv', KeepsFiles,
         \A d \in Dataset : KeepsUpload(d) /\ KeepsData(d),
         \A r \in Request : req'[r] = req[r] \/ req'[r].pc \notin WritingPC,
         \A w \in Worker : job'[w] = job[w] \/ Works(job[w])'
  PROVE  FilesInv'
<1>1. \A r \in Request : RequestKeeps(r)
  BY DEF RequestKeeps, TypeInv, RequestsInv, Born, WritingPC
<1>2. \A w \in Worker : JobKeeps(w)
  BY DEF JobKeeps, TypeInv, JobsInv, Born
<1>3. QED
  BY <1>1, <1>2, PhasesFrame DEF FilesInv

\* A definition is saved or deleted only where there is a profile, hence data.
LEMMA KpiStepFiles ==
  ASSUME TypeInv, KpiInv, FilesInv, NEW r \in Request, KpiStep(r) PROVE FilesInv'
<1> DEFINE d == req[r].ds
<1>0. /\ req[r] \in RequestState /\ (req[r].pc # "idle" => Born(d))
      /\ req \in [Request -> RequestState] /\ row \in [Dataset -> Row]
  BY DEF TypeInv, TypeOK, RequestsInv
<1>1. \A q \in Request : req'[q] = req[q] \/ req'[q].pc \notin WritingPC
  <2>1. CASE req' = [req EXCEPT ![r] = IdleRequest]
    BY <1>0, <2>1 DEF IdleRequest, WritingPC
  <2>2. CASE ReadForKpi(r)
    BY <1>0, <2>1, <2>2 DEF ReadForKpi, EndRequest, RequestState, WritingPC
  <2>3. CASE FindKpi(r)
    <3>1. ASSUME NEW k \in KpisOf(d),
                 req' = [req EXCEPT ![r].pc = "kpiDrop", ![r].kpi = k,
                                    ![r].was = (k \in active)]
          PROVE  \A q \in Request : req'[q] = req[q] \/ req'[q].pc \notin WritingPC
      <4>1. \A q \in Request : q # r => req'[q] = req[q]
        BY <1>0, <3>1
      <4>2. req'[r].pc = "kpiDrop"
        BY <1>0, <3>1 DEF RequestState
      <4>3. QED
        BY <4>1, <4>2 DEF WritingPC
    <3>2. QED
      BY <2>1, <2>3, <3>1 DEF FindKpi, EndRequest
  <2>4. QED
    BY <2>1, <2>2, <2>3 DEF KpiStep, CommitKpi, AbortKpi, DropKpi, EndRequest
<1>2. UNCHANGED <<life, profile, objects, job, unlinked>>
  BY DEF KpiStep, ReadForKpi, CommitKpi, AbortKpi, FindKpi, DropKpi, catalogue
<1>3. row' = row \/ \E v \in DataStatus \cup {row[d].status} :
         /\ Live(d) /\ req[r].pc \in ConfiguringPC
         /\ row' = [row EXCEPT ![d].status = v]
  <2>1. CASE \E k \in Kpi : CommitKpi(r, k)
    BY <2>1 DEF CommitKpi, CreateConflicts, StatusAfterCreate, ConfiguringPC, DataStatus
  <2>2. CASE DropKpi(r)
    BY <2>2 DEF DropKpi, ConfiguringPC, DataStatus
  <2>3. QED
    BY <2>1, <2>2 DEF KpiStep, ReadForKpi, AbortKpi, FindKpi, catalogue
<1>4. \A e \in Dataset :
         /\ row'[e].upload = row[e].upload /\ row'[e].stored = row[e].stored
         /\ row'[e].norm = row[e].norm
         /\ \/ row'[e].status = row[e].status
            \/ row'[e].status \in DataStatus /\ Live(e) /\ row[e].stored
  <2>1. CASE row' = row
    BY <2>1
  <2>2. CASE \E v \in DataStatus \cup {row[d].status} :
                /\ Live(d) /\ req[r].pc \in ConfiguringPC
                /\ row' = [row EXCEPT ![d].status = v]
    <3>1. PICK v \in DataStatus \cup {row[d].status} :
             /\ Live(d) /\ req[r].pc \in ConfiguringPC
             /\ row' = [row EXCEPT ![d].status = v]
      BY <2>2
    <3>2. d \in Dataset /\ row[d].stored
      BY <1>0, <3>1 DEF KpiInv, Configuring, ConfiguringPC, Profiled, FilesInv,
                        RowsInv, ColumnsAgree, Born
    <3> HIDE DEF d
    <3>3. QED
      BY <1>0, <3>1, <3>2 DEF Row
  <2>3. QED
    BY <1>3, <2>1, <2>2
<1>5. RowsInv' /\ KeepsFiles /\ \A e \in Dataset : KeepsUpload(e) /\ KeepsData(e)
  BY <1>2, <1>4, StatusFrame DEF FilesInv
<1>6. QED
  BY <1>1, <1>2, <1>5, StatusMoves

\* A job that has begun goes on working on the row as it was.
LEMMA JobGoesOn ==
  ASSUME NEW w \in Worker, Works(job[w]), job[w].pc \in RunningPC, KeepsFiles,
         UNCHANGED catalogue,
         job'[w].pc \in RunningPC, job'[w].ds = job[w].ds,
         \/ job'[w].made = job[w].made
         \/ <<job[w].ds, "normalized">> \in objects'
  PROVE  Works(job[w])'
<1>1. job'[w].pc # "idle" /\ job[w].pc # "idle"
  BY DEF RunningPC
<1>2. job'[w].made /\ job[w].ds \notin unlinked' => <<job[w].ds, "normalized">> \in objects'
  BY DEF Works, KeepsFiles
<1>3. Live(job[w].ds)' => row'[job[w].ds].stored /\ row'[job[w].ds].status # "UPLOADED"
  BY <1>1 DEF Works, catalogue, Live
<1>4. QED
  BY <1>1, <1>2, <1>3 DEF Works

LEMMA JobStepFiles ==
  ASSUME TypeInv, FilesInv, NEW w \in Worker, JobStep(w) PROVE FilesInv'
<1> DEFINE d == job[w].ds
<1>0. /\ job[w] \in JobState /\ (job[w].pc # "idle" => Born(d)) /\ Works(job[w])
      /\ job \in [Worker -> JobState] /\ row \in [Dataset -> Row]
      /\ profile \in [Dataset -> Nat]
  BY DEF TypeInv, TypeOK, JobsInv, FilesInv, PhasesInv
<1>i. /\ \A v \in Worker : job' = [job EXCEPT ![v] = IdleJob] => Works(job[v])'
  BY <1>0 DEF Works, IdleJob, RunningPC
<1>1. CASE LoadJob(w)
  <2> DEFINE j == [job[w] EXCEPT !.pc = "loaded", !.seen = row[d].status,
                                 !.stored = row[d].stored, !.norm = row[d].norm]
  <2>1. /\ UNCHANGED <<catalogue, objects, req, unlinked>>
        /\ \/ job' = [job EXCEPT ![w] = j] /\ job[w].pc = "queued"
           \/ job' = [job EXCEPT ![w] = IdleJob]
    BY <1>1 DEF LoadJob, EndJob
  <2>2. j.pc = "loaded" /\ j.ds = d /\ j.made = job[w].made /\ j.seen = row[d].status
    BY <1>0 DEF JobState
  <2> HIDE DEF j
  <2>3. Works(job[w])'
    BY <1>0, <1>i, <2>1, <2>2 DEF Works, RunningPC, catalogue, Live
  <2>4. QED
    BY <2>1, <2>3, JobMoves DEF KeepsFiles
<1>2. CASE StartJob(w)
  <2> DEFINE n == [row[d] EXCEPT !.status = StatusAfterStart(w), !.started = "recent"]
             j == [job[w] EXCEPT !.pc = "reading", !.seen = "PROFILING"]
  <2>1. CASE Live(d)
    <3>1. /\ row' = [row EXCEPT ![d] = n] /\ job' = [job EXCEPT ![w] = j]
          /\ job[w].pc = "loaded" /\ d \in Dataset /\ row[d].stored
          /\ UNCHANGED <<life, profile, objects, unlinked, req>>
      BY <1>0, <1>2, <2>1 DEF StartJob, Works, Born
    <3>2. /\ n.upload = row[d].upload /\ n.stored = row[d].stored
          /\ n.norm = row[d].norm /\ n.status = StatusAfterStart(w)
          /\ j.pc = "reading" /\ j.ds = d /\ j.made = job[w].made
      BY ZenonT(40), <1>0, <3>1 DEF Row, JobState
    <3>3. /\ n.status = row[d].status \/ n.status = "PROFILING"
          /\ n.status # "UPLOADED"
      BY <1>0, <2>1, <3>1, <3>2 DEF StatusAfterStart, Works
    <3> HIDE DEF n, j, d
    <3>4. \A e \in Dataset :
             /\ row'[e].upload = row[e].upload /\ row'[e].stored = row[e].stored
             /\ row'[e].norm = row[e].norm
             /\ \/ row'[e].status = row[e].status
                \/ row'[e].status \in DataStatus /\ Live(e) /\ row[e].stored
      BY <1>0, <2>1, <3>1, <3>2, <3>3 DEF DataStatus
    <3>5. RowsInv' /\ KeepsFiles /\ \A e \in Dataset : KeepsUpload(e) /\ KeepsData(e)
      BY <3>1, <3>4, StatusFrame DEF FilesInv
    <3>6. Works(job[w])'
      BY <1>0, <2>1, <3>1, <3>2, <3>3 DEF Works, Live, d
    <3>7. \A v \in Worker : job'[v] = job[v] \/ Works(job[v])'
      BY <1>0, <3>1, <3>6
    <3>8. QED
      BY <3>1, <3>5, <3>7, StatusMoves
  <2>2. CASE ~Live(d)
    BY <1>2, <1>i, <2>2, JobMoves DEF StartJob, EndJob, KeepsFiles, catalogue
  <2>3. QED
    BY <2>1, <2>2
<1>3. CASE ReadSource(w) \/ SelectProfile(w)
  <2>1. PICK j : job' = [job EXCEPT ![w] = j] /\ j.pc \in RunningPC
                 /\ j.ds = d /\ j.made = job[w].made
    <3>1. CASE job' = [job EXCEPT ![w].pc = "failing"]
      <4>1. [job[w] EXCEPT !.pc = "failing"].pc = "failing"
            /\ [job[w] EXCEPT !.pc = "failing"].ds = d
            /\ [job[w] EXCEPT !.pc = "failing"].made = job[w].made
        BY <1>0 DEF JobState
      <4>2. QED
        BY <3>1, <4>1 DEF RunningPC
    <3>2. ASSUME NEW v \in Verdict, NEW p \in {"selecting", "materialising"},
                 job' = [job EXCEPT ![w].verdict = v, ![w].pc = p]
          PROVE  \E j : job' = [job EXCEPT ![w] = j] /\ j.pc \in RunningPC
                        /\ j.ds = d /\ j.made = job[w].made
      <4> DEFINE j == [job[w] EXCEPT !.verdict = v, !.pc = p]
      <4>1. j.pc = p /\ j.ds = d /\ j.made = job[w].made
        BY <1>0 DEF JobState
      <4>2. job' = [job EXCEPT ![w] = j]
        BY <1>0, <3>2
      <4> HIDE DEF j
      <4>3. QED
        BY <4>1, <4>2 DEF RunningPC
    <3>3. CASE SelectProfile(w)
      <4> DEFINE j == [job[w] EXCEPT !.pc = "committing", !.version = profile[d]]
      <4>1. j.pc = "committing" /\ j.ds = d /\ j.made = job[w].made
        BY <1>0 DEF JobState
      <4>2. job' = [job EXCEPT ![w] = j]
        BY <1>0, <3>3 DEF SelectProfile
      <4> HIDE DEF j
      <4>3. QED
        BY <4>1, <4>2 DEF RunningPC
    <3>4. QED
      BY <1>3, <3>1, <3>2, <3>3 DEF ReadSource
  <2>2. /\ job[w].pc \in RunningPC /\ job'[w] = j
        /\ UNCHANGED <<catalogue, objects, req, unlinked>>
    BY <1>0, <1>3, <2>1 DEF ReadSource, SelectProfile, RunningPC
  <2>3. Works(job[w])'
    BY <1>0, <2>1, <2>2, JobGoesOn DEF KeepsFiles
  <2>4. QED
    BY <2>1, <2>2, <2>3, JobMoves DEF KeepsFiles
<1>4. CASE Materialise(w)
  <2> DEFINE j1 == [job[w] EXCEPT !.pc = "selecting", !.made = TRUE]
             j2 == [job[w] EXCEPT !.pc = "selecting"]
  <2>1. /\ \/ /\ job' = [job EXCEPT ![w] = j1]
              /\ <<d, "normalized">> \in objects'
           \/ job' = [job EXCEPT ![w] = j2]
        /\ job[w].pc = "materialising" /\ objects \subseteq objects'
        /\ UNCHANGED <<catalogue, req, unlinked>>
    BY <1>4 DEF Materialise
  <2>2. /\ j1.pc = "selecting" /\ j1.ds = d
        /\ j2.pc = "selecting" /\ j2.ds = d /\ j2.made = job[w].made
    BY <1>0 DEF JobState
  <2> HIDE DEF j1, j2
  <2>3. Works(job[w])'
    BY <1>0, <2>1, <2>2, JobGoesOn DEF KeepsFiles, RunningPC
  <2>4. QED
    BY <2>1, <2>3, JobMoves DEF KeepsFiles
<1>5. CASE CommitProfile(w)
  <2> DEFINE n == [row[d] EXCEPT !.status = StatusAfterProfile(w),
                                 !.norm = NormAfterProfile(w)]
             j == [job[w] EXCEPT !.pc = "failing"]
  <2>1. CASE job' = [job EXCEPT ![w] = j] /\ UNCHANGED <<profile, row>>
    <3>1. j.pc = "failing" /\ j.ds = d /\ j.made = job[w].made
      BY <1>0 DEF JobState
    <3>2. job[w].pc = "committing" /\ UNCHANGED <<life, objects, req, unlinked>>
      BY <1>5 DEF CommitProfile
    <3> HIDE DEF j
    <3>3. Works(job[w])'
      BY <1>0, <2>1, <3>1, <3>2, JobGoesOn DEF KeepsFiles, RunningPC, catalogue
    <3>4. QED
      BY <2>1, <3>2, <3>3, JobMoves DEF KeepsFiles, catalogue
  <2>2. CASE ~ProfileConflicts(w) /\ row' = [row EXCEPT ![d] = n]
             /\ profile' = [profile EXCEPT ![d] = job[w].version + 1]
             /\ job' = [job EXCEPT ![w] = IdleJob]
    <3>1. /\ Live(d) /\ d \in Dataset /\ row[d].stored
          /\ UNCHANGED <<life, objects, req, unlinked>>
      BY <1>0, <1>5, <2>2 DEF CommitProfile, ProfileConflicts, Works, Born
    <3>2. /\ n.upload = row[d].upload /\ n.stored = row[d].stored
          /\ n.norm = NormAfterProfile(w) /\ n.status = job[w].verdict
          /\ job[w].verdict \in DataStatus
      BY ZenonT(40), <1>0, <3>1 DEF Row, JobState, StatusAfterProfile, Verdict, DataStatus
    <3>3. n.norm = row[d].norm \/ d \in unlinked \/ <<d, "normalized">> \in objects
      BY <1>0, <3>2 DEF NormAfterProfile, Works
    <3> HIDE DEF n, d
    <3>4. \A e \in Dataset :
             /\ row'[e].upload = row[e].upload /\ row'[e].stored = row[e].stored
             /\ \/ row'[e].norm = row[e].norm
                \/ e \in unlinked \/ <<e, "normalized">> \in objects
             /\ \/ row'[e].status = row[e].status
                \/ row'[e].status \in DataStatus /\ Live(e) /\ row[e].stored
             /\ \/ profile'[e] = profile[e]
                \/ Live(e) /\ row[e].stored
      BY <1>0, <2>2, <3>1, <3>2, <3>3
    <3>5. RowsInv' /\ KeepsFiles /\ \A e \in Dataset : KeepsUpload(e) /\ KeepsData(e)
      BY <3>1, <3>4, StatusFrame DEF FilesInv
    <3>6. \A v \in Worker : job'[v] = job[v] \/ Works(job[v])'
      BY <1>0, <1>i, <2>2
    <3>7. QED
      BY <3>1, <3>5, <3>6, StatusMoves
  <2>3. QED
    BY <1>5, <2>1, <2>2 DEF CommitProfile, EndJob
<1>6. CASE FailJob(w)
  <2>1. /\ job' = [job EXCEPT ![w] = IdleJob] /\ d \in Dataset
        /\ UNCHANGED <<life, profile, objects, req, unlinked>>
        /\ \/ row' = row
           \/ /\ Live(d) /\ row[d].stored
              /\ row' = [row EXCEPT ![d].status = "PROFILING_FAILED"]
    BY <1>0, <1>6 DEF FailJob, EndJob, Works, Born
  <2> HIDE DEF d
  <2>2. \A e \in Dataset :
           /\ row'[e].upload = row[e].upload /\ row'[e].stored = row[e].stored
           /\ row'[e].norm = row[e].norm
           /\ \/ row'[e].status = row[e].status
              \/ row'[e].status \in DataStatus /\ Live(e) /\ row[e].stored
    BY <1>0, <2>1 DEF DataStatus, Row
  <2>3. RowsInv' /\ KeepsFiles /\ \A e \in Dataset : KeepsUpload(e) /\ KeepsData(e)
    BY <2>1, <2>2, StatusFrame DEF FilesInv
  <2>4. \A v \in Worker : job'[v] = job[v] \/ Works(job[v])'
    BY <1>0, <1>i, <2>1
  <2>5. QED
    BY <2>1, <2>3, <2>4, StatusMoves
<1>7. QED
  BY <1>1, <1>2, <1>3, <1>4, <1>5, <1>6 DEF JobStep

\* Regenerating, ageing, dying and starting up.
LEMMA NextFiles ==
  ASSUME TypeInv, KpiInv, FilesInv, [Next]_vars PROVE FilesInv'
<1>0. row \in [Dataset -> Row] /\ \A d \in Dataset : row[d] \in Row
  BY DEF TypeInv, TypeOK
<1>1. CASE \E r \in Request : Arrive(r) \/ RequestStep(r)
  BY <1>1, ArriveFiles, UploadStepFiles, DeleteStepFiles, KpiStepFiles DEF RequestStep
<1>2. CASE \E w \in Worker : JobStep(w)
  BY <1>2, JobStepFiles
<1>3. CASE \E d \in Dataset : Regenerate(d)
  <2>1. PICK d \in Dataset : Regenerate(d)
    BY <1>3
  <2>2. /\ Enqueue(d) /\ row[d].stored
        /\ UNCHANGED <<catalogue, objects, req, unlinked>>
    BY <2>1 DEF Regenerate
  <2>3. \A w \in Worker : job'[w] = job[w] \/ Works(job[w])'
    BY <2>2, EnqueueWorks DEF catalogue
  <2>4. RowsInv' /\ KeepsFiles /\ \A e \in Dataset : KeepsUpload(e) /\ KeepsData(e)
    BY <2>2, RowsFrame DEF FilesInv, KeepsFiles
  <2>5. QED
    BY <2>2, <2>3, <2>4, StatusMoves
<1>4. ASSUME UNCHANGED <<life, profile, objects, unlinked>>,
             \A r \in Request : req'[r] = req[r] \/ req'[r] = IdleRequest,
             \A w \in Worker : job'[w] = job[w] \/ job'[w] = IdleJob,
             \A d \in Dataset :
                /\ row'[d].upload = row[d].upload /\ row'[d].stored = row[d].stored
                /\ row'[d].norm = row[d].norm
                /\ \/ row'[d].status = row[d].status
                   \/ row'[d].status \in DataStatus /\ Live(d) /\ row[d].stored
      PROVE  FilesInv'
  <2>1. RowsInv' /\ KeepsFiles /\ \A e \in Dataset : KeepsUpload(e) /\ KeepsData(e)
    BY <1>4, StatusFrame DEF FilesInv
  <2>2. \A r \in Request : req'[r] = req[r] \/ req'[r].pc \notin WritingPC
    BY <1>4 DEF IdleRequest, WritingPC
  <2>3. \A w \in Worker : job'[w] = job[w] \/ Works(job[w])'
    BY <1>4 DEF IdleJob, Works, RunningPC
  <2>4. QED
    BY <2>1, <2>2, <2>3, StatusMoves
<1>5. CASE \E d \in Dataset : Age(d)
  BY <1>0, <1>4, <1>5 DEF Age, Row, catalogue, kpiTables, process
<1>6. CASE Die
  BY <1>4, <1>6 DEF Die, catalogue
<1>7. CASE Boot
  <2>1. \A d \in Dataset : Stale(d) => Live(d) /\ row[d].stored
    BY <1>0 DEF Stale, Busy, FilesInv, RowsInv, ColumnsAgree, Row, UploadStatus
  <2>2. \A d \in Dataset :
           /\ row'[d].upload = row[d].upload /\ row'[d].stored = row[d].stored
           /\ row'[d].norm = row[d].norm
           /\ \/ row'[d].status = row[d].status
              \/ row'[d].status \in DataStatus /\ Live(d) /\ row[d].stored
    BY <1>0, <1>7, <2>1 DEF Boot, Reconciled, Row, DataStatus
  <2>3. QED
    BY <1>4, <1>7, <2>2 DEF Boot
<1>8. CASE UNCHANGED vars
  BY <1>4, <1>8 DEF vars, catalogue
<1>9. QED
  BY <1>1, <1>2, <1>3, <1>5, <1>6, <1>7, <1>8 DEF Next

LEMMA FilesInvariant == Spec => []FilesInv
<1>1. Init => FilesInv
  BY FilesInit
<1>2. TypeInv /\ KpiInv /\ FilesInv /\ [Next]_vars => FilesInv'
  BY NextFiles
<1>3. QED
  BY <1>1, <1>2, TypeInvariant, KpiInvariant, PTL DEF Spec

\* The two status columns of a dataset agree, whatever uploads, saves, jobs, KPI
\* calls, deletes and restarts run across each other.
THEOREM StatusColumnsAgree == Spec => []ColumnsAgree
<1>1. FilesInv => ColumnsAgree
  BY DEF FilesInv, RowsInv
<1>2. QED
  BY <1>1, FilesInvariant, PTL

\* Every key a row names is in storage until a delete of that dataset begins.
THEOREM NamedFilesExist == Spec => []KeysResolve
<1>1. FilesInv => KeysResolve
  BY DEF FilesInv, RowsInv
<1>2. QED
  BY <1>1, FilesInvariant, PTL

-----------------------------------------------------------------------------
(***************************************************************************)
(* Handlers, jobs and restarts together implement the order of statuses    *)
(* that DatasetContract promises a polling client, and the profile a       *)
(* client reads only moves forward.                                        *)
(*                                                                         *)
(* The mapping reads the status of a live row and the presence of its      *)
(* profile.  A step changes one status, several at a start of the process, *)
(* or none; that the change is one the contract allows is what FilesInv    *)
(* and KpiInv say of the row the handler or job is about to write.         *)
(***************************************************************************)

LEMMA ContractInit == Init => Contract!Init
<1>1. SUFFICES ASSUME Init PROVE Contract!Init
  OBVIOUS
<1>2. ContractStatus = [d \in Dataset |-> "unborn"]
  BY <1>1 DEF Init, ContractStatus, Live
<1>3. {d \in Dataset : profile[d] > 0} = {}
  BY <1>1 DEF Init
<1>4. QED
  BY <1>2, <1>3 DEF Contract!Init

\* A step that leaves lives, statuses and the presence of profiles alone.
LEMMA ContractStutter ==
  ASSUME life' = life,
         \A d \in Dataset : row'[d].status = row[d].status,
         \A d \in Dataset : profile'[d] > 0 <=> profile[d] > 0
  PROVE  [Contract!Next]_Contract!vars
<1>1. UNCHANGED ContractStatus
  BY DEF ContractStatus, Live
<1>2. QED
  BY <1>1 DEF Contract!vars

\* The status of one live dataset changes.
LEMMA ContractWrite ==
  ASSUME life' = life, NEW d \in Dataset, NEW to, Live(d),
         row'[d].status = to,
         \A e \in Dataset \ {d} : row'[e].status = row[e].status
  PROVE  /\ ContractStatus[d] = row[d].status
         /\ ContractStatus' = [ContractStatus EXCEPT ![d] = to]
  BY DEF ContractStatus, Live

\* A row with data has a status the contract counts among those with data.
LEMMA StoredStatus ==
  ASSUME TypeInv, FilesInv, NEW d \in Dataset, Live(d), row[d].stored
  PROVE  row[d].status \in Contract!Stored
<1>1. row[d] \in Row
  BY DEF TypeInv, TypeOK
<1>2. row[d].status \in DatasetStatus
  BY <1>1, RowFields
<1>3. row[d].upload = "STORED" /\ row[d].status # "VALIDATING"
  BY DEF FilesInv, RowsInv, ColumnsAgree, NeverValidating
<1>4. row[d].status # "PENDING_UPLOAD" /\ row[d].status # "UPLOAD_FAILED"
  BY <1>3 DEF FilesInv, RowsInv, ColumnsAgree
<1>5. QED
  BY <1>2, <1>3, <1>4 DEF DatasetStatus, Contract!Stored

LEMMA ContractArrive ==
  ASSUME TypeInv, FilesInv, NEW r \in Request, Arrive(r)
  PROVE  [Contract!Next]_Contract!vars
<1>1. PICK d \in Dataset :
         \/ BeginUpload(r, d) \/ BeginSqlSave(r, d) \/ BeginDelete(r, d)
         \/ BeginCreateKpi(r, d) \/ BeginDeleteKpi(r, d)
  BY DEF Arrive
<1>2. CASE BeginUpload(r, d) \/ BeginSqlSave(r, d)
  <2>1. /\ life[d] = "unborn" /\ life' = [life EXCEPT ![d] = "live"]
        /\ \E u : row' = [row EXCEPT ![d] = NewRow(u)]
        /\ profile' = profile
    BY <1>2 DEF BeginUpload, BeginSqlSave
  <2>2. row'[d].status = "PENDING_UPLOAD" /\ \A e \in Dataset \ {d} : row'[e] = row[e]
    BY <2>1 DEF NewRow, TypeInv, TypeOK
  <2>3. /\ ContractStatus[d] = "unborn"
        /\ ContractStatus' = [ContractStatus EXCEPT ![d] = "PENDING_UPLOAD"]
    BY <2>1, <2>2 DEF ContractStatus, Live, TypeInv, TypeOK
  <2>4. Contract!Register(d)
    BY <2>1, <2>3 DEF Contract!Register, Contract!Becomes
  <2>5. QED
    BY <2>4 DEF Contract!Next
<1>3. CASE BeginDelete(r, d) \/ BeginCreateKpi(r, d) \/ BeginDeleteKpi(r, d)
  BY <1>3, ContractStutter DEF BeginDelete, BeginCreateKpi, BeginDeleteKpi, catalogue
<1>4. QED
  BY <1>1, <1>2, <1>3

\* The end of an upload is the only step that leaves PENDING_UPLOAD: the handler
\* knows that its row still waits (Writes).
LEMMA ContractUpload ==
  ASSUME TypeInv, FilesInv, NEW r \in Request, UploadStep(r)
  PROVE  [Contract!Next]_Contract!vars
<1> DEFINE d == req[r].ds
<1>0. /\ req[r].pc # "idle" => d \in Dataset
      /\ row \in [Dataset -> Row] /\ Writes(req[r])
  BY DEF TypeInv, TypeOK, RequestsInv, Born, FilesInv, PhasesInv
<1>1. CASE UNCHANGED catalogue
  BY <1>1, ContractStutter DEF catalogue
<1>2. CASE StartStream(r)
  BY <1>0, <1>2, ContractStutter DEF StartStream, Row
<1>3. CASE FailUpload(r) /\ Live(d)
  <2>1. /\ life' = life /\ profile' = profile /\ d \in Dataset
        /\ row' = [row EXCEPT ![d].upload = "FAILED", ![d].status = "UPLOAD_FAILED"]
    BY <1>0, <1>3 DEF FailUpload
  <2>2. row[d].status = "PENDING_UPLOAD"
    BY <1>0, <1>3, <2>1 DEF FailUpload, Writes, WritingPC, FilesInv, RowsInv, ColumnsAgree
  <2>3. /\ row'[d].status = "UPLOAD_FAILED"
        /\ \A e \in Dataset \ {d} : row'[e].status = row[e].status
    BY <1>0, <2>1 DEF Row
  <2>4. Contract!Reject(d)
    <3> HIDE DEF d
    <3> QED BY <1>3, <2>1, <2>2, <2>3, ContractWrite DEF Contract!Reject, Contract!Becomes
  <2>5. QED
    BY <2>1, <2>4 DEF Contract!Next
<1>4. CASE (CommitUpload(r) \/ CommitSqlSave(r)) /\ Live(d)
  <2> DEFINE n1 == [row[d] EXCEPT !.stored = TRUE, !.sum = req[r].sum,
                                  !.upload = "STORED", !.status = "UPLOADED"]
             n2 == [row[d] EXCEPT !.stored = TRUE, !.norm = "source", !.sum = req[r].sum,
                                  !.upload = "STORED", !.status = "UPLOADED"]
  <2>1. /\ life' = life /\ profile' = profile /\ d \in Dataset
        /\ row' = [row EXCEPT ![d] = n1] \/ row' = [row EXCEPT ![d] = n2]
    BY <1>0, <1>4 DEF CommitUpload, CommitSqlSave
  <2>2. row[d].status = "PENDING_UPLOAD"
    BY <1>0, <1>4, <2>1 DEF CommitUpload, CommitSqlSave, Writes, WritingPC, FilesInv,
                            RowsInv, ColumnsAgree
  <2>3. n1.status = "UPLOADED" /\ n2.status = "UPLOADED"
    BY <1>0, <2>1 DEF Row
  <2> HIDE DEF n1, n2, d
  <2>4. /\ row'[d].status = "UPLOADED"
        /\ \A e \in Dataset \ {d} : row'[e].status = row[e].status
    BY <1>0, <2>1, <2>3
  <2>5. Contract!Store(d)
    BY <1>4, <2>1, <2>2, <2>4, ContractWrite DEF Contract!Store, Contract!Becomes
  <2>6. QED
    BY <2>1, <2>5 DEF Contract!Next
<1>5. QED
  BY <1>1, <1>2, <1>3, <1>4
     DEF UploadStep, StreamOk, StreamFail, StreamEmpty, FailUpload, CommitUpload,
         RejectDuplicate, AcceptUpload, RunSqlSave, CommitSqlSave, catalogue

LEMMA ContractDelete ==
  ASSUME TypeInv, FilesInv, NEW r \in Request, DeleteStep(r)
  PROVE  [Contract!Next]_Contract!vars
<1> DEFINE d == req[r].ds
<1>1. CASE UnlinkSource(r) \/ UnlinkNormalized(r)
  BY <1>1, ContractStutter DEF UnlinkSource, UnlinkNormalized, Unlink, catalogue
<1>2. CASE DeleteRow(r)
  <2>1. /\ life' = [life EXCEPT ![d] = "gone"]
        /\ row' = [row EXCEPT ![d] = NewRow("PENDING")]
        /\ profile' = [profile EXCEPT ![d] = 0]
        /\ d \in Dataset /\ life[d] # "unborn"
    BY <1>2 DEF DeleteRow, TypeInv, RequestsInv, Born
  <2>2. /\ life \in [Dataset -> {"unborn", "live", "gone"}]
        /\ row \in [Dataset -> Row] /\ profile \in [Dataset -> Nat]
    BY DEF TypeInv, TypeOK
  <2> HIDE DEF d
  <2>3. ContractStatus' = [ContractStatus EXCEPT ![d] = "gone"]
    BY <2>1, <2>2 DEF ContractStatus, Live
  <2>4. {e \in Dataset : profile[e] > 0}' = {e \in Dataset : profile[e] > 0} \ {d}
    BY <2>1, <2>2
  <2>5. CASE Live(d)
    <3>1. ContractStatus[d] = row[d].status
      BY <2>1, <2>5 DEF ContractStatus
    <3>2. row[d].status \in DatasetStatus \ {"VALIDATING"}
      BY <2>1, <2>2, RowFields DEF FilesInv, RowsInv, NeverValidating
    <3>3. Contract!Remove(d)
      BY <2>3, <2>4, <3>1, <3>2
         DEF Contract!Remove, Contract!Becomes, Contract!Stored, DatasetStatus
    <3>4. d \in Dataset
      BY <2>1
    <3>5. QED
      BY <3>3, <3>4 DEF Contract!Next, Contract!Remove
  <2>6. CASE ~Live(d)
    <3>1. ContractStatus[d] = "gone" /\ ~(profile[d] > 0)
      BY <2>1, <2>2, <2>6 DEF ContractStatus, Live, FilesInv, RowsInv, NoRowNoProfile
    <3>2. UNCHANGED ContractStatus
      BY <2>3, <3>1 DEF ContractStatus
    <3>3. QED
      BY <2>4, <3>1, <3>2 DEF Contract!vars
  <2>7. QED
    BY <2>5, <2>6
<1>3. QED
  BY <1>1, <1>2 DEF DeleteStep

\* A KPI call moves a status only where it has seen a profile that is still there.
LEMMA ContractKpi ==
  ASSUME TypeInv, KpiInv, FilesInv, NEW r \in Request, KpiStep(r)
  PROVE  [Contract!Next]_Contract!vars
<1> DEFINE d == req[r].ds
<1>0. (req[r].pc # "idle" => d \in Dataset) /\ row \in [Dataset -> Row]
      /\ (req[r].pc \in ConfiguringPC => Profiled(d))
  BY DEF TypeInv, TypeOK, RequestsInv, Born, KpiInv, Configuring
<1>1. CASE UNCHANGED catalogue
  BY <1>1, ContractStutter DEF catalogue
<1>2. ASSUME life' = life, profile' = profile, Live(d), req[r].pc \in ConfiguringPC,
             NEW v \in {"ANALYSIS_READY", "PROFILED"}, row' = [row EXCEPT ![d].status = v]
      PROVE  [Contract!Next]_Contract!vars
  <2>1. d \in Dataset /\ profile[d] > 0
    BY <1>0, <1>2 DEF ConfiguringPC, Profiled
  <2>2. row[d].status \in Contract!Stored
    BY <1>2, <2>1, StoredStatus DEF FilesInv, RowsInv, ColumnsAgree
  <2> HIDE DEF d
  <2>3. row'[d].status = v /\ \A e \in Dataset \ {d} : row'[e].status = row[e].status
    BY <1>0, <1>2, <2>1 DEF Row
  <2>4. /\ ContractStatus[d] = row[d].status
        /\ ContractStatus' = [ContractStatus EXCEPT ![d] = v]
    BY <1>2, <2>1, <2>3, ContractWrite
  <2>5. Contract!Configure(d) \/ Contract!Unconfigure(d)
    BY <1>2, <2>1, <2>2, <2>4
       DEF Contract!Configure, Contract!Unconfigure, Contract!Becomes
  <2>6. QED
    BY <2>1, <2>5 DEF Contract!Next
<1>3. CASE \E k \in Kpi : CommitKpi(r, k)
  <2>1. /\ life' = life /\ profile' = profile /\ Live(d) /\ req[r].pc \in ConfiguringPC
        /\ \/ row' = [row EXCEPT ![d].status = "ANALYSIS_READY"]
           \/ row' = [row EXCEPT ![d].status = row[d].status]
    BY <1>3 DEF CommitKpi, CreateConflicts, StatusAfterCreate, ConfiguringPC
  <2>2. CASE row' = [row EXCEPT ![d].status = row[d].status]
    BY <1>0, <2>1, <2>2, ContractStutter DEF Row
  <2>3. QED
    BY <1>2, <2>1, <2>2
<1>4. CASE DropKpi(r)
  BY <1>1, <1>2, <1>4 DEF DropKpi, ConfiguringPC, catalogue
<1>5. QED
  BY <1>1, <1>3, <1>4 DEF KpiStep, ReadForKpi, AbortKpi, FindKpi

\* A job writes the status of a dataset that has data, and its outcome only after
\* it has taken the dataset out of UPLOADED.
LEMMA ContractJob ==
  ASSUME TypeInv, FilesInv, NEW w \in Worker, JobStep(w)
  PROVE  [Contract!Next]_Contract!vars
<1> DEFINE d == job[w].ds
<1>0. /\ job[w] \in JobState /\ (job[w].pc # "idle" => d \in Dataset)
      /\ row \in [Dataset -> Row] /\ profile \in [Dataset -> Nat] /\ Works(job[w])
  BY DEF TypeInv, TypeOK, JobsInv, Born, FilesInv, PhasesInv
<1>1. CASE UNCHANGED catalogue
  BY <1>1, ContractStutter DEF catalogue
<1>2. ASSUME Live(d), job[w].pc # "idle" PROVE row[d].status \in Contract!Stored
  BY <1>0, <1>2, StoredStatus DEF Works
<1>3. CASE StartJob(w) /\ Live(d)
  <2> DEFINE n == [row[d] EXCEPT !.status = StatusAfterStart(w), !.started = "recent"]
  <2>1. /\ life' = life /\ profile' = profile /\ d \in Dataset
        /\ row' = [row EXCEPT ![d] = n] /\ job[w].pc = "loaded"
    BY <1>0, <1>3 DEF StartJob
  <2>2. n.status = row[d].status \/ n.status = "PROFILING"
    BY <1>0, <2>1 DEF Row, StatusAfterStart
  <2>3. row[d].status \in Contract!Stored
    BY <1>2, <1>3, <2>1
  <2> HIDE DEF n, d
  <2>4. CASE n.status = row[d].status
    BY <1>0, <2>1, <2>4, ContractStutter
  <2>5. CASE n.status = "PROFILING"
    <3>1. /\ row'[d].status = "PROFILING"
          /\ \A e \in Dataset \ {d} : row'[e].status = row[e].status
      BY <1>0, <2>1, <2>5
    <3>2. Contract!Process(d)
      BY <1>3, <2>1, <2>3, <3>1, ContractWrite DEF Contract!Process, Contract!Becomes
    <3>3. QED
      BY <2>1, <3>2 DEF Contract!Next
  <2>6. QED
    BY <2>2, <2>4, <2>5
<1>4. CASE CommitProfile(w) /\ ~ProfileConflicts(w) /\ ~UNCHANGED <<profile, row>>
  <2> DEFINE n == [row[d] EXCEPT !.status = StatusAfterProfile(w),
                                 !.norm = NormAfterProfile(w)]
  <2>1. /\ life' = life /\ d \in Dataset /\ job[w].pc = "committing" /\ Live(d)
        /\ row' = [row EXCEPT ![d] = n]
        /\ profile' = [profile EXCEPT ![d] = job[w].version + 1]
    BY <1>0, <1>4 DEF CommitProfile, ProfileConflicts
  <2>2. n.status \in {"PROFILED", "BLOCKED"} /\ job[w].version \in Nat
    BY <1>0, <2>1 DEF Row, StatusAfterProfile, JobState, Verdict
  <2>3. row[d].status \in Contract!Stored \ {"UPLOADED"}
    BY <1>0, <1>2, <2>1 DEF Works, RunningPC
  <2> HIDE DEF n, d
  <2>4. /\ row'[d].status = n.status
        /\ \A e \in Dataset \ {d} : row'[e].status = row[e].status
    BY <1>0, <2>1
  <2>5. {e \in Dataset : profile[e] > 0}' = {e \in Dataset : profile[e] > 0} \cup {d}
    BY <1>0, <2>1, <2>2
  <2>6. /\ ContractStatus[d] = row[d].status
        /\ ContractStatus' = [ContractStatus EXCEPT ![d] = n.status]
    BY <2>1, <2>4, ContractWrite
  <2>7. Contract!Publish(d)
    BY <2>2, <2>3, <2>5, <2>6 DEF Contract!Publish, Contract!Becomes
  <2>8. d \in Dataset
    BY <2>1
  <2>9. QED
    BY <2>7, <2>8 DEF Contract!Next, Contract!Publish
<1>5. CASE FailJob(w) /\ Live(d)
  <2>1. /\ life' = life /\ profile' = profile /\ d \in Dataset /\ job[w].pc = "failing"
        /\ row' = [row EXCEPT ![d].status = "PROFILING_FAILED"]
    BY <1>0, <1>5 DEF FailJob
  <2>2. row[d].status \in Contract!Stored \ {"UPLOADED"}
    BY <1>0, <1>2, <1>5, <2>1 DEF Works, RunningPC
  <2> HIDE DEF d
  <2>3. /\ row'[d].status = "PROFILING_FAILED"
        /\ \A e \in Dataset \ {d} : row'[e].status = row[e].status
    BY <1>0, <2>1 DEF Row
  <2>4. /\ ContractStatus[d] = row[d].status
        /\ ContractStatus' = [e \in Dataset |->
              IF e \in {d} THEN "PROFILING_FAILED" ELSE ContractStatus[e]]
    BY <1>5, <2>1, <2>3 DEF ContractStatus, Live
  <2>5. Contract!Fail({d})
    BY <2>1, <2>2, <2>4 DEF Contract!Fail
  <2>6. QED
    BY <2>1, <2>5 DEF Contract!Next
<1>6. QED
  BY <1>1, <1>3, <1>4, <1>5
     DEF JobStep, LoadJob, StartJob, ReadSource, Materialise, SelectProfile,
         CommitProfile, FailJob, catalogue

LEMMA ContractNext ==
  ASSUME TypeInv, KpiInv, FilesInv, [Next]_vars
  PROVE  [Contract!Next]_Contract!vars
<1>0. row \in [Dataset -> Row]
  BY DEF TypeInv, TypeOK
<1>1. CASE \E r \in Request : Arrive(r) \/ RequestStep(r)
  BY <1>1, ContractArrive, ContractUpload, ContractDelete, ContractKpi DEF RequestStep
<1>2. CASE \E w \in Worker : JobStep(w)
  BY <1>2, ContractJob
<1>3. CASE \E d \in Dataset : Regenerate(d)
  BY <1>3, ContractStutter DEF Regenerate, catalogue
<1>4. CASE \E d \in Dataset : Age(d)
  BY <1>0, <1>4, ContractStutter DEF Age, Row
<1>5. CASE Die
  BY <1>5, ContractStutter DEF Die, catalogue
<1>6. CASE Boot
  <2>1. CASE row' = row
    BY <1>6, <2>1, ContractStutter DEF Boot
  <2>2. CASE row' = Reconciled
    <3> DEFINE S == {d \in Dataset : Stale(d)}
    <3>1. \A d \in Dataset : row'[d].status =
             IF d \in S THEN "PROFILING_FAILED" ELSE row[d].status
      BY <1>0, <2>2 DEF Reconciled, Row
    <3>2. \A d \in S : Live(d) /\ row[d].status = "PROFILING"
      BY DEF Stale, Busy, FilesInv, RowsInv, NeverValidating
    <3>3. /\ ContractStatus' = [d \in Dataset |->
                IF d \in S THEN "PROFILING_FAILED" ELSE ContractStatus[d]]
          /\ \A d \in S : ContractStatus[d] \in Contract!Stored \ {"UPLOADED"}
      <4> HIDE DEF S
      <4>1. S \subseteq Dataset
        BY DEF S
      <4>2. life' = life
        BY <1>6 DEF Boot
      <4>3. QED
        BY <3>1, <3>2, <4>1, <4>2 DEF ContractStatus, Live, Contract!Stored
    <3>4. Contract!Fail(S)
      BY <1>6, <3>3 DEF Contract!Fail, Boot
    <3>5. QED
      BY <3>4 DEF Contract!Next
  <2>3. QED
    BY <1>6, <2>1, <2>2 DEF Boot
<1>7. CASE UNCHANGED vars
  BY <1>7, ContractStutter DEF vars, catalogue
<1>8. QED
  BY <1>1, <1>2, <1>3, <1>4, <1>5, <1>6, <1>7 DEF Next

\* Whatever runs across each other, a polling client sees the statuses of a dataset
\* in the order the contract allows: it is not told of an outcome before a job took
\* the dataset up, and nothing brings back one that was deleted.
THEOREM ContractIsKept == Spec => ImplementsContract
<1>1. Init => Contract!Init
  BY ContractInit
<1>2. TypeInv /\ KpiInv /\ FilesInv /\ [Next]_vars => [Contract!Next]_Contract!vars
  BY ContractNext
<1>3. QED
  BY <1>1, <1>2, TypeInvariant, KpiInvariant, FilesInvariant, PTL
     DEF Spec, ImplementsContract, Contract!Spec

LEMMA AdvanceStep ==
  ASSUME TypeInv, [Next]_vars
  PROVE  \A d \in Dataset :
            Live(d) /\ life'[d] = "live" /\ profile'[d] # profile[d]
               => profile'[d] = profile[d] + 1
<1>0. /\ life \in [Dataset -> {"unborn", "live", "gone"}]
      /\ profile \in [Dataset -> Nat]
  BY DEF TypeInv, TypeOK
<1>1. CASE \E r \in Request : DeleteRow(r)
  BY <1>0, <1>1 DEF DeleteRow
<1>2. CASE \E w \in Worker : CommitProfile(w)
  BY <1>0, <1>2 DEF CommitProfile, ProfileConflicts
<1>3. CASE profile' = profile
  BY <1>3
<1>4. [Next]_vars => \/ \E r \in Request : DeleteRow(r)
                     \/ \E w \in Worker : CommitProfile(w)
                     \/ profile' = profile
  <2> USE DEF catalogue, kpiTables, process
  <2>1. CASE \E r \in Request : Arrive(r)
    BY <2>1 DEF Arrive, BeginUpload, BeginSqlSave, BeginDelete, BeginCreateKpi,
                BeginDeleteKpi
  <2>2. CASE \E r \in Request : UploadStep(r)
    BY <2>2 DEF UploadStep, StartStream, StreamOk, StreamFail, StreamEmpty, FailUpload,
                CommitUpload, RejectDuplicate, AcceptUpload, RunSqlSave, CommitSqlSave
  <2>3. CASE \E r \in Request : DeleteStep(r)
    BY <2>3 DEF DeleteStep, UnlinkSource, UnlinkNormalized, Unlink
  <2>4. CASE \E r \in Request : KpiStep(r)
    BY <2>4 DEF KpiStep, ReadForKpi, CommitKpi, AbortKpi, FindKpi, DropKpi
  <2>5. CASE \E w \in Worker : JobStep(w)
    BY <2>5 DEF JobStep, LoadJob, StartJob, ReadSource, Materialise, SelectProfile,
                FailJob
  <2>6. QED
    BY <2>1, <2>2, <2>3, <2>4, <2>5
       DEF Next, RequestStep, Regenerate, Age, Die, Boot, vars
<1>5. QED
  BY <1>1, <1>2, <1>3, <1>4

\* No job replaces a profile it has not seen: while a dataset exists its profile
\* version moves by one at a time, in every step.
THEOREM ProfileVersionsAdvance == Spec => ProfileAdvances
<1>1. TypeInv /\ [Next]_vars =>
         [\A d \in Dataset :
             Live(d) /\ life'[d] = "live" /\ profile'[d] # profile[d]
                => profile'[d] = profile[d] + 1]_vars
  BY AdvanceStep
<1>2. QED
  BY <1>1, TypeInvariant, PTL DEF Spec, ProfileAdvances

-----------------------------------------------------------------------------
(***************************************************************************)
(* The upload endpoints run on one event loop, and between two awaits a    *)
(* coroutine has it for itself.  The commit of an upload, the search for   *)
(* duplicates and the rejection fall into one such stretch: this is what   *)
(* keeps two uploads of one file from both staying and from both going.    *)
(***************************************************************************)

LoopPC == {"created", "landed", "failUpload", "finalise", "unlinkSource",
           "unlinkNormalized", "deleteRow"}
JudgePC == {"finalise", "unlinkSource", "unlinkNormalized", "deleteRow"}

\* At most one coroutine holds the loop.
OneHolder == \A q, r \in Request : req[q].loop /\ req[r].loop => q = r

\* Where the loop is held: from a stream that ended to the end of the verdict.
\* The checksum of a SQL save is never one of an uploaded file.
LoopAs(s) ==
    /\ s.loop => s.pc \in LoopPC
    /\ s.pc \in {"landed", "finalise"} => s.loop
    /\ s.pc = "sqlLanded" => s.sum \in SqlContent

\* A restart forgets the verdicts that were pending.
NoDuplicateSinceStart == restarts = 0 => NoDuplicateUploads

LoopInv == OneHolder /\ \A r \in Request : LoopAs(req[r])
DuplicateInv == RejectDuplicates => NoDuplicateSinceStart

LEMMA LoopInit == Init => LoopInv /\ DuplicateInv
  BY NoneAssumption
     DEF Init, LoopInv, OneHolder, LoopAs, DuplicateInv, NoDuplicateSinceStart,
         NoDuplicateUploads, IdleRequest, Live

\* One request moves; it takes the loop only when it is free.
LEMMA LoopMoves ==
  ASSUME TypeInv, LoopInv, NEW r \in Request, NEW s, req' = [req EXCEPT ![r] = s],
         LoopAs(s), s.loop => req[r].loop \/ LoopFree
  PROVE  LoopInv'
<1>1. req \in [Request -> RequestState]
  BY DEF TypeInv, TypeOK
<1>2. OneHolder'
  BY <1>1 DEF LoopInv, OneHolder, LoopFree
<1>3. \A q \in Request : LoopAs(req[q])'
  BY <1>1 DEF LoopInv, LoopAs
<1>4. QED
  BY <1>2, <1>3 DEF LoopInv

Judged(s, d) == s.ds = d /\ s.loop /\ s.pc \in JudgePC

\* No upload gets a checksum, and nobody stops judging a dataset that stays.
LEMMA DuplicateFrame ==
  ASSUME TypeInv, DuplicateInv, restarts' = 0 => restarts = 0,
         \A e \in Dataset : Live(e)' =>
            (Live(e) /\ row'[e].sum = row[e].sum) \/ row'[e].sum \notin Content,
         \A e \in Dataset, q \in Request :
            Live(e)' /\ Judged(req[q], e) => Judged(req'[q], e)
  PROVE  DuplicateInv'
<1>1. SUFFICES ASSUME RejectDuplicates, NoDuplicateUploads PROVE NoDuplicateUploads'
  BY DEF DuplicateInv, NoDuplicateSinceStart
<1>2. ASSUME NEW e \in Dataset, BeingJudged(e), Live(e)' PROVE BeingJudged(e)'
  BY <1>2 DEF BeingJudged, Judged, JudgePC
<1>3. QED
  BY <1>1, <1>2 DEF NoDuplicateUploads, Live

\* Steps of a request that is not judging and writes no checksum.
LEMMA NotJudging ==
  ASSUME TypeInv, LoopInv, DuplicateInv, NEW r \in Request, NEW s,
         req' = [req EXCEPT ![r] = s], restarts' = restarts,
         req[r].pc \notin JudgePC \/ ~req[r].loop,
         LoopAs(s), s.loop => req[r].loop \/ LoopFree,
         \A e \in Dataset : Live(e)' =>
            (Live(e) /\ row'[e].sum = row[e].sum) \/ row'[e].sum \notin Content
  PROVE  LoopInv' /\ DuplicateInv'
<1>1. \A q \in Request, e \in Dataset : Judged(req[q], e) => Judged(req'[q], e)
  BY DEF Judged, TypeInv, TypeOK
<1>2. QED
  BY <1>1, LoopMoves, DuplicateFrame

LEMMA ArriveLoop ==
  ASSUME TypeInv, LoopInv, DuplicateInv, NEW r \in Request, Arrive(r)
  PROVE  LoopInv' /\ DuplicateInv'
<1>1. PICK d \in Dataset :
         \/ BeginUpload(r, d) \/ BeginSqlSave(r, d) \/ BeginDelete(r, d)
         \/ BeginCreateKpi(r, d) \/ BeginDeleteKpi(r, d)
  BY DEF Arrive
<1> DEFINE s1 == [IdleRequest EXCEPT !.pc = "created", !.ds = d, !.loop = TRUE]
           s2 == [IdleRequest EXCEPT !.pc = "sqlRun", !.ds = d]
           s3 == [IdleRequest EXCEPT !.pc = "unlinkSource", !.ds = d,
                        !.stored = row[d].stored, !.norm = row[d].norm]
           s4 == [IdleRequest EXCEPT !.pc = "kpiRead", !.ds = d, !.seen = row[d].status]
           s5 == [IdleRequest EXCEPT !.pc = "kpiFind", !.ds = d, !.seen = row[d].status]
<1>2. LoopAs(s1) /\ LoopAs(s2) /\ LoopAs(s3) /\ LoopAs(s4) /\ LoopAs(s5)
  BY DEF LoopAs, LoopPC, IdleRequest
<1>3. ~s2.loop /\ ~s3.loop /\ ~s4.loop /\ ~s5.loop
  BY DEF IdleRequest
<1>4. PICK s \in {s1, s2, s3, s4, s5} :
         req' = [req EXCEPT ![r] = s] /\ (s.loop => LoopFree)
  <2>1. \/ req' = [req EXCEPT ![r] = s1] /\ LoopFree
        \/ req' = [req EXCEPT ![r] = s2] \/ req' = [req EXCEPT ![r] = s3]
        \/ req' = [req EXCEPT ![r] = s4] \/ req' = [req EXCEPT ![r] = s5]
    BY <1>1 DEF BeginUpload, BeginSqlSave, BeginDelete, BeginCreateKpi, BeginDeleteKpi
  <2> HIDE DEF s1, s2, s3, s4, s5
  <2>2. QED
    BY <1>3, <2>1
<1> HIDE DEF s1, s2, s3, s4, s5
<1>5. LoopAs(s) /\ (s.loop => LoopFree)
  BY <1>2, <1>3, <1>4
<1>6. req[r].pc \notin JudgePC /\ restarts' = restarts
  BY <1>1 DEF BeginUpload, BeginSqlSave, BeginDelete, BeginCreateKpi, BeginDeleteKpi,
              JudgePC, process
<1>7. ASSUME NEW e \in Dataset, Live(e)'
      PROVE  (Live(e) /\ row'[e].sum = row[e].sum) \/ row'[e].sum \notin Content
  <2>1. CASE BeginUpload(r, d) \/ BeginSqlSave(r, d)
    <3>1. /\ \E u : row' = [row EXCEPT ![d] = NewRow(u)]
          /\ life' = [life EXCEPT ![d] = "live"]
      BY <2>1 DEF BeginUpload, BeginSqlSave
    <3>2. QED
      BY <1>7, <3>1, NoneAssumption DEF NewRow, Live, TypeInv, TypeOK
  <2>2. CASE UNCHANGED catalogue
    BY <1>7, <2>2 DEF catalogue, Live
  <2>3. QED
    BY <1>1, <2>1, <2>2 DEF BeginDelete, BeginCreateKpi, BeginDeleteKpi
<1>8. QED
  BY <1>4, <1>5, <1>6, <1>7, NotJudging

LEMMA UploadLoop ==
  ASSUME TypeInv, LoopInv, DuplicateInv, NEW r \in Request, UploadStep(r)
  PROVE  LoopInv' /\ DuplicateInv'
<1> DEFINE d == req[r].ds
<1>0. /\ req[r] \in RequestState /\ (req[r].pc # "idle" => d \in Dataset)
      /\ req \in [Request -> RequestState] /\ row \in [Dataset -> Row]
      /\ LoopAs(req[r])
  BY DEF TypeInv, TypeOK, RequestsInv, Born, LoopInv
<1>r. UNCHANGED <<life, restarts>>
  BY DEF UploadStep, StartStream, StreamOk, StreamFail, StreamEmpty, FailUpload,
         CommitUpload, RejectDuplicate, AcceptUpload, RunSqlSave, CommitSqlSave,
         catalogue, process
<1>i. LoopAs(IdleRequest) /\ ~IdleRequest.loop
  BY DEF LoopAs, IdleRequest
<1>1. CASE StartStream(r)
  <2> DEFINE s == [req[r] EXCEPT !.pc = "streaming", !.loop = FALSE]
  <2>1. /\ req' = [req EXCEPT ![r] = s] \/ req' = [req EXCEPT ![r] = IdleRequest]
        /\ req[r].pc = "created"
    BY <1>1 DEF StartStream, EndRequest
  <2>2. s.pc = "streaming" /\ ~s.loop
    BY <1>0 DEF RequestState
  <2>3. LoopAs(s)
    BY <2>2 DEF LoopAs
  <2>4. \A e \in Dataset : row'[e].sum = row[e].sum
    BY <1>0, <1>1 DEF StartStream, Row
  <2> HIDE DEF s
  <2>5. QED
    BY <1>i, <1>r, <2>1, <2>2, <2>3, <2>4, NotJudging DEF JudgePC, Live
<1>2. CASE \E c \in Content : StreamOk(r, c)
  <2>1. PICK c \in Content : StreamOk(r, c)
    BY <1>2
  <2> DEFINE s == [req[r] EXCEPT !.pc = "landed", !.sum = c, !.loop = TRUE]
  <2>2. s.pc = "landed" /\ s.loop
    BY <1>0 DEF RequestState
  <2>3. LoopAs(s)
    BY <2>2 DEF LoopAs, LoopPC
  <2>4. /\ req' = [req EXCEPT ![r] = s] /\ LoopFree /\ req[r].pc = "streaming"
        /\ row' = row
    BY <2>1 DEF StreamOk, catalogue
  <2> HIDE DEF s
  <2>5. QED
    BY <1>r, <2>3, <2>4, NotJudging DEF JudgePC, Live
<1>3. CASE StreamFail(r) \/ StreamEmpty(r)
  <2> DEFINE s == [req[r] EXCEPT !.pc = "failUpload", !.loop = TRUE]
  <2>1. s.pc = "failUpload" /\ s.loop
    BY <1>0 DEF RequestState
  <2>2. LoopAs(s)
    BY <2>1 DEF LoopAs, LoopPC
  <2>3. /\ req' = [req EXCEPT ![r] = s] \/ req' = [req EXCEPT ![r] = IdleRequest]
        /\ LoopFree /\ req[r].pc = "streaming" /\ row' = row
    BY <1>3 DEF StreamFail, StreamEmpty, EndRequest, catalogue
  <2> HIDE DEF s
  <2>4. QED
    BY <1>i, <1>r, <2>2, <2>3, NotJudging DEF JudgePC, Live
<1>4. CASE FailUpload(r)
  <2>1. /\ req' = [req EXCEPT ![r] = IdleRequest] /\ req[r].pc = "failUpload"
        /\ \A e \in Dataset : row'[e].sum = row[e].sum
    BY <1>0, <1>4 DEF FailUpload, EndRequest, Row
  <2>2. QED
    BY <1>i, <1>r, <2>1, NotJudging DEF JudgePC, Live
<1>5. CASE CommitUpload(r)
  <2> DEFINE s == [req[r] EXCEPT !.pc = "finalise"]
             n == [row[d] EXCEPT !.stored = TRUE, !.sum = req[r].sum,
                                 !.upload = "STORED", !.status = "UPLOADED"]
  <2>0. req[r].pc = "landed" /\ req[r].loop
    BY <1>0, <1>5 DEF CommitUpload, LoopAs
  <2>1. CASE ~Live(d)
    <3>1. req' = [req EXCEPT ![r] = IdleRequest] /\ row' = row
      BY <1>5, <2>1 DEF CommitUpload, EndRequest
    <3>2. QED
      BY <1>i, <1>r, <2>0, <3>1, NotJudging DEF JudgePC, Live
  <2>2. CASE Live(d)
    <3>1. /\ req' = [req EXCEPT ![r] = s] /\ row' = [row EXCEPT ![d] = n] /\ d \in Dataset
      BY <1>0, <1>5, <2>0, <2>2 DEF CommitUpload, Goto
    <3>2. s.pc = "finalise" /\ s.loop /\ s.ds = d
      BY <1>0, <2>0 DEF RequestState
    <3>3. LoopAs(s)
      BY <3>2 DEF LoopAs, LoopPC
    <3> HIDE DEF s, n
    <3>4. LoopInv'
      BY <2>0, <3>1, <3>3, LoopMoves
    <3>5. \A e \in Dataset : ~BeingJudged(e)
      BY <2>0 DEF BeingJudged, LoopInv, OneHolder
    <3>6. BeingJudged(d)'
      <4>1. req'[r] = s
        BY <1>0, <3>1
      <4> HIDE DEF d
      <4>2. \E q \in Request :
               /\ req'[q].ds = d /\ req'[q].loop
               /\ req'[q].pc \in {"finalise", "unlinkSource", "unlinkNormalized", "deleteRow"}
        BY <3>2, <4>1
      <4>3. d' = d
        BY <3>2, <4>1 DEF d
      <4>4. QED
        BY <4>2, <4>3 DEF BeingJudged
    <3>7. DuplicateInv'
      <4>1. SUFFICES ASSUME RejectDuplicates, NoDuplicateUploads PROVE NoDuplicateUploads'
        BY <1>r DEF DuplicateInv, NoDuplicateSinceStart
      <4>2. \A e \in Dataset \ {d} : row'[e] = row[e]
        BY <1>0, <3>1
      <4>3. \E q \in Request :
               /\ req'[q].ds = d /\ req'[q].loop
               /\ req'[q].pc \in {"finalise", "unlinkSource", "unlinkNormalized", "deleteRow"}
        BY <1>0, <3>1, <3>2
      <4> HIDE DEF d
      <4>4. ASSUME NEW e \in Dataset, NEW f \in Dataset, e # f, e # d, f # d,
                   Live(e), Live(f), row[e].sum = row[f].sum, row[e].sum \in Content
            PROVE  FALSE
        BY <3>5, <4>1, <4>4 DEF NoDuplicateUploads
      <4>5. QED
        BY <1>r, <4>2, <4>3, <4>4 DEF NoDuplicateUploads, BeingJudged, Live
    <3>8. QED
      BY <3>4, <3>7
  <2>3. QED
    BY <2>1, <2>2
<1>6. CASE RejectDuplicate(r)
  <2> DEFINE s == [req[r] EXCEPT !.pc = "unlinkSource", !.stored = TRUE]
  <2>1. req' = [req EXCEPT ![r] = s] /\ row' = row /\ req[r].pc = "finalise"
    BY <1>6 DEF RejectDuplicate, catalogue
  <2>2. s.pc = "unlinkSource" /\ s.loop = req[r].loop /\ s.ds = d
    BY <1>0 DEF RequestState
  <2>3. LoopAs(s)
    BY <2>2 DEF LoopAs, LoopPC
  <2> HIDE DEF s
  <2>4. LoopInv'
    BY <2>1, <2>2, <2>3, LoopMoves
  <2>5. \A q \in Request, e \in Dataset : Judged(req[q], e) => Judged(req'[q], e)
    BY <1>0, <2>1, <2>2 DEF Judged, JudgePC
  <2>6. QED
    BY <1>r, <2>1, <2>4, <2>5, DuplicateFrame DEF Live
<1>7. CASE AcceptUpload(r)
  <2>1. req' = [req EXCEPT ![r] = IdleRequest] /\ row' = row
        /\ (Live(d) => ~(RejectDuplicates /\ Duplicates(d) # {}))
    BY <1>7 DEF AcceptUpload, EndRequest, catalogue
  <2>2. LoopInv'
    BY <1>i, <2>1, LoopMoves
  <2>3. \A q \in Request : q # r => req'[q] = req[q]
    BY <1>0, <2>1
  <2>4. DuplicateInv'
    <3>1. SUFFICES ASSUME RejectDuplicates, NoDuplicateUploads PROVE NoDuplicateUploads'
      BY <1>r DEF DuplicateInv, NoDuplicateSinceStart
    <3>2. \A e \in Dataset : BeingJudged(e) => e = d \/ \E q \in Request :
             /\ req'[q].ds = e /\ req'[q].loop
             /\ req'[q].pc \in {"finalise", "unlinkSource", "unlinkNormalized", "deleteRow"}
      BY <2>3 DEF BeingJudged
    <3>3. Live(d) => \A e \in Dataset \ {d} :
             Live(e) /\ row[e].sum = row[d].sum => row[e].sum = None
      BY <2>1, <3>1 DEF Duplicates
    <3> HIDE DEF d
    <3>4. QED
      BY <1>r, <2>1, <3>1, <3>2, <3>3, NoneAssumption
         DEF NoDuplicateUploads, BeingJudged, Live
  <2>5. QED
    BY <2>2, <2>4
<1>8. CASE RunSqlSave(r)
  <2>1. CASE \E c \in SqlContent : req' = [req EXCEPT ![r].pc = "sqlLanded", ![r].sum = c]
    <3>1. PICK c \in SqlContent : req' = [req EXCEPT ![r].pc = "sqlLanded", ![r].sum = c]
      BY <2>1
    <3> DEFINE s == [req[r] EXCEPT !.pc = "sqlLanded", !.sum = c]
    <3>2. s.pc = "sqlLanded" /\ s.sum = c /\ s.loop = req[r].loop
      BY <1>0 DEF RequestState
    <3>3. req' = [req EXCEPT ![r] = s] /\ row' = row /\ req[r].pc = "sqlRun"
      BY <1>8, <3>1 DEF RunSqlSave, catalogue
    <3> HIDE DEF s
    <3>4. ~req[r].loop
      BY <1>0, <3>3 DEF LoopAs, LoopPC
    <3>5. LoopAs(s)
      BY <3>2, <3>4 DEF LoopAs
    <3>6. QED
      BY <1>r, <3>2, <3>3, <3>4, <3>5, NotJudging DEF Live
  <2>2. CASE Goto(r, "failUpload")
    <3> DEFINE s == [req[r] EXCEPT !.pc = "failUpload"]
    <3>1. s.pc = "failUpload" /\ s.loop = req[r].loop
      BY <1>0 DEF RequestState
    <3>2. LoopAs(s)
      BY <3>1 DEF LoopAs, LoopPC
    <3>3. req' = [req EXCEPT ![r] = s] /\ row' = row /\ req[r].pc = "sqlRun"
      BY <1>8, <2>2 DEF RunSqlSave, Goto, catalogue
    <3> HIDE DEF s
    <3>4. QED
      BY <1>r, <3>1, <3>2, <3>3, NotJudging DEF JudgePC, Live
  <2>3. QED
    BY <1>8, <2>1, <2>2 DEF RunSqlSave
<1>9. CASE CommitSqlSave(r)
  <2> DEFINE n == [row[d] EXCEPT !.stored = TRUE, !.norm = "source", !.sum = req[r].sum,
                                 !.upload = "STORED", !.status = "UPLOADED"]
             s == [req[r] EXCEPT !.pc = "failUpload"]
  <2>0. req[r].pc = "sqlLanded" /\ d \in Dataset /\ req[r].sum \notin Content
    BY <1>0, <1>9, ContentAssumption DEF CommitSqlSave, LoopAs
  <2>1. CASE Live(d)
    <3>1. req' = [req EXCEPT ![r] = IdleRequest] /\ row' = [row EXCEPT ![d] = n]
      BY <1>9, <2>1 DEF CommitSqlSave, EndRequest
    <3>2. n.sum \notin Content
      BY <1>0, <2>0 DEF Row
    <3> HIDE DEF n
    <3>3. \A e \in Dataset : row'[e].sum = row[e].sum \/ row'[e].sum \notin Content
      BY <1>0, <3>1, <3>2
    <3>4. QED
      BY <1>i, <1>r, <2>0, <3>1, <3>3, NotJudging DEF JudgePC, Live
  <2>2. CASE ~Live(d)
    <3>1. s.pc = "failUpload" /\ s.loop = req[r].loop
      BY <1>0 DEF RequestState
    <3>2. LoopAs(s)
      BY <3>1 DEF LoopAs, LoopPC
    <3>3. req' = [req EXCEPT ![r] = s] /\ row' = row
      BY <1>9, <2>2 DEF CommitSqlSave, Goto
    <3> HIDE DEF s
    <3>4. QED
      BY <1>r, <2>0, <3>1, <3>2, <3>3, NotJudging DEF JudgePC, Live
  <2>3. QED
    BY <2>1, <2>2
<1>10. QED
  BY <1>1, <1>2, <1>3, <1>4, <1>5, <1>6, <1>7, <1>8, <1>9 DEF UploadStep

\* Deleting, for a client or for a rejected duplicate: the verdict is in force
\* until the row is gone.
LEMMA DeleteLoop ==
  ASSUME TypeInv, LoopInv, DuplicateInv, NEW r \in Request, DeleteStep(r)
  PROVE  LoopInv' /\ DuplicateInv'
<1> DEFINE d == req[r].ds
<1>0. /\ req[r] \in RequestState /\ (req[r].pc # "idle" => d \in Dataset)
      /\ req \in [Request -> RequestState] /\ LoopAs(req[r])
  BY DEF TypeInv, TypeOK, RequestsInv, Born, LoopInv
<1>1. CASE UnlinkSource(r) \/ UnlinkNormalized(r)
  <2>1. PICK p \in {"unlinkNormalized", "deleteRow"} :
           req' = [req EXCEPT ![r] = [req[r] EXCEPT !.pc = p]]
    BY <1>1 DEF UnlinkSource, UnlinkNormalized, Unlink, Goto
  <2> DEFINE s == [req[r] EXCEPT !.pc = p]
  <2>2. s.pc = p /\ s.loop = req[r].loop /\ s.ds = d
    BY <1>0 DEF RequestState
  <2>3. LoopAs(s)
    BY <2>2 DEF LoopAs, LoopPC
  <2>4. req' = [req EXCEPT ![r] = s] /\ UNCHANGED <<life, row, restarts>>
    BY <1>1, <2>1 DEF UnlinkSource, UnlinkNormalized, Unlink, catalogue, process
  <2> HIDE DEF s
  <2>5. LoopInv'
    BY <2>2, <2>3, <2>4, LoopMoves
  <2>6. \A q \in Request, e \in Dataset : Judged(req[q], e) => Judged(req'[q], e)
    BY <1>0, <2>2, <2>4 DEF Judged, JudgePC
  <2>7. QED
    BY <2>4, <2>5, <2>6, DuplicateFrame DEF Live
<1>2. CASE DeleteRow(r)
  <2>1. /\ life' = [life EXCEPT ![d] = "gone"] /\ d \in Dataset
        /\ row' = [row EXCEPT ![d] = NewRow("PENDING")]
        /\ req' = [req EXCEPT ![r] = IdleRequest] /\ restarts' = restarts
    BY <1>0, <1>2 DEF DeleteRow, EndRequest, process
  <2>2. LoopAs(IdleRequest) /\ ~IdleRequest.loop
    BY DEF LoopAs, IdleRequest
  <2>3. LoopInv'
    BY <2>1, <2>2, LoopMoves
  <2>4. ASSUME NEW e \in Dataset, Live(e)'
        PROVE  e # d /\ Live(e) /\ row'[e].sum = row[e].sum
    BY <2>1, <2>4 DEF Live, TypeInv, TypeOK
  <2>5. \A q \in Request, e \in Dataset :
           Live(e)' /\ Judged(req[q], e) => Judged(req'[q], e)
    BY <1>0, <2>1, <2>4 DEF Judged
  <2>6. QED
    BY <2>1, <2>3, <2>4, <2>5, DuplicateFrame
<1>3. QED
  BY <1>1, <1>2 DEF DeleteStep

LEMMA KpiLoop ==
  ASSUME TypeInv, LoopInv, DuplicateInv, NEW r \in Request, KpiStep(r)
  PROVE  LoopInv' /\ DuplicateInv'
<1> DEFINE d == req[r].ds
<1>0. /\ req[r] \in RequestState /\ (req[r].pc # "idle" => d \in Dataset)
      /\ req \in [Request -> RequestState] /\ LoopAs(req[r])
      /\ row \in [Dataset -> Row]
  BY DEF TypeInv, TypeOK, RequestsInv, Born, LoopInv
<1>1. /\ req[r].pc \in {"kpiRead", "kpiCommit", "kpiFind", "kpiDrop"}
      /\ UNCHANGED <<life, restarts>>
  BY DEF KpiStep, ReadForKpi, CommitKpi, AbortKpi, FindKpi, DropKpi, catalogue, process
<1>2. \A e \in Dataset : row'[e].sum = row[e].sum
  <2>1. CASE \E k \in Kpi : CommitKpi(r, k)
    BY <1>0, <2>1 DEF CommitKpi, Row
  <2>2. CASE DropKpi(r)
    BY <1>0, <2>2 DEF DropKpi, Row
  <2>3. QED
    BY <2>1, <2>2 DEF KpiStep, ReadForKpi, AbortKpi, FindKpi, catalogue
<1>3. \E s : req' = [req EXCEPT ![r] = s] /\ ~s.loop
             /\ s.pc \in {"idle", "kpiCommit", "kpiDrop"}
  <2>0. ~req[r].loop
    BY <1>0, <1>1 DEF LoopAs, LoopPC
  <2>1. CASE req' = [req EXCEPT ![r] = IdleRequest]
    <3>1. IdleRequest.pc = "idle" /\ ~IdleRequest.loop
      BY DEF IdleRequest
    <3>2. QED
      BY <2>1, <3>1
  <2>2. CASE req' = [req EXCEPT ![r].pc = "kpiCommit", ![r].acts = ActiveOf(d)]
    <3> DEFINE s == [req[r] EXCEPT !.pc = "kpiCommit", !.acts = ActiveOf(d)]
    <3>1. s.pc = "kpiCommit" /\ ~s.loop
      BY <1>0, <2>0 DEF RequestState
    <3>2. req' = [req EXCEPT ![r] = s]
      BY <2>2
    <3> HIDE DEF s
    <3>3. QED
      BY <3>1, <3>2
  <2>3. ASSUME NEW k \in Kpi,
               req' = [req EXCEPT ![r].pc = "kpiDrop", ![r].kpi = k,
                                  ![r].was = (k \in active)]
        PROVE  \E s : req' = [req EXCEPT ![r] = s] /\ ~s.loop
                      /\ s.pc \in {"idle", "kpiCommit", "kpiDrop"}
    <3> DEFINE s == [req[r] EXCEPT !.pc = "kpiDrop", !.kpi = k, !.was = (k \in active)]
    <3>1. s.pc = "kpiDrop" /\ ~s.loop
      BY <1>0, <2>0 DEF RequestState
    <3>2. req' = [req EXCEPT ![r] = s]
      BY <2>3
    <3> HIDE DEF s
    <3>3. QED
      BY <3>1, <3>2
  <2>4. \A k \in KpisOf(d) : k \in Kpi
    BY DEF KpisOf, TypeInv, TypeOK
  <2>5. QED
    BY <2>1, <2>2, <2>3, <2>4
       DEF KpiStep, ReadForKpi, CommitKpi, AbortKpi, FindKpi, DropKpi, EndRequest
<1>4. PICK s : req' = [req EXCEPT ![r] = s] /\ ~s.loop
               /\ s.pc \in {"idle", "kpiCommit", "kpiDrop"}
  BY <1>3
<1>5. LoopAs(s) /\ req[r].pc \notin JudgePC
  BY <1>1, <1>4 DEF LoopAs, JudgePC
<1>6. QED
  BY <1>1, <1>2, <1>4, <1>5, NotJudging DEF Live

LEMMA NextLoop ==
  ASSUME TypeInv, LoopInv, DuplicateInv, [Next]_vars
  PROVE  LoopInv' /\ DuplicateInv'
<1>0. row \in [Dataset -> Row] /\ restarts \in 0..MaxRestarts
  BY DEF TypeInv, TypeOK
<1>1. CASE \E r \in Request : Arrive(r) \/ RequestStep(r)
  BY <1>1, ArriveLoop, UploadLoop, DeleteLoop, KpiLoop DEF RequestStep
<1>2. ASSUME UNCHANGED <<life, req, restarts>>,
             \A e \in Dataset : row'[e].sum = row[e].sum
      PROVE  LoopInv' /\ DuplicateInv'
  <2>1. LoopInv'
    BY <1>2 DEF LoopInv, OneHolder, LoopAs
  <2>2. QED
    BY <1>2, <2>1, DuplicateFrame DEF Live
<1>3. CASE \E w \in Worker : JobStep(w)
  <2>1. PICK w \in Worker : JobStep(w)
    BY <1>3
  <2>2. UNCHANGED <<life, req, restarts>>
    BY <2>1 DEF JobStep, LoadJob, StartJob, ReadSource, Materialise, SelectProfile,
                CommitProfile, FailJob, catalogue, process
  <2>3. \A e \in Dataset : row'[e].sum = row[e].sum
    <3> DEFINE n1 == [row[job[w].ds] EXCEPT !.status = StatusAfterStart(w),
                                            !.started = "recent"]
               n2 == [row[job[w].ds] EXCEPT !.status = StatusAfterProfile(w),
                                            !.norm = NormAfterProfile(w)]
               n3 == [row[job[w].ds] EXCEPT !.status = "PROFILING_FAILED"]
    <3>1. job[w].pc # "idle" => job[w].ds \in Dataset
      BY DEF TypeInv, JobsInv, Born
    <3>2. \/ row' = row
          \/ job[w].pc # "idle" /\ \E n \in {n1, n2, n3} : row' = [row EXCEPT ![job[w].ds] = n]
      BY <2>1 DEF JobStep, LoadJob, StartJob, ReadSource, Materialise, SelectProfile,
                  CommitProfile, FailJob, catalogue
    <3>3. job[w].ds \in Dataset => /\ n1.sum = row[job[w].ds].sum
                                   /\ n2.sum = row[job[w].ds].sum
                                   /\ n3.sum = row[job[w].ds].sum
      BY <1>0 DEF Row
    <3> HIDE DEF n1, n2, n3
    <3>4. QED
      BY <1>0, <3>1, <3>2, <3>3
  <2>4. QED
    BY <1>2, <2>2, <2>3
<1>4. CASE \E d \in Dataset : Regenerate(d) \/ Age(d)
  <2>1. \A e \in Dataset : row'[e].sum = row[e].sum
    BY <1>0, <1>4 DEF Regenerate, Age, Row, catalogue
  <2>2. QED
    BY <1>2, <1>4, <2>1 DEF Regenerate, Age, catalogue, process
<1>5. CASE Die
  <2>1. LoopInv'
    BY <1>5 DEF Die, LoopInv, OneHolder, LoopAs, IdleRequest
  <2>2. restarts' # 0
    BY <1>0, <1>5, ConfigAssumption DEF Die
  <2>3. QED
    BY <2>1, <2>2 DEF DuplicateInv, NoDuplicateSinceStart
<1>6. CASE Boot
  <2>1. \A e \in Dataset : row'[e].sum = row[e].sum
    BY <1>0, <1>6 DEF Boot, Reconciled, Row
  <2>2. QED
    BY <1>2, <1>6, <2>1 DEF Boot
<1>7. CASE UNCHANGED vars
  BY <1>2, <1>7 DEF vars, catalogue, process
<1>8. QED
  BY <1>1, <1>3, <1>4, <1>5, <1>6, <1>7 DEF Next

LEMMA LoopInvariant == Spec => [](LoopInv /\ DuplicateInv)
<1>1. Init => LoopInv /\ DuplicateInv
  BY LoopInit
<1>2. TypeInv /\ LoopInv /\ DuplicateInv /\ [Next]_vars => (LoopInv /\ DuplicateInv)'
  BY NextLoop
<1>3. QED
  BY <1>1, <1>2, TypeInvariant, PTL DEF Spec

\* With settings.reject_duplicate_uploads, and until the process first dies, two
\* accepted uploads never have the same content.  (A crash between the commit of
\* an upload and its verdict leaves the duplicate in: nothing judges it again.)
THEOREM AcceptedUploadsDiffer ==
  ASSUME RejectDuplicates
  PROVE  Spec => [](restarts = 0 => NoDuplicateUploads)
<1>1. DuplicateInv => (restarts = 0 => NoDuplicateUploads)
  BY DEF DuplicateInv, NoDuplicateSinceStart
<1>2. QED
  BY <1>1, LoopInvariant, PTL

\* Two uploads of one file are never both being rejected.
THEOREM OneOfTwoStays == Spec => []NeverBothRejected
<1>1. LoopInv => NeverBothRejected
  BY DEF LoopInv, OneHolder, NeverBothRejected, Rejecting
<1>2. QED
  BY <1>1, LoopInvariant, PTL
=============================================================================
