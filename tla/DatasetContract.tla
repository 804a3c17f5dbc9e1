--------------------------- MODULE DatasetContract ---------------------------
(***************************************************************************)
(* What a client that polls GET /api/datasets/{id} may rely on: the order  *)
(* in which the statuses of one dataset can follow each other, and when a  *)
(* profile is there to be read.  No sessions, jobs, files or restarts.     *)
(***************************************************************************)
CONSTANT Dataset

VARIABLES
    status,    \* "unborn", a DatasetStatus, or "gone"
    profiled   \* the datasets whose profile can be read

vars == <<status, profiled>>

\* Statuses of a dataset whose data is stored.
Stored == {"UPLOADED", "PROFILING", "PROFILED", "ANALYSIS_READY",
           "PROFILING_FAILED", "BLOCKED"}

Init ==
    /\ status = [d \in Dataset |-> "unborn"]
    /\ profiled = {}

Becomes(d, from, to) ==
    /\ status[d] \in from
    /\ status' = [status EXCEPT ![d] = to]

Register(d) == Becomes(d, {"unborn"}, "PENDING_UPLOAD") /\ UNCHANGED profiled
Reject(d)   == Becomes(d, {"PENDING_UPLOAD"}, "UPLOAD_FAILED") /\ UNCHANGED profiled
Store(d)    == Becomes(d, {"PENDING_UPLOAD"}, "UPLOADED") /\ UNCHANGED profiled
Process(d)  == Becomes(d, Stored, "PROFILING") /\ UNCHANGED profiled

\* A finished job; a dataset whose upload has just ended has not had one.
Publish(d) ==
    /\ \E verdict \in {"PROFILED", "BLOCKED"} :
           Becomes(d, Stored \ {"UPLOADED"}, verdict)
    /\ profiled' = profiled \cup {d}

\* A failed job, or a restart that gives up on several at once.
Fail(D) ==
    /\ \A d \in D : status[d] \in Stored \ {"UPLOADED"}
    /\ status' = [d \in Dataset |->
                     IF d \in D THEN "PROFILING_FAILED" ELSE status[d]]
    /\ UNCHANGED profiled

\* KPI definitions move a dataset only once it has a profile.
Configure(d) ==
    d \in profiled /\ Becomes(d, Stored, "ANALYSIS_READY") /\ UNCHANGED profiled
Unconfigure(d) ==
    d \in profiled /\ Becomes(d, Stored, "PROFILED") /\ UNCHANGED profiled

Remove(d) ==
    /\ Becomes(d, Stored \cup {"PENDING_UPLOAD", "UPLOAD_FAILED"}, "gone")
    /\ profiled' = profiled \ {d}

Next ==
    \/ \E d \in Dataset :
          \/ Register(d) \/ Reject(d) \/ Store(d) \/ Process(d) \/ Publish(d)
          \/ Configure(d) \/ Unconfigure(d) \/ Remove(d)
    \/ \E D \in SUBSET Dataset : Fail(D)

Spec == Init /\ [][Next]_vars
=============================================================================
