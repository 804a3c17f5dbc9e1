------------------------- MODULE MCDatasetLifecycle -------------------------
(***************************************************************************)
(* Instances of DatasetLifecycle for TLC.  Request and job slots and KPI   *)
(* ids are interchangeable, so the safety runs may permute them.           *)
(***************************************************************************)
EXTENDS DatasetLifecycle, TLC

Interchangeable ==
    Permutations(Request) \cup Permutations(Worker) \cup Permutations(Kpi)
=============================================================================
