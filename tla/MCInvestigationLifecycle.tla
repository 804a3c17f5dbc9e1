---------------------- MODULE MCInvestigationLifecycle ----------------------
(***************************************************************************)
(* Instances of InvestigationLifecycle for TLC.  Ids and slots are         *)
(* interchangeable, so the safety runs may permute them.                   *)
(***************************************************************************)
EXTENDS InvestigationLifecycle, TLC

Interchangeable ==
    Permutations(Investigation) \cup Permutations(Request)
        \cup Permutations(Writer) \cup Permutations(Kpi)

\* The bound of the large run: the state spaces of two instances are added, not
\* multiplied.  In one there are two runs and two requests beside one transaction and
\* one definition, in the other one run and one request beside two transactions and
\* two definitions.
OverlappingRequests ==
    /\ Cardinality({k \in Kpi : owner[k] # None}) <= 1
    /\ Cardinality({w \in Writer : writer[w].pc # "idle"}) <= 1
OverlappingTransactions ==
    /\ Cardinality({i \in Investigation : inv[i].status # "none"}) <= 1
    /\ Cardinality({r \in Request : req[r].pc # "idle"}) <= 1
BoundedNext == Next /\ (OverlappingRequests \/ OverlappingTransactions)'
BoundedSpec == Init /\ [][BoundedNext]_vars
=============================================================================
