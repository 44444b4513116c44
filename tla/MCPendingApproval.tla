--------------------------- MODULE MCPendingApproval ---------------------------
(* Instances of PendingApproval for TLC.                                      *)
EXTENDS PendingApproval, TLC

Interchangeable == Permutations(Approvals) \cup Permutations(Requests)

\* Host kinds by what a run asks of them.
EveryHost == HostKinds
OnlyShared == {"shared"}
OnlyPerRequest == {"perRequest"}
LongLived == {"shared", "rebuilt"}
Nowhere == {}
===============================================================================
