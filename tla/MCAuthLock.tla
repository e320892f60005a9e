----------------------------- MODULE MCAuthLock -----------------------------
(* Instances of AuthLock: one task in each of two processes. *)
EXTENDS AuthLock, TLC

CONSTANTS t1, t2, p1, p2

TwoProcesses == (t1 :> p1) @@ (t2 :> p2)

\* The process that may get stuck leaves no wait behind, the other one does.
Orphans == (p1 :> 0) @@ (p2 :> 1)
=============================================================================
