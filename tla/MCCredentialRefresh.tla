------------------------ MODULE MCCredentialRefresh ------------------------
(* Instances of CredentialRefresh: two tasks in one process, or one task in *)
(* each of two processes.                                                   *)
EXTENDS CredentialRefresh, TLC

CONSTANTS t1, t2, t3, p1, p2

OneProcess == (t1 :> p1) @@ (t2 :> p1)
TwoProcesses == (t1 :> p1) @@ (t3 :> p2)

\* Exchanging the two processes together with their tasks is a symmetry.
Swap == {f \in Permutations({t1, t3, p1, p2}) :
           \A t \in {t1, t3} : f[t] \in {t1, t3} /\ f[TwoProcesses[t]] = TwoProcesses[f[t]]}

Handles == Task \X {"own", "outer"}
=============================================================================
