-------------------------- MODULE RefreshLockProofs --------------------------
(***************************************************************************)
(* Facts about RefreshLock for every set of handles that                   *)
(* CredentialRefreshProofs builds on: its steps keep the lock exclusive.   *)
(* That the protocol of lock.rs keeps to these steps, and has one live     *)
(* guard at most, is proved in AuthLockProofs.                             *)
(***************************************************************************)
EXTENDS RefreshLock, TLAPS

OneLive == \A g, h \in Handle : guard[g] = "live" /\ guard[h] = "live" => g = h

\* Without waiters that break locks, no guard is ever a broken one.
NoneBroken == ~MayBreak => \A h \in Handle : guard[h] # "broken"

\* The steps of the lock and of its users on one handle.
HandleStep(h) ==
    \/ Lock(h) \/ TryLock(h) \/ Grant(h) \/ GrantUnlinked(h) \/ Deny(h) \/ Break(h)

\* Every single step keeps the types and the exclusion.
LEMMA HandleStepKeeps ==
    ASSUME GuardTypeOK, OneLive, NoneBroken, NEW h \in Handle, HandleStep(h)
    PROVE  GuardTypeOK' /\ OneLive' /\ NoneBroken'
BY DEF GuardTypeOK, OneLive, NoneBroken, HandleStep, Lock, TryLock, Grant, GrantUnlinked, Deny,
       Break, Put, Vacant, Use

LEMMA DropKeeps ==
    ASSUME GuardTypeOK, OneLive, NoneBroken, NEW S, Drop(S)
    PROVE  GuardTypeOK' /\ OneLive' /\ NoneBroken'
BY DEF GuardTypeOK, OneLive, NoneBroken, Drop, Use

LEMMA LockInitHolds ==
    ASSUME LockInit
    PROVE  GuardTypeOK /\ OneLive /\ NoneBroken
BY DEF LockInit, GuardTypeOK, OneLive, NoneBroken, Use
=============================================================================
