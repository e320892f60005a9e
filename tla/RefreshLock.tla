----------------------------- MODULE RefreshLock -----------------------------
(***************************************************************************)
(* What the lock of auth.json promises its users (xai-mad-shell,           *)
(* auth/manager/lock.rs): at most one guard is live, an acquisition that   *)
(* waits ends with a live guard or with none, and a live guard may be      *)
(* broken behind its holder's back, which still_live then tells.  AuthLock *)
(* is shown to implement this module; CredentialRefresh is built on it.    *)
(*                                                                         *)
(* A handle is one use of the lock by one activity.                        *)
(***************************************************************************)
CONSTANTS
    Handle,
    MayBreak    \* does the instance let waiters break the lock of a holder

ASSUME BreakAssumption == MayBreak \in BOOLEAN

VARIABLE guard    \* handle -> where its use of the lock is

\* "waits" is an acquisition with a deadline, "tries" one that does not wait;
\* "broken" is a guard whose lock file was unlinked, "denied" is no guard.
Use == {"idle", "waits", "tries", "live", "broken", "denied"}

GuardTypeOK == guard \in [Handle -> Use]

LockInit == guard = [h \in Handle |-> "idle"]

Put(h, use) == guard' = [guard EXCEPT ![h] = use]
Vacant == \A h \in Handle : guard[h] # "live"
Answered(h) == guard[h] \in {"live", "broken", "denied"}

Lock(h) == guard[h] = "idle" /\ Put(h, "waits")
TryLock(h) == guard[h] = "idle" /\ Put(h, "tries")

Grant(h) == guard[h] \in {"waits", "tries"} /\ Vacant /\ Put(h, "live")

\* Only an acquisition that waits looks again whether its file is still the lock.
GrantUnlinked(h) == MayBreak /\ guard[h] = "tries" /\ Put(h, "broken")

DenyOnlyTries(h) == guard[h] = "tries" /\ Put(h, "denied")

\* The deadline passes, the lock is busy, or a system call fails.
Deny(h) == guard[h] \in {"waits", "tries"} /\ Put(h, "denied")

Break(h) == MayBreak /\ guard[h] = "live" /\ Put(h, "broken")

\* Guards are dropped, by their users or because the process ended.
Drop(S) == guard' = [h \in Handle |-> IF h \in S THEN "idle" ELSE guard[h]]

LockNext ==
    \/ \E h \in Handle : \/ Lock(h) \/ TryLock(h) \/ Grant(h) \/ GrantUnlinked(h)
                         \/ Deny(h) \/ Break(h)
    \/ \E S \in SUBSET Handle : Drop(S)

LockSpec == LockInit /\ [][LockNext]_guard
=============================================================================
