------------------------------ MODULE AuthLock ------------------------------
(***************************************************************************)
(* The advisory lock `auth.json.lock` that serialises credential refreshes *)
(* across processes (xai-mad-shell, auth/manager/lock.rs): an flock on the *)
(* inode the path names, the holder's PID and timestamp written into it,   *)
(* and waiters that unlink the path when they judge the holder dead or     *)
(* stuck.                                                                  *)
(*                                                                         *)
(* A task acquires the lock along the three phases of                      *)
(* try_lock_auth_file_async, or without waiting; one step below is one     *)
(* system call, since another process may act between any two of them.     *)
(* The timestamp is abstracted to whether it is past                       *)
(* STALE_LOCK_TIMEOUT_SECS.  A process may crash, and it may stop anywhere *)
(* without dying, as one suspended across a system sleep does.             *)
(***************************************************************************)
EXTENDS Naturals, FiniteSets

CONSTANTS
    Task,       \* asynchronous activities that take the lock
    Proc,       \* operating-system processes
    ProcOf,     \* the process a task runs in
    NoProc,     \* the holder information of an empty lock file
    OldInfo,    \* holder information past STALE_LOCK_TIMEOUT_SECS
    MaxInode,   \* bound on the lock files that exist at a time
    MaxOrphan,  \* process -> bound on its waits that outlive their caller
    Cleaner,    \* tasks that also take the lock without waiting, to clean up
    Faulty      \* processes that may end, or stop for good without ending

ASSUME LockAssumption ==
    /\ ProcOf \in [Task -> Proc]
    /\ NoProc \notin Proc /\ OldInfo \notin Proc \cup {NoProc} /\ Faulty \subseteq Proc
    /\ Cleaner \subseteq Task
    /\ MaxInode \in Nat \ {0} /\ MaxOrphan \in [Proc -> Nat]

VARIABLES
    path,    \* the inode auth.json.lock names, 0 when there is no such file
    flock,   \* inode -> the open file that holds its flock
    info,    \* inode -> the PID in the file, or what stands for it
    lk,      \* task -> where it is in the acquisition, and its phase
    fd,      \* task -> the inode its lock file is open on, 0 if closed
    orphan,  \* blocking waits whose caller timed out
    exited,  \* processes that are gone
    stopped  \* processes that take no step any more but still exist

vars == <<path, flock, info, lk, fd, orphan, exited, stopped>>

Inode == 1..MaxInode

Free == [by |-> "free"]
Guard(t) == [by |-> "guard", task |-> t]
Orphan(p) == [by |-> "orphan", proc |-> p]
Holders == {Free} \cup {Guard(t) : t \in Task} \cup {Orphan(p) : p \in Proc}

\* Phase 1 is the instant try, 2 the blocking wait, 3 and 4 the two tries of
\* stale recovery, 5 the non-blocking acquisition of the cleanup callers.
Phase == 1..5
At == {"idle", "open", "try", "wait", "write", "check", "judge", "unlink",
       "over", "got", "none"}
Idle == [at |-> "idle", phase |-> 1]
Got == [at |-> "got", phase |-> 1]            \* Some(guard)
GaveUp == [at |-> "none", phase |-> 1]        \* None
Step(at, t) == [at |-> at, phase |-> lk[t].phase]

\* Type correctness of the lock file, its flocks and the acquisitions.
TypeOK ==
    /\ path \in 0..MaxInode
    /\ flock \in [Inode -> Holders]
    /\ info \in [Inode -> Proc \cup {NoProc, OldInfo}]
    /\ lk \in [Task -> [at : At, phase : Phase]]
    /\ fd \in [Task -> 0..MaxInode]
    /\ orphan \subseteq [proc : Proc, ino : Inode, stage : {"wait", "write", "drop"}]
    /\ exited \subseteq Faulty /\ stopped \subseteq Faulty

Init ==
    /\ path = 0
    /\ flock = [i \in Inode |-> Free]
    /\ info = [i \in Inode |-> NoProc]
    /\ lk = [t \in Task |-> Idle]
    /\ fd = [t \in Task |-> 0]
    /\ orphan = {} /\ exited = {} /\ stopped = {}

Runs(p) == p \notin exited \cup stopped
Alive(t) == Runs(ProcOf[t])
HasGuard(t) == fd[t] # 0 /\ flock[fd[t]] = Guard(t)

-----------------------------------------------------------------------------
(***************************************************************************)
(* Outcomes of one attempt and where try_lock_auth_file_async goes next.   *)
(***************************************************************************)
\* The file of an attempt goes out of scope: the flock it may hold is released.
Close(t) ==
    /\ fd' = [fd EXCEPT ![t] = 0]
    /\ flock' = IF HasGuard(t) THEN [flock EXCEPT ![fd[t]] = Free] ELSE flock

Goto(t, phase) == lk' = [lk EXCEPT ![t] = [at |-> "open", phase |-> phase]]
Exhausted(t) == lk' = [lk EXCEPT ![t] = GaveUp]

\* LockAttempt::Busy: phase 1 goes on to wait, stale recovery gives up.
Busy(t) == IF lk[t].phase = 1 THEN Goto(t, 2) ELSE Exhausted(t)

\* LockAttempt::StaleUnlinked: phase 1 goes on to wait, the first recovery
\* try is repeated once, the second one was the last.
StaleUnlinked(t) ==
    CASE lk[t].phase \in {1, 2} -> Goto(t, 2)
      [] lk[t].phase = 3 -> Goto(t, 4)
      [] OTHER -> lk' = [lk EXCEPT ![t] = Step("over", t)]

StaleOnlyIfDead(i) == info[i] \in exited

\* is_holder_stale: the process is gone, or the information is too old; a file
\* without information is judged by its age alone.
is_holder_stale(i) == info[i] = OldInfo \/ info[i] \in exited

-----------------------------------------------------------------------------
(***************************************************************************)
(* The steps of an acquisition.                                            *)
(***************************************************************************)
\* The two entries: try_lock_auth_file_async and try_lock_auth_file_nonblocking.
Acquire(t) ==
    /\ Alive(t) /\ lk[t].at = "idle"
    /\ \E phase \in {1} \cup (IF t \in Cleaner THEN {5} ELSE {}) : Goto(t, phase)
    /\ UNCHANGED <<path, flock, info, fd, orphan, exited, stopped>>

\* An inode lives while the path names it or a file is open on it.
InUse(i) ==
    \/ i = path \/ flock[i] # Free
    \/ \E t \in Task : fd[t] = i
    \/ \E o \in orphan : o.ino = i

\* open(create): the existing file, or an empty one on a fresh inode.
Open(t) ==
    /\ Alive(t) /\ lk[t].at = "open"
    /\ \/ path # 0 /\ fd' = [fd EXCEPT ![t] = path] /\ UNCHANGED <<path, info>>
       \/ /\ path = 0
          /\ \E i \in Inode :
               /\ ~InUse(i) /\ \A j \in 1..(i - 1) : InUse(j)
               /\ path' = i /\ fd' = [fd EXCEPT ![t] = i]
               /\ info' = [info EXCEPT ![i] = NoProc]
    /\ lk' = [lk EXCEPT ![t] = Step(IF lk[t].phase = 2 THEN "wait" ELSE "try", t)]
    /\ UNCHANGED <<flock, orphan, exited, stopped>>

TakeFlock(t) ==
    /\ flock[fd[t]] = Free
    /\ flock' = [flock EXCEPT ![fd[t]] = Guard(t)]
    /\ lk' = [lk EXCEPT ![t] = Step("write", t)]

\* try_lock_exclusive: taken, or EWOULDBLOCK, on which the cleanup callers give
\* up and the others look at the holder.
TryFlock(t) ==
    /\ Alive(t) /\ lk[t].at = "try"
    /\ \/ TakeFlock(t) /\ UNCHANGED fd
       \/ /\ flock[fd[t]] # Free
          /\ IF lk[t].phase = 5
               THEN Exhausted(t) /\ Close(t)
               ELSE lk' = [lk EXCEPT ![t] = Step("judge", t)] /\ UNCHANGED <<fd, flock>>
    /\ UNCHANGED <<path, info, orphan, exited, stopped>>

\* The blocking flock of phase 2 is granted.
WaitFlock(t) ==
    /\ Alive(t) /\ lk[t].at = "wait"
    /\ TakeFlock(t)
    /\ UNCHANGED <<path, info, fd, orphan, exited, stopped>>

\* write_holder_info: PID and time; a failure leaves an empty file when the
\* truncation succeeded and the old text when it did not, and is only logged.
write_holder_info(i, p) ==
    \/ info' = [info EXCEPT ![i] = p]
    \/ info' = [info EXCEPT ![i] = NoProc]
    \/ UNCHANGED info

WriteInfo(t) ==
    /\ Alive(t) /\ lk[t].at = "write"
    /\ write_holder_info(fd[t], ProcOf[t])
    /\ lk' = [lk EXCEPT ![t] = IF lk[t].phase = 5 THEN Got ELSE Step("check", t)]
    /\ UNCHANGED <<path, flock, fd, orphan, exited, stopped>>

KeepAnyInode(t) ==
    /\ Alive(t) /\ lk[t].at = "check"
    /\ lk' = [lk EXCEPT ![t] = Got]
    /\ UNCHANGED <<path, flock, info, fd, orphan, exited, stopped>>

CheckInodeLeaks(t) ==
    /\ Alive(t) /\ lk[t].at = "check"
    /\ \/ path = fd[t] /\ lk' = [lk EXCEPT ![t] = Got]
       \/ path # fd[t] /\ StaleUnlinked(t)
    /\ UNCHANGED <<path, flock, info, fd, orphan, exited, stopped>>

\* inodes_match: an flock on an inode the path no longer names is given up.
CheckInode(t) ==
    /\ Alive(t) /\ lk[t].at = "check"
    /\ \/ /\ path = fd[t]
          /\ lk' = [lk EXCEPT ![t] = Got] /\ UNCHANGED <<fd, flock>>
       \/ path # fd[t] /\ StaleUnlinked(t) /\ Close(t)
    /\ UNCHANGED <<path, info, orphan, exited, stopped>>

\* The verdict is read from the open file ...
Judge(t) ==
    /\ Alive(t) /\ lk[t].at = "judge"
    /\ \/ /\ is_holder_stale(fd[t])
          /\ lk' = [lk EXCEPT ![t] = Step("unlink", t)] /\ UNCHANGED <<fd, flock>>
       \/ ~is_holder_stale(fd[t]) /\ Busy(t) /\ Close(t)
    /\ UNCHANGED <<path, info, orphan, exited, stopped>>

\* ... and the unlink hits whatever the path names by then.
Unlink(t) ==
    /\ Alive(t) /\ lk[t].at = "unlink"
    /\ \/ path # 0 /\ path' = 0 /\ StaleUnlinked(t)
       \/ path = 0 /\ Busy(t) /\ UNCHANGED path
    /\ Close(t)
    /\ UNCHANGED <<info, orphan, exited, stopped>>

\* The deadline of phase 2 passes between two waits.
Deadline(t) ==
    /\ Alive(t) /\ lk[t].at = "open" /\ lk[t].phase = 2
    /\ Goto(t, 3)
    /\ UNCHANGED <<path, flock, info, fd, orphan, exited, stopped>>

\* The loop of stale recovery ends.
RecoveryOver(t) ==
    /\ Alive(t) /\ lk[t].at = "over"
    /\ Exhausted(t)
    /\ UNCHANGED <<path, flock, info, fd, orphan, exited, stopped>>

\* The deadline passes during a wait: the blocking thread lives on, orphaned,
\* and will still take the flock before it notices that nobody wants it.  (A
\* thread that has not opened the file yet is taken to end with its caller.)
TimeoutWait(t) ==
    LET o == [proc |-> ProcOf[t], ino |-> fd[t],
              stage |-> IF lk[t].at = "check" THEN "drop" ELSE lk[t].at]
    IN
    /\ Alive(t) /\ lk[t].phase = 2 /\ lk[t].at \in {"wait", "write", "check"}
    /\ orphan' = orphan \cup {o}
    /\ Cardinality({w \in orphan' : w.proc = ProcOf[t]}) <= MaxOrphan[ProcOf[t]]
    /\ flock' = IF HasGuard(t) THEN [flock EXCEPT ![fd[t]] = Orphan(ProcOf[t])] ELSE flock
    /\ fd' = [fd EXCEPT ![t] = 0]
    /\ Goto(t, 3)
    /\ UNCHANGED <<path, info, exited, stopped>>

Become(o, stage) == orphan' = (orphan \ {o}) \cup {[o EXCEPT !.stage = stage]}

\* An orphaned thread takes the flock, writes its information and lets go; it
\* ends at once when flock fails.
OrphanStep(o) ==
    /\ o \in orphan /\ Runs(o.proc)
    /\ \/ /\ o.stage = "wait" /\ flock[o.ino] = Free
          /\ flock' = [flock EXCEPT ![o.ino] = Orphan(o.proc)]
          /\ Become(o, "write") /\ UNCHANGED info
       \/ /\ o.stage = "wait"
          /\ orphan' = orphan \ {o} /\ UNCHANGED <<flock, info>>
       \/ /\ o.stage = "write"
          /\ write_holder_info(o.ino, o.proc)
          /\ Become(o, "drop") /\ UNCHANGED flock
       \/ /\ o.stage = "drop"
          /\ flock' = [flock EXCEPT ![o.ino] = Free]
          /\ orphan' = orphan \ {o} /\ UNCHANGED info
    /\ UNCHANGED <<path, lk, fd, exited, stopped>>

\* LockAttempt::Failed: the file cannot be opened or locked.  Stale recovery and
\* the instant try give up, the waiting loop goes round.
FailAttempt(t) ==
    /\ Alive(t) /\ lk[t].at \in {"open", "try", "wait"}
    /\ IF lk[t].phase = 2 THEN Goto(t, 2) ELSE Exhausted(t)
    /\ Close(t)
    /\ UNCHANGED <<path, info, orphan, exited, stopped>>

\* The caller is done with the guard, or has none.
Release(t) ==
    /\ Alive(t) /\ lk[t].at \in {"got", "none"}
    /\ Close(t) /\ lk' = [lk EXCEPT ![t] = Idle]
    /\ UNCHANGED <<path, info, orphan, exited, stopped>>

LockStep(t) ==
    \/ Open(t) \/ TryFlock(t) \/ WaitFlock(t) \/ WriteInfo(t) \/ CheckInode(t)
    \/ Judge(t) \/ Unlink(t) \/ Deadline(t) \/ RecoveryOver(t) \/ TimeoutWait(t)

-----------------------------------------------------------------------------
(***************************************************************************)
(* The environment.                                                        *)
(***************************************************************************)
\* The holder information of an inode becomes older than the stale timeout.
Age(i) ==
    /\ InUse(i) /\ info[i] # OldInfo
    /\ info' = [info EXCEPT ![i] = OldInfo]
    /\ UNCHANGED <<path, flock, lk, fd, orphan, exited, stopped>>

\* A process ends, at any point: the kernel closes its files.
Exit(p) ==
    /\ p \in Faulty \ exited
    /\ exited' = exited \cup {p} /\ stopped' = stopped \ {p}
    /\ lk' = [t \in Task |-> IF ProcOf[t] = p THEN Idle ELSE lk[t]]
    /\ fd' = [t \in Task |-> IF ProcOf[t] = p THEN 0 ELSE fd[t]]
    /\ flock' = [i \in Inode |->
                   IF flock[i] = Orphan(p) \/ \E t \in Task : ProcOf[t] = p /\ flock[i] = Guard(t)
                     THEN Free ELSE flock[i]]
    /\ orphan' = {o \in orphan : o.proc # p}
    /\ UNCHANGED <<path, info>>

\* A process stops anywhere and keeps what it holds.
Stop(p) ==
    /\ p \in Faulty /\ Runs(p)
    /\ stopped' = stopped \cup {p}
    /\ UNCHANGED <<path, flock, info, lk, fd, orphan, exited>>

Next ==
    \/ \E t \in Task : Acquire(t) \/ LockStep(t) \/ FailAttempt(t) \/ Release(t)
    \/ \E o \in orphan : OrphanStep(o)
    \/ \E i \in Inode : Age(i)
    \/ \E p \in Proc : Exit(p) \/ Stop(p)

Spec == Init /\ [][Next]_vars

\* Threads of a healthy process run; the deadline is not over when the
\* waiting starts, the kernel's queue for an flock is first come, first served,
\* and what follows the grant takes no time against the deadline; time passes
\* for a file nobody writes to.
Fairness ==
    /\ \A t \in {u \in Task : ProcOf[u] \notin Faulty} :
         /\ WF_vars(LockStep(t)) /\ SF_vars(lk[t].phase = 2 /\ Open(t))
         /\ SF_vars(WaitFlock(t)) /\ SF_vars(WriteInfo(t)) /\ SF_vars(CheckInode(t))
    /\ \A p \in Proc \ Faulty : WF_vars(\E o \in orphan : o.proc = p /\ OrphanStep(o))
    /\ WF_vars(\E i \in Inode : Age(i))

FairSpec == Spec /\ Fairness

-----------------------------------------------------------------------------
(***************************************************************************)
(* The lock implements RefreshLock.                                        *)
(***************************************************************************)
\* AuthFileLock::still_live: the guard is on the inode the path names.
still_live(t) == path = fd[t]

GuardOf(t) ==
    CASE lk[t].at = "idle" -> "idle"
      [] lk[t].at = "none" -> "denied"
      [] lk[t].at = "got" -> IF still_live(t) THEN "live" ELSE "broken"
      [] OTHER -> IF lk[t].phase = 5 THEN "tries" ELSE "waits"

Promise == INSTANCE RefreshLock WITH
    Handle <- Task, MayBreak <- TRUE, guard <- [t \in Task |-> GuardOf(t)]

\* Every behaviour of the protocol of lock.rs, seen through still_live, is one
\* the users of the lock may rely on: at most one guard is live at a time, and
\* an acquisition that waits never returns a guard on a file that is no longer
\* the lock, however opens, flocks, unlinks, deadlines and crashes interleave.
KeepsPromise == Promise!LockSpec

\* An flock is held by an open file that somebody will close: the one of a task
\* past its grant, or of an orphaned wait that has yet to notice that its caller
\* is gone.  No attempt that came to nothing, no timeout and no process that
\* ended leaves an flock behind, and nobody believes in one that it has not.
FlocksAccounted ==
    \A i \in Inode :
      /\ \A t \in Task : flock[i] = Guard(t) <=> fd[t] = i /\ lk[t].at \in {"write", "check", "got"}
      /\ \A p \in Proc : flock[i] = Orphan(p) <=>
            \E o \in orphan : o.proc = p /\ o.ino = i /\ o.stage \in {"write", "drop"}

\* When the other processes have stopped or ended, wherever they were in the
\* protocol, a caller that waits for the lock again and again gets it again and
\* again, unless its system calls keep failing: is_holder_stale and the unlink of
\* try_acquire_once get a holder out of the way, identified or not.
Alone(t) == \A p \in Proc \ {ProcOf[t]} : ~Runs(p)
NeverWedged ==
    \A t \in Task : ProcOf[t] \notin Faulty =>
      (<>Alone(t) /\ []<>(lk[t].phase = 2) =>
         []<>(lk[t].at = "got") \/ []<><<FailAttempt(t)>>_vars)

\* "Waiters that find a dead or stuck holder unlink the lock file": a holder
\* that is alive and has just written its own PID and time keeps its lock.
FreshHolder(t) ==
    Alive(t) /\ lk[t].at = "got" /\ still_live(t) /\ info[fd[t]] = ProcOf[t]
FreshLockKept == [][\A t \in Task : FreshHolder(t) => path' = path]_vars
=============================================================================
