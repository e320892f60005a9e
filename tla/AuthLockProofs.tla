---------------------------- MODULE AuthLockProofs ----------------------------
(***************************************************************************)
(* Proofs about AuthLock for every set of tasks, every assignment of tasks *)
(* to processes and every bound: every flock has an owner who will close   *)
(* its file, at most one guard is live, and the protocol of lock.rs        *)
(* implements RefreshLock step by step.                                    *)
(***************************************************************************)
EXTENDS AuthLock, TLAPS

\* A task whose open file holds the flock, one that waits for it or looks at
\* who holds it, and one without an open file.
Holding(t) == lk[t].at \in {"write", "check", "got"}
Looking(t) == lk[t].at \in {"try", "wait", "judge", "unlink"}
Closed(t) == lk[t].at \in {"idle", "open", "over", "none"}

\* The file is open exactly as long as an attempt lasts; the flock of an inode is
\* a task's exactly while that task is past the grant.
Attempt(t) ==
    /\ Closed(t) <=> fd[t] = 0
    /\ Holding(t) => flock[fd[t]] = Guard(t)
    /\ \A i \in Inode : flock[i] = Guard(t) => fd[t] = i /\ Holding(t)
    /\ lk[t].at = "try" => lk[t].phase # 2

\* An orphan past the grant has the flock of its inode, and it alone; an flock
\* that is an orphan's has such an orphan.
Grasps(o) == o.stage \in {"write", "drop"}
Orphaned ==
    /\ \A o \in orphan : Grasps(o) => flock[o.ino] = Orphan(o.proc)
    /\ \A o, w \in orphan : Grasps(o) /\ Grasps(w) /\ o.ino = w.ino => o = w
    /\ \A i \in Inode, p \in Proc : flock[i] = Orphan(p) =>
         \E o \in orphan : Grasps(o) /\ o.ino = i /\ o.proc = p

LockInv == TypeOK /\ (\A t \in Task : Attempt(t)) /\ Orphaned

-----------------------------------------------------------------------------
(* Who holds an flock, and the frame of a step.                            *)

LEMMA HoldersDiffer ==
    /\ \A t, u : Guard(t) = Guard(u) => t = u
    /\ \A p, q : Orphan(p) = Orphan(q) => p = q
    /\ \A t, p : Guard(t) # Orphan(p) /\ Guard(t) # Free /\ Orphan(p) # Free
    /\ Free \in Holders /\ (\A t \in Task : Guard(t) \in Holders)
    /\ \A p \in Proc : Orphan(p) \in Holders
<1>1. \A t, u : Guard(t) = Guard(u) => t = u
  BY DEF Guard
<1>3. \A p, q : Orphan(p) = Orphan(q) => p = q
  BY DEF Orphan
<1>2. \A t, p : Guard(t) # Orphan(p) /\ Guard(t) # Free /\ Orphan(p) # Free
  <2>1. \A t, p : Guard(t).by = "guard" /\ Orphan(p).by = "orphan" /\ Free.by = "free"
    BY DEF Guard, Orphan, Free
  <2> QED BY <2>1
<1> QED BY <1>1, <1>2, <1>3 DEF Holders

LEMMA Types ==
    ASSUME LockInv, NEW t \in Task
    PROVE  /\ fd[t] \in 0..MaxInode /\ (fd[t] # 0 => fd[t] \in Inode) /\ ProcOf[t] \in Proc
           /\ lk[t] \in [at : At, phase : Phase] /\ lk[t].at \in At /\ lk[t].phase \in Phase
           /\ (HasGuard(t) <=> Holding(t))
           /\ (fd[t] # 0 <=> Holding(t) \/ Looking(t))
<1>1. lk[t].at \in At /\ (Closed(t) <=> ~Holding(t) /\ ~Looking(t))
  BY DEF LockInv, TypeOK, At, Closed, Holding, Looking
<1>2. fd[t] \in 0..MaxInode /\ (fd[t] # 0 => fd[t] \in Inode) /\ Attempt(t)
  BY LockAssumption DEF LockInv, TypeOK, Inode
<1> QED BY <1>1, <1>2, LockAssumption DEF LockInv, TypeOK, Attempt, HasGuard, Closed, Holding

\* A step touches no open file, no flock and no orphan but those of t.
Frame(t) ==
    /\ \A u \in Task \ {t} : lk'[u] = lk[u] /\ fd'[u] = fd[u]
    /\ \A i \in Inode : flock'[i] = flock[i] \/ (flock[i] = Free /\ flock'[i] = Guard(t))
                          \/ (flock[i] = Guard(t) /\ \A u \in Task : flock'[i] # Guard(u))

\* No flock passes to an orphan.
NoneHandedOver == \A i \in Inode, p \in Proc : flock'[i] = Orphan(p) => flock[i] = Orphan(p)

LEMMA FrameKeeps ==
    ASSUME LockInv, NEW t \in Task, Frame(t), TypeOK', Attempt(t)'
    PROVE  /\ \A u \in Task : Attempt(u)'
           /\ UNCHANGED orphan /\ NoneHandedOver => LockInv'
<1>1. \A u \in Task \ {t} : Attempt(u)'
  <2> SUFFICES ASSUME NEW u \in Task \ {t} PROVE Attempt(u)'
    OBVIOUS
  <2>1. lk'[u] = lk[u] /\ fd'[u] = fd[u] /\ Attempt(u)
    BY DEF Frame, LockInv
  <2>2. \A i \in Inode : flock'[i] = Guard(u) <=> flock[i] = Guard(u)
    BY HoldersDiffer DEF Frame
  <2>3. Holding(u) => fd[u] \in Inode
    BY Types
  <2> QED BY <2>1, <2>2, <2>3 DEF Attempt, Holding, Closed
<1>2. UNCHANGED orphan /\ NoneHandedOver => Orphaned'
  <2> SUFFICES ASSUME UNCHANGED orphan, NoneHandedOver PROVE Orphaned'
    OBVIOUS
  <2>1. \A i \in Inode, p \in Proc : flock[i] = Orphan(p) => flock'[i] = Orphan(p)
    BY HoldersDiffer DEF Frame
  <2>2. \A o \in orphan : o.ino \in Inode /\ o.proc \in Proc
    BY DEF LockInv, TypeOK
  <2> QED BY <2>1, <2>2 DEF LockInv, Orphaned, Grasps, NoneHandedOver
<1> QED BY <1>1, <1>2 DEF LockInv

\* Steps that keep the file open, or closed, and the flock.
LEMMA MoveKeeps ==
    ASSUME LockInv, NEW t \in Task, NEW new \in [at : At, phase : Phase],
           lk' = [lk EXCEPT ![t] = new], UNCHANGED <<flock, fd, orphan>>,
           path' \in 0..MaxInode, info' \in [Inode -> Proc \cup {NoProc, OldInfo}],
           UNCHANGED <<exited, stopped>>,
           Closed(t)' <=> Closed(t), Holding(t)' <=> Holding(t), new.at = "try" => new.phase # 2
    PROVE  LockInv'
<1>1. lk'[t] = new /\ lk' \in [Task -> [at : At, phase : Phase]]
  BY DEF LockInv, TypeOK
<1>2. TypeOK'
  BY <1>1 DEF LockInv, TypeOK
<1>3. Frame(t)
  BY DEF Frame, LockInv, TypeOK
<1>4. Attempt(t)'
  BY <1>1 DEF LockInv, Attempt
<1>5. NoneHandedOver
  BY DEF NoneHandedOver
<1> QED BY <1>2, <1>3, <1>4, <1>5, FrameKeeps

\* Steps at whose end the file of the attempt is closed.
LEMMA CloseKeeps ==
    ASSUME LockInv, NEW t \in Task, NEW new \in [at : At, phase : Phase],
           lk' = [lk EXCEPT ![t] = new], Close(t), UNCHANGED <<info, orphan, exited, stopped>>,
           path' \in 0..MaxInode, new.at \in {"idle", "open", "over", "none"}
    PROVE  LockInv'
<1>0. 0 \in 0..MaxInode
  BY LockAssumption
<1>1. /\ lk'[t] = new /\ lk' \in [Task -> [at : At, phase : Phase]]
      /\ fd'[t] = 0 /\ fd' \in [Task -> 0..MaxInode]
  BY <1>0 DEF LockInv, TypeOK, Close
<1>2. flock' \in [Inode -> Holders]
  BY HoldersDiffer DEF LockInv, TypeOK, Close
<1>3. \A i \in Inode : flock'[i] = IF flock[i] = Guard(t) THEN Free ELSE flock[i]
  BY Types DEF LockInv, TypeOK, Close, HasGuard, Attempt
<1>4. TypeOK'
  BY <1>1, <1>2 DEF LockInv, TypeOK
<1>5. Frame(t)
  BY <1>3, HoldersDiffer DEF Frame, LockInv, TypeOK, Close
<1>6. Closed(t)' /\ ~Holding(t)'
  BY <1>1 DEF Closed, Holding
<1>7. \A i \in Inode : flock'[i] # Guard(t)
  BY <1>3, HoldersDiffer
<1>8. lk'[t].at # "try"
  BY <1>1
<1>9. Attempt(t)'
  BY <1>1, <1>6, <1>7, <1>8 DEF Attempt
<1>10. NoneHandedOver
  BY <1>3, HoldersDiffer DEF NoneHandedOver
<1> QED BY <1>4, <1>5, <1>9, <1>10, FrameKeeps

\* Where an attempt that has come to nothing goes.
LEMMA NextAttempt ==
    ASSUME LockInv, NEW t \in Task, Busy(t) \/ StaleUnlinked(t) \/ Exhausted(t)
    PROVE  \E new \in [at : At, phase : Phase] :
             lk' = [lk EXCEPT ![t] = new] /\ new.at \in {"open", "over", "none"}
<1>1. lk[t].phase \in Phase
  BY Types
<1>2. \A ph \in Phase : /\ [at |-> "open", phase |-> ph] \in [at : At, phase : Phase]
                        /\ [at |-> "over", phase |-> ph] \in [at : At, phase : Phase]
                        /\ GaveUp \in [at : At, phase : Phase] /\ GaveUp.at = "none"
  BY DEF At, Phase, GaveUp
<1>3. 2 \in Phase /\ 4 \in Phase
  BY DEF Phase
<1>4. CASE Exhausted(t)
  BY <1>2, <1>3, <1>4 DEF Exhausted
<1>5. CASE Busy(t)
  BY <1>2, <1>3, <1>5 DEF Busy, Goto, Exhausted
<1>6. CASE StaleUnlinked(t)
  BY <1>1, <1>2, <1>3, <1>6 DEF StaleUnlinked, Goto, Step
<1> QED BY <1>4, <1>5, <1>6

LEMMA StepTypes ==
    ASSUME LockInv, NEW t \in Task, NEW at \in At
    PROVE  /\ Step(at, t) \in [at : At, phase : Phase]
           /\ Step(at, t).at = at /\ Step(at, t).phase = lk[t].phase
BY Types DEF Step

LEMMA TakeFlockKeeps ==
    ASSUME LockInv, NEW t \in Task, TakeFlock(t), fd[t] # 0,
           UNCHANGED <<path, info, fd, orphan, exited, stopped>>
    PROVE  LockInv'
<1>0. Step("write", t) \in [at : At, phase : Phase] /\ Step("write", t).at = "write" /\ fd[t] \in Inode
  BY StepTypes, Types DEF At
<1>1. lk'[t] = Step("write", t) /\ lk' \in [Task -> [at : At, phase : Phase]]
  BY <1>0 DEF LockInv, TypeOK, TakeFlock
<1>2. /\ flock' \in [Inode -> Holders] /\ flock[fd[t]] = Free
      /\ \A i \in Inode : flock'[i] = IF i = fd[t] THEN Guard(t) ELSE flock[i]
  BY <1>0, HoldersDiffer DEF LockInv, TypeOK, TakeFlock
<1>3. TypeOK'
  BY <1>1, <1>2 DEF LockInv, TypeOK
<1>4. Frame(t)
  BY <1>2 DEF Frame, TakeFlock, LockInv, TypeOK
<1>5. ~Holding(t)
  BY <1>2, HoldersDiffer DEF LockInv, Attempt
<1>6. Holding(t)' /\ ~Closed(t)' /\ lk'[t].at # "try"
  BY <1>0, <1>1 DEF Holding, Closed
<1>7. \A i \in Inode : flock'[i] = Guard(t) => i = fd[t]
  BY <1>2, <1>5 DEF LockInv, Attempt
<1>8. Attempt(t)'
  BY <1>0, <1>2, <1>6, <1>7 DEF Attempt
<1>9. NoneHandedOver
  BY <1>2, HoldersDiffer DEF NoneHandedOver
<1> QED BY <1>3, <1>4, <1>8, <1>9, FrameKeeps

LEMMA AcquireKeeps ==
    ASSUME LockInv, NEW t \in Task, Acquire(t) \/ Deadline(t) \/ RecoveryOver(t)
    PROVE  LockInv'
<1>1. Closed(t) /\ ~Holding(t) /\ UNCHANGED <<path, flock, info, fd, orphan, exited, stopped>>
  BY DEF Acquire, Deadline, RecoveryOver, Closed, Holding
<1>2. PICK new \in [at : At, phase : Phase] :
         lk' = [lk EXCEPT ![t] = new] /\ new.at \in {"open", "none"}
  <2>1. \A ph \in {1, 3, 5} : [at |-> "open", phase |-> ph] \in [at : At, phase : Phase]
    BY DEF At, Phase
  <2>2. GaveUp \in [at : At, phase : Phase] /\ GaveUp.at = "none"
    BY DEF At, Phase, GaveUp
  <2> QED BY <2>1, <2>2 DEF Acquire, Deadline, RecoveryOver, Goto, Exhausted
<1>3. lk'[t] = new
  BY <1>2 DEF LockInv, TypeOK
<1>4. Closed(t)' /\ ~Holding(t)'
  BY <1>2, <1>3 DEF Closed, Holding
<1> QED BY <1>1, <1>2, <1>4, MoveKeeps DEF LockInv, TypeOK

LEMMA OpenKeeps ==
    ASSUME LockInv, NEW t \in Task, Open(t)
    PROVE  LockInv'
<1>0. /\ lk[t].at = "open" /\ ~Holding(t) /\ UNCHANGED <<flock, orphan, exited, stopped>>
  BY DEF Open, Holding
<1>1. PICK i \in Inode : fd' = [fd EXCEPT ![t] = i]
  BY DEF Open, LockInv, TypeOK, Inode
<1>2. path' \in 0..MaxInode /\ info' \in [Inode -> Proc \cup {NoProc, OldInfo}]
  BY DEF Open, LockInv, TypeOK, Inode
<1> DEFINE new == Step(IF lk[t].phase = 2 THEN "wait" ELSE "try", t)
<1>3. /\ new \in [at : At, phase : Phase] /\ new.at \in {"wait", "try"}
      /\ new.at = "try" => new.phase # 2
  BY StepTypes DEF At
<1>4. lk' = [lk EXCEPT ![t] = new]
  BY DEF Open
<1> HIDE DEF new
<1>5. /\ lk'[t] = new /\ lk' \in [Task -> [at : At, phase : Phase]]
      /\ fd'[t] = i /\ i # 0 /\ fd' \in [Task -> 0..MaxInode]
  BY <1>1, <1>3, <1>4 DEF LockInv, TypeOK, Inode
<1>6. TypeOK'
  BY <1>0, <1>2, <1>5 DEF LockInv, TypeOK
<1>7. Frame(t)
  BY <1>0, <1>1, <1>4 DEF Frame, LockInv, TypeOK
<1>8. ~Closed(t)' /\ ~Holding(t)'
  BY <1>3, <1>5 DEF Closed, Holding
<1>9. Attempt(t)'
  BY <1>0, <1>3, <1>5, <1>8 DEF Attempt, LockInv
<1>10. NoneHandedOver
  BY <1>0 DEF NoneHandedOver
<1> QED BY <1>0, <1>6, <1>7, <1>9, <1>10, FrameKeeps

LEMMA FlockKeeps ==
    ASSUME LockInv, NEW t \in Task, TryFlock(t) \/ WaitFlock(t)
    PROVE  LockInv'
<1>1. Looking(t) /\ fd[t] # 0 /\ UNCHANGED <<path, info, orphan, exited, stopped>>
  BY Types DEF TryFlock, WaitFlock, Looking
<1>2. CASE TakeFlock(t) /\ UNCHANGED fd
  BY <1>1, <1>2, TakeFlockKeeps
<1>3. CASE Exhausted(t) /\ Close(t)
  BY <1>1, <1>3, NextAttempt, CloseKeeps DEF LockInv, TypeOK
<1>4. CASE lk[t].at = "try" /\ lk' = [lk EXCEPT ![t] = Step("judge", t)] /\ UNCHANGED <<fd, flock>>
  <2>1. Step("judge", t) \in [at : At, phase : Phase] /\ Step("judge", t).at = "judge"
    BY StepTypes DEF At
  <2>2. lk'[t].at = "judge"
    BY <1>4, <2>1 DEF LockInv, TypeOK
  <2>3. ~Closed(t)' /\ ~Closed(t) /\ ~Holding(t)' /\ ~Holding(t)
    BY <1>4, <2>2 DEF Closed, Holding
  <2> QED BY <1>1, <1>4, <2>1, <2>3, MoveKeeps DEF LockInv, TypeOK
<1> QED BY <1>2, <1>3, <1>4 DEF TryFlock, WaitFlock

LEMMA WrittenTypes ==
    ASSUME LockInv, NEW i \in Inode, NEW p \in Proc, write_holder_info(i, p)
    PROVE  info' \in [Inode -> Proc \cup {NoProc, OldInfo}]
BY DEF LockInv, TypeOK, write_holder_info

LEMMA WriteInfoKeeps ==
    ASSUME LockInv, NEW t \in Task, WriteInfo(t)
    PROVE  LockInv'
<1>1. /\ Holding(t) /\ ~Closed(t) /\ fd[t] \in Inode /\ ProcOf[t] \in Proc
      /\ UNCHANGED <<path, flock, fd, orphan, exited, stopped>>
  BY Types DEF WriteInfo, Holding, Closed
<1>2. info' \in [Inode -> Proc \cup {NoProc, OldInfo}]
  BY <1>1, WrittenTypes DEF WriteInfo
<1> DEFINE new == IF lk[t].phase = 5 THEN Got ELSE Step("check", t)
<1>3. new \in [at : At, phase : Phase] /\ new.at \in {"got", "check"} /\ lk' = [lk EXCEPT ![t] = new]
  BY StepTypes DEF At, Phase, Got, WriteInfo
<1> HIDE DEF new
<1>4. lk'[t] = new
  BY <1>3 DEF LockInv, TypeOK
<1>5. Holding(t)' /\ ~Closed(t)'
  BY <1>3, <1>4 DEF Holding, Closed
<1> QED BY <1>1, <1>2, <1>3, <1>5, MoveKeeps DEF LockInv, TypeOK

LEMMA CheckInodeKeeps ==
    ASSUME LockInv, NEW t \in Task, CheckInode(t)
    PROVE  LockInv'
<1>1. /\ Holding(t) /\ ~Closed(t) /\ UNCHANGED <<path, info, orphan, exited, stopped>>
  BY DEF CheckInode, Holding, Closed
<1>2. CASE lk' = [lk EXCEPT ![t] = Got] /\ UNCHANGED <<fd, flock>>
  <2>1. Got \in [at : At, phase : Phase] /\ Got.at = "got"
    BY DEF At, Phase, Got
  <2>2. lk'[t] = Got
    BY <1>2, <2>1 DEF LockInv, TypeOK
  <2>3. Holding(t)' /\ ~Closed(t)'
    BY <2>1, <2>2 DEF Holding, Closed
  <2> QED BY <1>1, <1>2, <2>1, <2>3, MoveKeeps DEF LockInv, TypeOK
<1>3. CASE StaleUnlinked(t) /\ Close(t)
  BY <1>1, <1>3, NextAttempt, CloseKeeps DEF LockInv, TypeOK
<1> QED BY <1>2, <1>3 DEF CheckInode

LEMMA JudgeKeeps ==
    ASSUME LockInv, NEW t \in Task, Judge(t)
    PROVE  LockInv'
<1>1. /\ ~Holding(t) /\ ~Closed(t) /\ UNCHANGED <<path, info, orphan, exited, stopped>>
  BY DEF Judge, Holding, Closed
<1>2. CASE lk' = [lk EXCEPT ![t] = Step("unlink", t)] /\ UNCHANGED <<fd, flock>>
  <2>1. Step("unlink", t) \in [at : At, phase : Phase] /\ Step("unlink", t).at = "unlink"
    BY StepTypes DEF At
  <2>2. lk'[t].at = "unlink"
    BY <1>2, <2>1 DEF LockInv, TypeOK
  <2>3. ~Holding(t)' /\ ~Closed(t)'
    BY <2>2 DEF Holding, Closed
  <2> QED BY <1>1, <1>2, <2>1, <2>3, MoveKeeps DEF LockInv, TypeOK
<1>3. CASE Busy(t) /\ Close(t)
  BY <1>1, <1>3, NextAttempt, CloseKeeps DEF LockInv, TypeOK
<1> QED BY <1>2, <1>3 DEF Judge

LEMMA EndAttemptKeeps ==
    ASSUME LockInv, NEW t \in Task, Unlink(t) \/ FailAttempt(t) \/ Release(t)
    PROVE  LockInv'
<1>1. Close(t) /\ UNCHANGED <<info, orphan, exited, stopped>> /\ path' \in 0..MaxInode
  <2>1. 0 \in 0..MaxInode /\ path \in 0..MaxInode
    BY LockAssumption DEF LockInv, TypeOK
  <2> QED BY <2>1 DEF Unlink, FailAttempt, Release
<1>2. PICK new \in [at : At, phase : Phase] :
        lk' = [lk EXCEPT ![t] = new] /\ new.at \in {"idle", "open", "over", "none"}
  <2>1. CASE Busy(t) \/ StaleUnlinked(t) \/ Exhausted(t)
    BY <2>1, NextAttempt
  <2>2. CASE lk' = [lk EXCEPT ![t] = Idle]
    <3>1. Idle \in [at : At, phase : Phase] /\ Idle.at = "idle"
      BY DEF At, Phase, Idle
    <3> QED BY <2>2, <3>1
  <2>3. CASE Goto(t, 2)
    <3>1. [at |-> "open", phase |-> 2] \in [at : At, phase : Phase]
      BY DEF At, Phase
    <3> QED BY <2>3, <3>1 DEF Goto
  <2> QED BY <2>1, <2>2, <2>3 DEF Unlink, FailAttempt, Release
<1> QED BY <1>1, <1>2, CloseKeeps

\* The wait of a task that gave up keeps the flock, if it had it, as an orphan.
LEMMA TimeoutWaitKeeps ==
    ASSUME LockInv, NEW t \in Task, TimeoutWait(t)
    PROVE  LockInv'
<1> DEFINE o == [proc |-> ProcOf[t], ino |-> fd[t],
                 stage |-> IF lk[t].at = "check" THEN "drop" ELSE lk[t].at]
           new == [at |-> "open", phase |-> 3]
<1>0. /\ lk[t].at \in {"wait", "write", "check"} /\ fd[t] \in Inode /\ ProcOf[t] \in Proc
      /\ UNCHANGED <<path, info, exited, stopped>> /\ orphan' = orphan \cup {o}
      /\ Holding(t) <=> lk[t].at # "wait"
  BY Types DEF TimeoutWait, Holding, Looking
<1>1. /\ o \in [proc : Proc, ino : Inode, stage : {"wait", "write", "drop"}]
      /\ Grasps(o) <=> Holding(t)
  BY <1>0 DEF Grasps
<1>2. /\ new \in [at : At, phase : Phase] /\ lk' = [lk EXCEPT ![t] = new]
      /\ fd' = [fd EXCEPT ![t] = 0]
  BY DEF At, Phase, TimeoutWait, Goto
<1>3. /\ lk'[t] = new /\ lk' \in [Task -> [at : At, phase : Phase]]
      /\ fd'[t] = 0 /\ fd' \in [Task -> 0..MaxInode]
  <2>1. 0 \in 0..MaxInode
    BY LockAssumption
  <2> QED BY <1>2, <2>1 DEF LockInv, TypeOK
<1>4. /\ flock' \in [Inode -> Holders]
      /\ \A i \in Inode :
           flock'[i] = IF i = fd[t] /\ Holding(t) THEN Orphan(ProcOf[t]) ELSE flock[i]
  BY <1>0, HoldersDiffer, Types DEF TimeoutWait, LockInv, TypeOK
<1>5. TypeOK'
  BY <1>0, <1>1, <1>3, <1>4 DEF LockInv, TypeOK
<1>6. Frame(t)
  <2>1. Holding(t) => flock[fd[t]] = Guard(t)
    BY DEF LockInv, Attempt
  <2> QED BY <1>2, <1>4, <2>1, HoldersDiffer DEF Frame, LockInv, TypeOK
<1>7. Attempt(t)'
  <2>1. Closed(t)' /\ ~Holding(t)' /\ lk'[t].at # "try"
    BY <1>3 DEF Closed, Holding
  <2>2. \A i \in Inode : flock'[i] # Guard(t)
    BY <1>4, HoldersDiffer DEF LockInv, Attempt
  <2> QED BY <1>3, <2>1, <2>2 DEF Attempt
<1>8. Orphaned'
  <2>0. \A w \in orphan : w.ino \in Inode /\ (Grasps(w) => flock[w.ino] = Orphan(w.proc))
    BY DEF LockInv, TypeOK, Orphaned
  <2>1. Holding(t) => flock[fd[t]] = Guard(t)
    BY DEF LockInv, Attempt
  <2>2. \A w \in orphan : Grasps(w) /\ Holding(t) => w.ino # fd[t]
    BY <2>0, <2>1, HoldersDiffer
  <2>3. \A w \in orphan : Grasps(w) => flock'[w.ino] = Orphan(w.proc)
    BY <1>4, <2>0, <2>2
  <2>4. Grasps(o) => flock'[o.ino] = Orphan(o.proc)
    BY <1>0, <1>1, <1>4
  <2>5. \A w \in orphan : Grasps(w) /\ Grasps(o) => w.ino # o.ino
    BY <1>1, <2>2
  <2>6. Holding(t) => Grasps(o) /\ o.ino = fd[t] /\ o.proc = ProcOf[t]
    BY <1>1
  <2> HIDE DEF o
  <2>7. ASSUME NEW i \in Inode, NEW p \in Proc, flock'[i] = Orphan(p)
        PROVE  \E w \in orphan' : Grasps(w) /\ w.ino = i /\ w.proc = p
    <3>1. CASE i = fd[t] /\ Holding(t)
      BY <1>0, <1>4, <2>6, <2>7, <3>1, HoldersDiffer
    <3>2. CASE ~(i = fd[t] /\ Holding(t))
      BY <1>0, <1>4, <2>7, <3>2 DEF LockInv, Orphaned
    <3> QED BY <3>1, <3>2
  <2>8. /\ \A w \in orphan' : Grasps(w) => flock'[w.ino] = Orphan(w.proc)
        /\ \A v, w \in orphan' : Grasps(v) /\ Grasps(w) /\ v.ino = w.ino => v = w
    BY <1>0, <2>3, <2>4, <2>5 DEF LockInv, Orphaned
  <2> QED BY <2>7, <2>8 DEF Orphaned, Grasps
<1> QED BY <1>5, <1>6, <1>7, <1>8, FrameKeeps DEF LockInv

\* The tasks do not notice steps on inodes that none of them has.
LEMMA OthersKeep ==
    ASSUME LockInv, UNCHANGED <<lk, fd>>,
           \A i \in Inode, u \in Task : flock'[i] = Guard(u) <=> flock[i] = Guard(u)
    PROVE  \A u \in Task : Attempt(u)'
<1> SUFFICES ASSUME NEW u \in Task PROVE Attempt(u)'
  OBVIOUS
<1>1. Attempt(u) /\ (Holding(u) => fd[u] \in Inode)
  BY Types DEF LockInv
<1> QED BY <1>1 DEF Attempt, Holding, Closed

LEMMA OrphanStepKeeps ==
    ASSUME LockInv, NEW o \in orphan, OrphanStep(o)
    PROVE  LockInv'
<1>0. /\ o \in [proc : Proc, ino : Inode, stage : {"wait", "write", "drop"}]
      /\ o.ino \in Inode /\ o.proc \in Proc
      /\ \A w \in orphan : w.ino \in Inode /\ (Grasps(w) => flock[w.ino] = Orphan(w.proc))
      /\ \A w \in orphan : Grasps(w) /\ Grasps(o) /\ w.ino = o.ino => w = o
      /\ UNCHANGED <<path, lk, fd, exited, stopped>>
  BY DEF LockInv, TypeOK, Orphaned, OrphanStep
<1>1. ASSUME NEW stage \in {"write", "drop"}, Become(o, stage),
             flock' \in [Inode -> Holders], info' \in [Inode -> Proc \cup {NoProc, OldInfo}],
             flock'[o.ino] = Orphan(o.proc),
             flock[o.ino] \in {Free, Orphan(o.proc)},
             \A i \in Inode : i # o.ino => flock'[i] = flock[i],
             \A w \in orphan : Grasps(w) /\ w.ino = o.ino => w = o
      PROVE  LockInv'
  <2> DEFINE n == [o EXCEPT !.stage = stage]
  <2>1. /\ n \in [proc : Proc, ino : Inode, stage : {"wait", "write", "drop"}]
        /\ n.ino = o.ino /\ n.proc = o.proc /\ orphan' = (orphan \ {o}) \cup {n}
    BY <1>0, <1>1 DEF Become
  <2> HIDE DEF n
  <2>2. TypeOK'
    BY <1>0, <1>1, <2>1 DEF LockInv, TypeOK
  <2>3. \A i \in Inode, u \in Task : flock'[i] = Guard(u) <=> flock[i] = Guard(u)
    BY <1>1, HoldersDiffer
  <2>4. \A u \in Task : Attempt(u)'
    BY <1>0, <2>3, OthersKeep
  <2>5. \A w \in orphan \ {o} : Grasps(w) => w.ino # o.ino /\ flock'[w.ino] = Orphan(w.proc)
    BY <1>0, <1>1
  <2>6. Orphaned'
    <3>1. Grasps(n)
      BY <1>0, <1>1 DEF Grasps, n
    <3>2. ASSUME NEW i \in Inode, NEW p \in Proc, flock'[i] = Orphan(p)
          PROVE  \E w \in orphan' : Grasps(w) /\ w.ino = i /\ w.proc = p
      <4>1. CASE i = o.ino
        BY <1>1, <2>1, <3>1, <3>2, <4>1, HoldersDiffer
      <4>2. CASE i # o.ino
        <5>1. PICK w \in orphan : Grasps(w) /\ w.ino = i /\ w.proc = p
          BY <1>1, <3>2, <4>2 DEF LockInv, Orphaned
        <5> QED BY <2>1, <4>2, <5>1
      <4> QED BY <4>1, <4>2
    <3>3. /\ \A w \in orphan' : Grasps(w) => flock'[w.ino] = Orphan(w.proc)
          /\ \A v, w \in orphan' : Grasps(v) /\ Grasps(w) /\ v.ino = w.ino => v = w
      BY <1>1, <2>1, <2>5 DEF LockInv, Orphaned
    <3> QED BY <3>2, <3>3 DEF Orphaned, Grasps
  <2> QED BY <2>2, <2>4, <2>6 DEF LockInv
<1>2. CASE /\ o.stage = "wait" /\ flock[o.ino] = Free
           /\ flock' = [flock EXCEPT ![o.ino] = Orphan(o.proc)]
           /\ Become(o, "write") /\ UNCHANGED info
  <2>1. /\ flock' \in [Inode -> Holders] /\ flock'[o.ino] = Orphan(o.proc)
        /\ \A i \in Inode : i # o.ino => flock'[i] = flock[i]
    BY <1>0, <1>2, HoldersDiffer DEF LockInv, TypeOK
  <2>2. \A w \in orphan : Grasps(w) => w.ino # o.ino
    BY <1>0, <1>2, HoldersDiffer
  <2> QED BY <1>1, <1>2, <2>1, <2>2 DEF LockInv, TypeOK
<1>3. CASE /\ o.stage = "write" /\ write_holder_info(o.ino, o.proc)
           /\ Become(o, "drop") /\ UNCHANGED flock
  <2>1. Grasps(o) /\ flock[o.ino] = Orphan(o.proc)
    BY <1>0, <1>3 DEF Grasps
  <2>2. info' \in [Inode -> Proc \cup {NoProc, OldInfo}]
    BY <1>0, <1>3, WrittenTypes
  <2> QED BY <1>0, <1>1, <1>3, <2>1, <2>2 DEF LockInv, TypeOK
<1>4. CASE /\ o.stage = "drop" /\ flock' = [flock EXCEPT ![o.ino] = Free]
           /\ orphan' = orphan \ {o} /\ UNCHANGED info
  <2>1. Grasps(o) /\ flock[o.ino] = Orphan(o.proc)
    BY <1>0, <1>4 DEF Grasps
  <2>2. flock' \in [Inode -> Holders] /\ \A i \in Inode : flock'[i] = IF i = o.ino THEN Free ELSE flock[i]
    BY <1>0, <1>4, HoldersDiffer DEF LockInv, TypeOK
  <2>3. TypeOK'
    BY <1>0, <1>4, <2>2 DEF LockInv, TypeOK
  <2>4. \A i \in Inode, u \in Task : flock'[i] = Guard(u) <=> flock[i] = Guard(u)
    BY <2>1, <2>2, HoldersDiffer
  <2>5. \A u \in Task : Attempt(u)'
    BY <1>0, <2>4, OthersKeep
  <2>6. Orphaned'
    BY <1>0, <1>4, <2>1, <2>2, HoldersDiffer DEF LockInv, Orphaned, Grasps
  <2> QED BY <2>3, <2>5, <2>6 DEF LockInv
<1>5. CASE o.stage = "wait" /\ orphan' = orphan \ {o} /\ UNCHANGED <<flock, info>>
  <2>1. TypeOK'
    BY <1>0, <1>5 DEF LockInv, TypeOK
  <2>2. \A u \in Task : Attempt(u)'
    BY <1>0, <1>5, OthersKeep
  <2>3. ~Grasps(o)
    BY <1>5 DEF Grasps
  <2>4. Orphaned'
    BY <1>5, <2>3 DEF LockInv, Orphaned, Grasps
  <2> QED BY <2>1, <2>2, <2>4 DEF LockInv
<1> QED BY <1>2, <1>3, <1>4, <1>5 DEF OrphanStep

LEMMA QuietKeeps ==
    ASSUME LockInv, UNCHANGED <<path, flock, lk, fd, orphan, exited>>,
           info' \in [Inode -> Proc \cup {NoProc, OldInfo}], stopped' \subseteq Faulty
    PROVE  LockInv'
BY DEF LockInv, TypeOK, Orphaned, Grasps, Attempt, Closed, Holding

LEMMA ExitKeeps ==
    ASSUME LockInv, NEW p \in Proc, Exit(p)
    PROVE  LockInv'
<1>1. \A i \in Inode :
        /\ \A u \in Task : flock'[i] = Guard(u) <=> flock[i] = Guard(u) /\ ProcOf[u] # p
        /\ \A q \in Proc : flock'[i] = Orphan(q) <=> flock[i] = Orphan(q) /\ q # p
  <2>1. \A q \in Proc : Orphan(q) = Orphan(p) => q = p
    BY DEF Orphan
  <2>2. \A i \in Inode : flock'[i] =
          IF flock[i] = Orphan(p) \/ \E t \in Task : ProcOf[t] = p /\ flock[i] = Guard(t)
            THEN Free ELSE flock[i]
    BY DEF Exit
  <2> QED BY <2>1, <2>2, HoldersDiffer
<1>2. TypeOK'
  <2>1. flock' \in [Inode -> Holders]
    BY HoldersDiffer DEF Exit, LockInv, TypeOK
  <2>2. Idle \in [at : At, phase : Phase] /\ 0 \in 0..MaxInode
    BY LockAssumption DEF Idle, At, Phase
  <2>3. lk' \in [Task -> [at : At, phase : Phase]] /\ fd' \in [Task -> 0..MaxInode]
    BY <2>2 DEF Exit, LockInv, TypeOK
  <2> QED BY <2>1, <2>3 DEF Exit, LockInv, TypeOK
<1>3. \A u \in Task : Attempt(u)'
  <2> SUFFICES ASSUME NEW u \in Task PROVE Attempt(u)'
    OBVIOUS
  <2>1. CASE ProcOf[u] = p
    <3>1. fd'[u] = 0 /\ lk'[u].at = "idle"
      BY <2>1 DEF Exit, Idle
    <3>2. \A i \in Inode : flock'[i] # Guard(u)
      BY <1>1, <2>1
    <3> QED BY <3>1, <3>2 DEF Attempt, Closed, Holding
  <2>2. CASE ProcOf[u] # p
    <3>1. fd'[u] = fd[u] /\ lk'[u] = lk[u]
      BY <2>2 DEF Exit
    <3>2. Attempt(u) /\ (Holding(u) => fd[u] \in Inode)
      BY Types DEF LockInv
    <3> QED BY <1>1, <2>2, <3>1, <3>2 DEF Attempt, Closed, Holding
  <2> QED BY <2>1, <2>2
<1>4. Orphaned'
  <2>1. \A w \in orphan' : w \in orphan /\ w.proc # p /\ w.ino \in Inode /\ w.proc \in Proc
    BY DEF Exit, LockInv, TypeOK
  <2>2. \A w \in orphan : w.proc # p => w \in orphan'
    BY DEF Exit
  <2>3. /\ \A w \in orphan' : Grasps(w) => flock'[w.ino] = Orphan(w.proc)
        /\ \A v, w \in orphan' : Grasps(v) /\ Grasps(w) /\ v.ino = w.ino => v = w
    BY <1>1, <2>1 DEF LockInv, Orphaned
  <2>4. ASSUME NEW i \in Inode, NEW q \in Proc, flock'[i] = Orphan(q)
        PROVE  \E w \in orphan' : Grasps(w) /\ w.ino = i /\ w.proc = q
    BY <1>1, <2>2, <2>4 DEF LockInv, Orphaned
  <2> QED BY <2>3, <2>4 DEF Orphaned, Grasps
<1> QED BY <1>2, <1>3, <1>4 DEF LockInv

LEMMA InitHolds ==
    ASSUME Init
    PROVE  LockInv
<1>1. TypeOK
  BY HoldersDiffer, LockAssumption DEF Init, TypeOK, Idle, At, Phase
<1>2. \A t \in Task : lk[t].at = "idle" /\ fd[t] = 0
  BY DEF Init, Idle
<1>3. /\ \A i \in Inode, t \in Task : flock[i] # Guard(t)
      /\ \A i \in Inode, p \in Proc : flock[i] # Orphan(p)
  BY HoldersDiffer DEF Init
<1>4. \A t \in Task : Attempt(t)
  BY <1>2, <1>3 DEF Attempt, Closed, Holding
<1>5. Orphaned
  BY <1>3 DEF Init, Orphaned
<1> QED BY <1>1, <1>4, <1>5 DEF LockInv

LEMMA NextKeeps ==
    ASSUME LockInv, [Next]_vars
    PROVE  LockInv'
<1>1. ASSUME NEW t \in Task, Acquire(t) \/ LockStep(t) \/ FailAttempt(t) \/ Release(t)
      PROVE  LockInv'
  BY <1>1, AcquireKeeps, OpenKeeps, FlockKeeps, WriteInfoKeeps, CheckInodeKeeps, JudgeKeeps,
     EndAttemptKeeps, TimeoutWaitKeeps
  DEF LockStep
<1>2. ASSUME NEW i \in Inode, Age(i) PROVE LockInv'
  <2>1. info' \in [Inode -> Proc \cup {NoProc, OldInfo}]
    BY <1>2 DEF Age, LockInv, TypeOK
  <2> QED BY <1>2, <2>1, QuietKeeps DEF Age, LockInv, TypeOK
<1>3. ASSUME NEW p \in Proc, Stop(p) PROVE LockInv'
  BY <1>3, QuietKeeps DEF Stop, LockInv, TypeOK
<1>4. CASE UNCHANGED vars
  BY <1>4, QuietKeeps DEF vars, LockInv, TypeOK
<1> QED BY <1>1, <1>2, <1>3, <1>4, OrphanStepKeeps, ExitKeeps DEF Next

LEMMA Invariance == Spec => []LockInv
<1>1. Init => LockInv
  BY InitHolds
<1>2. LockInv /\ [Next]_vars => LockInv'
  BY NextKeeps
<1> QED BY <1>1, <1>2, PTL DEF Spec

LEMMA TypeCorrect == Spec => []TypeOK
<1>1. LockInv => TypeOK
  BY DEF LockInv
<1> QED BY <1>1, Invariance, PTL

\* Every flock belongs to a task past its grant in try_acquire_once or
\* blocking_acquire, or to a wait whose caller timed out and that still has to let
\* go; a guard that was returned has the flock of its file.
THEOREM FlocksAreAccountedFor == Spec => []FlocksAccounted
<1>1. LockInv => FlocksAccounted
  <2> SUFFICES ASSUME LockInv, NEW i \in Inode
               PROVE  /\ \A t \in Task : flock[i] = Guard(t) <=>
                            fd[t] = i /\ lk[t].at \in {"write", "check", "got"}
                      /\ \A p \in Proc : flock[i] = Orphan(p) <=>
                            \E o \in orphan : o.proc = p /\ o.ino = i /\ o.stage \in {"write", "drop"}
    BY DEF FlocksAccounted
  <2>1. \A t \in Task : flock[i] = Guard(t) <=> fd[t] = i /\ Holding(t)
    BY DEF LockInv, Attempt
  <2>2. \A p \in Proc : flock[i] = Orphan(p) <=>
          \E o \in orphan : o.proc = p /\ o.ino = i /\ Grasps(o)
    BY DEF LockInv, Orphaned
  <2> QED BY <2>1, <2>2 DEF Holding, Grasps
<1> QED BY <1>1, Invariance, PTL

\* Two callers of lock.rs never hold a guard each that still_live confirms, however
\* their system calls, unlinks and timeouts interleave: the flock of the inode that
\* the path names has one owner.
HoldsLock(t) == lk[t].at = "got" /\ still_live(t)
AtMostOneHolder == \A t, u \in Task : HoldsLock(t) /\ HoldsLock(u) => t = u

THEOREM OneHolder == Spec => []AtMostOneHolder
<1>1. LockInv => AtMostOneHolder
  <2> SUFFICES ASSUME LockInv, NEW t \in Task, NEW u \in Task, HoldsLock(t), HoldsLock(u)
               PROVE  t = u
    BY DEF AtMostOneHolder
  <2>1. fd[t] = fd[u] /\ Holding(t) /\ Holding(u)
    BY DEF HoldsLock, still_live, Holding
  <2>2. flock[fd[t]] = Guard(t) /\ flock[fd[u]] = Guard(u)
    BY <2>1 DEF LockInv, Attempt
  <2> QED BY <2>1, <2>2, HoldersDiffer
<1> QED BY <1>1, Invariance, PTL

-----------------------------------------------------------------------------
(* The protocol implements RefreshLock.                                    *)

Under(t) == lk[t].at \notin {"idle", "none", "got"}

LEMMA Seen ==
    ASSUME NEW t \in Task
    PROVE  /\ lk[t].at = "idle" => GuardOf(t) = "idle"
           /\ lk[t].at = "none" => GuardOf(t) = "denied"
           /\ lk[t].at = "got" => GuardOf(t) = IF path = fd[t] THEN "live" ELSE "broken"
           /\ Under(t) => GuardOf(t) = IF lk[t].phase = 5 THEN "tries" ELSE "waits"
BY DEF GuardOf, still_live, Under

LEMMA SeenNext ==
    ASSUME NEW t \in Task
    PROVE  /\ lk'[t].at = "idle" => GuardOf(t)' = "idle"
           /\ lk'[t].at = "none" => GuardOf(t)' = "denied"
           /\ lk'[t].at = "got" => GuardOf(t)' = IF path' = fd'[t] THEN "live" ELSE "broken"
           /\ Under(t)' => GuardOf(t)' = IF lk'[t].phase = 5 THEN "tries" ELSE "waits"
BY DEF GuardOf, still_live, Under

Others(t) == \A u \in Task \ {t} : GuardOf(u)' = GuardOf(u)

\* While the path stays, a step of t changes what is seen of t only.
LEMMA OthersSeen ==
    ASSUME NEW t \in Task, UNCHANGED path, \A u \in Task \ {t} : lk'[u] = lk[u] /\ fd'[u] = fd[u]
    PROVE  Others(t)
BY DEF Others, GuardOf, still_live

\* What is seen of t is one step of RefreshLock, or none.
LEMMA OneSeen ==
    ASSUME NEW t \in Task, Others(t)
    PROVE  /\ GuardOf(t) = "idle" /\ GuardOf(t)' = "waits" => Promise!Lock(t)
           /\ GuardOf(t) = "idle" /\ GuardOf(t)' = "tries" => Promise!TryLock(t)
           /\ GuardOf(t) \in {"waits", "tries"} /\ GuardOf(t)' = "denied" => Promise!Deny(t)
           /\ GuardOf(t) = "tries" /\ GuardOf(t)' = "broken" => Promise!GrantUnlinked(t)
           /\ /\ GuardOf(t) \in {"waits", "tries"} /\ GuardOf(t)' = "live"
              /\ \A u \in Task : GuardOf(u) # "live"
              => Promise!Grant(t)
           /\ GuardOf(t) = "live" /\ GuardOf(t)' = "broken" => Promise!Break(t)
           /\ GuardOf(t)' = "idle" => Promise!Drop({t})
           /\ GuardOf(t)' = GuardOf(t) =>
                [u \in Task |-> GuardOf(u)]' = [u \in Task |-> GuardOf(u)]
BY DEF Others, Promise!Lock, Promise!TryLock, Promise!Deny, Promise!GrantUnlinked, Promise!Grant,
       Promise!Break, Promise!Drop, Promise!Put, Promise!Vacant

View == [u \in Task |-> GuardOf(u)]
Maps == Promise!LockNext \/ View' = View

LEMMA StepMaps ==
    ASSUME NEW t \in Task,
           \/ Promise!Lock(t) \/ Promise!TryLock(t) \/ Promise!Deny(t) \/ Promise!GrantUnlinked(t)
           \/ Promise!Grant(t) \/ Promise!Break(t) \/ Promise!Drop({t})
    PROVE  Maps
BY DEF Maps, Promise!LockNext

\* An acquisition goes on, or ends without a guard.
LEMMA OnwardMaps ==
    ASSUME NEW t \in Task, Under(t), Others(t),
           \/ lk'[t].at = "none"
           \/ Under(t)' /\ (lk'[t].phase = 5 <=> lk[t].phase = 5)
    PROVE  Maps
<1>1. GuardOf(t) \in {"waits", "tries"}
  BY Seen
<1>2. CASE lk'[t].at = "none"
  BY <1>1, <1>2, SeenNext, OneSeen, StepMaps
<1>3. CASE Under(t)' /\ (lk'[t].phase = 5 <=> lk[t].phase = 5)
  <2>1. GuardOf(t)' = GuardOf(t)
    BY <1>3, Seen, SeenNext
  <2> QED BY <2>1, OneSeen DEF Maps, View
<1> QED BY <1>2, <1>3

LEMMA AgainSeen ==
    ASSUME LockInv, NEW t \in Task, Busy(t) \/ StaleUnlinked(t) \/ Exhausted(t)
    PROVE  /\ \A u \in Task \ {t} : lk'[u] = lk[u]
           /\ \/ lk'[t].at = "none"
              \/ Under(t)' /\ (lk'[t].phase = 5 <=> lk[t].phase = 5)
           /\ StaleUnlinked(t) => Under(t)' /\ (lk'[t].phase = 5 <=> lk[t].phase = 5)
<1>1. /\ lk \in [Task -> [at : At, phase : Phase]] /\ lk[t].phase \in Phase
  BY Types DEF LockInv, TypeOK
<1>2. Exhausted(t) => lk'[t].at = "none" /\ \A u \in Task \ {t} : lk'[u] = lk[u]
  BY <1>1 DEF Exhausted, GaveUp
<1>3. \A ph \in Phase : Goto(t, ph) =>
        Under(t)' /\ lk'[t].phase = ph /\ \A u \in Task \ {t} : lk'[u] = lk[u]
  BY <1>1 DEF Goto, Under
<1>4. lk' = [lk EXCEPT ![t] = Step("over", t)] =>
        Under(t)' /\ lk'[t].phase = lk[t].phase /\ \A u \in Task \ {t} : lk'[u] = lk[u]
  BY <1>1 DEF Step, Under
<1>5. 2 \in Phase /\ 4 \in Phase
  BY DEF Phase
<1>6. StaleUnlinked(t) => /\ Under(t)' /\ (lk'[t].phase = 5 <=> lk[t].phase = 5)
                          /\ \A u \in Task \ {t} : lk'[u] = lk[u]
  BY <1>1, <1>3, <1>4, <1>5 DEF StaleUnlinked
<1>7. Busy(t) => /\ \/ lk'[t].at = "none"
                    \/ Under(t)' /\ (lk'[t].phase = 5 <=> lk[t].phase = 5)
                 /\ \A u \in Task \ {t} : lk'[u] = lk[u]
  BY <1>2, <1>3, <1>5 DEF Busy
<1> QED BY <1>2, <1>6, <1>7

LEMMA CloseSeen ==
    ASSUME LockInv, NEW t \in Task, Close(t)
    PROVE  \A u \in Task \ {t} : fd'[u] = fd[u]
BY DEF Close, LockInv, TypeOK

LEMMA AcquireMaps ==
    ASSUME LockInv, NEW t \in Task, Acquire(t)
    PROVE  Maps
<1>1. PICK phase \in {1, 5} : Goto(t, phase)
  BY DEF Acquire
<1>2. /\ lk[t].at = "idle" /\ UNCHANGED <<path, fd>>
      /\ lk'[t].at = "open" /\ lk'[t].phase = phase /\ \A u \in Task \ {t} : lk'[u] = lk[u]
  BY <1>1 DEF Acquire, Goto, LockInv, TypeOK
<1>3. Others(t)
  BY <1>2, OthersSeen
<1>4. Under(t)'
  BY <1>2 DEF Under
<1>5. GuardOf(t) = "idle" /\ GuardOf(t)' \in {"waits", "tries"}
  BY <1>2, <1>4, Seen, SeenNext
<1> QED BY <1>3, <1>5, OneSeen, StepMaps

\* A fresh inode is not one that a guard is open on.
LEMMA OpenMaps ==
    ASSUME LockInv, NEW t \in Task, Open(t)
    PROVE  Maps
<1>1. /\ Under(t) /\ Under(t)' /\ lk'[t].phase = lk[t].phase
      /\ \A u \in Task \ {t} : lk'[u] = lk[u] /\ fd'[u] = fd[u]
  <2>1. lk[t].at = "open" /\ lk' = [lk EXCEPT ![t] = Step(IF lk[t].phase = 2 THEN "wait" ELSE "try", t)]
    BY DEF Open
  <2>2. lk'[t].at \in {"wait", "try"} /\ lk'[t].phase = lk[t].phase /\ \A u \in Task \ {t} : lk'[u] = lk[u]
    BY <2>1 DEF Step, LockInv, TypeOK
  <2>3. \A u \in Task \ {t} : fd'[u] = fd[u]
    BY DEF Open, LockInv, TypeOK
  <2> QED BY <2>1, <2>2, <2>3 DEF Under
<1>2. Others(t)
  <2>1. CASE UNCHANGED path
    BY <1>1, <2>1, OthersSeen
  <2>2. CASE path = 0 /\ \E i \in Inode : ~InUse(i) /\ path' = i
    <3>1. \A u \in Task : lk[u].at = "got" => path # fd[u] /\ path' # fd[u]
      BY <2>2, Types DEF InUse, Holding
    <3> QED BY <1>1, <3>1 DEF Others, GuardOf, still_live
  <2> QED BY <2>1, <2>2 DEF Open
<1> QED BY <1>1, <1>2, OnwardMaps

\* A guard is handed out while no other one is live: both would have the flock of
\* the inode that the path names.
LEMMA GrantMaps ==
    ASSUME LockInv, NEW t \in Task, Under(t), Holding(t), lk' = [lk EXCEPT ![t] = Got],
           UNCHANGED <<path, fd>>, path = fd[t] \/ lk[t].phase = 5
    PROVE  Maps
<1>1. lk'[t].at = "got" /\ \A u \in Task \ {t} : lk'[u] = lk[u]
  BY DEF Got, LockInv, TypeOK
<1>2. Others(t)
  BY <1>1, OthersSeen
<1>3. CASE path = fd[t]
  <2>1. \A u \in Task : lk[u].at = "got" => path # fd[u]
    <3> SUFFICES ASSUME NEW u \in Task, lk[u].at = "got", path = fd[u] PROVE FALSE
      OBVIOUS
    <3>1. Holding(u)
      BY DEF Holding
    <3>2. Guard(u) = Guard(t)
      BY <1>3, <3>1 DEF LockInv, Attempt
    <3> QED BY <3>2, HoldersDiffer DEF Under
  <2>2. \A u \in Task : GuardOf(u) # "live"
    BY <2>1 DEF GuardOf, still_live
  <2>3. GuardOf(t) \in {"waits", "tries"} /\ GuardOf(t)' = "live"
    BY <1>1, <1>3, Seen, SeenNext
  <2> QED BY <1>2, <2>2, <2>3, OneSeen, StepMaps
<1>4. CASE path # fd[t]
  BY <1>1, <1>2, <1>4, Seen, SeenNext, OneSeen, StepMaps
<1> QED BY <1>3, <1>4

\* The step to another place of the same attempt.
LEMMA PlaceMaps ==
    ASSUME LockInv, NEW t \in Task, Under(t), NEW at \in At \ {"idle", "none", "got"},
           lk' = [lk EXCEPT ![t] = Step(at, t)], UNCHANGED <<path, fd>>
    PROVE  Maps
<1>1. lk'[t].at = at /\ lk'[t].phase = lk[t].phase /\ \A u \in Task \ {t} : lk'[u] = lk[u]
  BY DEF Step, LockInv, TypeOK
<1>2. Others(t) /\ Under(t)'
  BY <1>1, OthersSeen DEF Under
<1> QED BY <1>1, <1>2, OnwardMaps

LEMMA AgainMaps ==
    ASSUME LockInv, NEW t \in Task, Under(t), Busy(t) \/ StaleUnlinked(t) \/ Exhausted(t),
           Close(t), UNCHANGED path
    PROVE  Maps
<1>1. Others(t)
  BY AgainSeen, CloseSeen, OthersSeen
<1> QED BY <1>1, AgainSeen, OnwardMaps

\* An unlink breaks the guard that is live, if there is one.
LEMMA UnlinkMaps ==
    ASSUME LockInv, NEW t \in Task, Unlink(t)
    PROVE  Maps
<1>0. Under(t) /\ Close(t) /\ lk[t].at = "unlink"
  BY DEF Unlink, Under
<1>1. CASE Busy(t) /\ UNCHANGED path
  BY <1>0, <1>1, AgainMaps
<1>2. CASE path # 0 /\ path' = 0 /\ StaleUnlinked(t)
  <2>1. \A u \in Task \ {t} : lk'[u] = lk[u] /\ fd'[u] = fd[u]
    BY <1>0, <1>2, AgainSeen, CloseSeen
  <2>2. GuardOf(t)' = GuardOf(t)
    BY <1>0, <1>2, AgainSeen, Seen, SeenNext
  <2>3. \A u \in Task : lk[u].at = "got" => u # t /\ fd[u] # 0 /\ Holding(u)
    BY <1>0, Types DEF Holding
  <2>4. \A u \in Task : ~(lk[u].at = "got" /\ path = fd[u]) => GuardOf(u)' = GuardOf(u)
    <3> SUFFICES ASSUME NEW u \in Task \ {t}, ~(lk[u].at = "got" /\ path = fd[u])
                 PROVE  GuardOf(u)' = GuardOf(u)
      BY <2>2
    <3>1. lk[u].at = "got" => path' # fd'[u]
      BY <1>2, <2>1, <2>3
    <3> QED BY <2>1, <3>1 DEF GuardOf, still_live
  <2>5. CASE \E u \in Task : lk[u].at = "got" /\ path = fd[u]
    <3>1. PICK u \in Task : lk[u].at = "got" /\ path = fd[u]
      BY <2>5
    <3>2. \A v \in Task \ {u} : ~(lk[v].at = "got" /\ path = fd[v])
      <4> SUFFICES ASSUME NEW v \in Task \ {u}, lk[v].at = "got", path = fd[v] PROVE FALSE
        OBVIOUS
      <4>1. flock[fd[u]] = Guard(u) /\ flock[fd[v]] = Guard(v)
        BY <2>3, <3>1 DEF LockInv, Attempt
      <4> QED BY <3>1, <4>1, HoldersDiffer
    <3>3. Others(u)
      BY <2>4, <3>2 DEF Others
    <3>4. GuardOf(u) = "live" /\ GuardOf(u)' = "broken"
      BY <1>2, <2>1, <2>3, <3>1, Seen, SeenNext
    <3> QED BY <3>3, <3>4, OneSeen, StepMaps
  <2>6. CASE \A u \in Task : ~(lk[u].at = "got" /\ path = fd[u])
    BY <2>4, <2>6 DEF Maps, View
  <2> QED BY <2>5, <2>6
<1> QED BY <1>1, <1>2 DEF Unlink

LEMMA LockStepMaps ==
    ASSUME LockInv, NEW t \in Task, LockStep(t)
    PROVE  Maps
<1>1. CASE TryFlock(t) \/ WaitFlock(t)
  <2>1. Under(t) /\ UNCHANGED path
    BY <1>1 DEF TryFlock, WaitFlock, Under
  <2>2. "write" \in At \ {"idle", "none", "got"} /\ "judge" \in At \ {"idle", "none", "got"}
    BY DEF At
  <2>3. CASE Exhausted(t) /\ Close(t)
    BY <2>1, <2>3, AgainMaps
  <2>4. CASE /\ UNCHANGED fd
             /\ \/ lk' = [lk EXCEPT ![t] = Step("write", t)]
                \/ lk' = [lk EXCEPT ![t] = Step("judge", t)]
    BY <2>1, <2>2, <2>4, PlaceMaps
  <2> QED BY <1>1, <2>3, <2>4 DEF TryFlock, WaitFlock, TakeFlock
<1>2. CASE WriteInfo(t)
  <2>1. Under(t) /\ Holding(t) /\ UNCHANGED <<path, fd>> /\ "check" \in At \ {"idle", "none", "got"}
    BY <1>2 DEF WriteInfo, Under, Holding, At
  <2> QED BY <1>2, <2>1, PlaceMaps, GrantMaps DEF WriteInfo
<1>3. CASE CheckInode(t)
  <2>1. Under(t) /\ Holding(t) /\ UNCHANGED path
    BY <1>3 DEF CheckInode, Under, Holding
  <2> QED BY <1>3, <2>1, AgainMaps, GrantMaps DEF CheckInode
<1>4. CASE Judge(t)
  <2>1. Under(t) /\ UNCHANGED path /\ "unlink" \in At \ {"idle", "none", "got"}
    BY <1>4 DEF Judge, Under, At
  <2> QED BY <1>4, <2>1, AgainMaps, PlaceMaps DEF Judge
<1>5. CASE Deadline(t) \/ TimeoutWait(t) \/ RecoveryOver(t)
  <2>1. /\ Under(t) /\ UNCHANGED path
        /\ \A u \in Task \ {t} : lk'[u] = lk[u] /\ fd'[u] = fd[u]
    BY <1>5 DEF Deadline, TimeoutWait, RecoveryOver, Under, Goto, Exhausted, LockInv, TypeOK
  <2>2. \/ lk'[t].at = "none"
        \/ Under(t)' /\ lk'[t].phase = 3 /\ lk[t].phase = 2
    BY <1>5 DEF Deadline, TimeoutWait, RecoveryOver, Under, Goto, Exhausted, GaveUp, LockInv, TypeOK
  <2> QED BY <2>1, <2>2, OthersSeen, OnwardMaps
<1> QED BY <1>1, <1>2, <1>3, <1>4, <1>5, OpenMaps, UnlinkMaps DEF LockStep

LEMMA NextMaps ==
    ASSUME LockInv, [Next]_vars
    PROVE  Maps
<1>1. ASSUME NEW t \in Task, FailAttempt(t) PROVE Maps
  <2>1. Under(t) /\ Close(t) /\ UNCHANGED path
    BY <1>1 DEF FailAttempt, Under
  <2>2. CASE Exhausted(t)
    BY <2>1, <2>2, AgainMaps
  <2>3. CASE lk[t].phase = 2 /\ Goto(t, 2)
    <3>1. Others(t) /\ Under(t)' /\ lk'[t].phase = lk[t].phase
      <4>1. lk'[t] = [at |-> "open", phase |-> 2] /\ \A u \in Task \ {t} : lk'[u] = lk[u]
        BY <2>3 DEF Goto, LockInv, TypeOK
      <4> QED BY <2>1, <2>3, <4>1, CloseSeen, OthersSeen DEF Under
    <3> QED BY <2>1, <3>1, OnwardMaps
  <2> QED BY <1>1, <2>2, <2>3 DEF FailAttempt
<1>2. ASSUME NEW t \in Task, Release(t) PROVE Maps
  <2>1. lk'[t].at = "idle" /\ UNCHANGED path /\ \A u \in Task \ {t} : lk'[u] = lk[u]
    BY <1>2 DEF Release, Idle, LockInv, TypeOK
  <2>2. Others(t)
    BY <1>2, <2>1, CloseSeen, OthersSeen DEF Release
  <2> QED BY <2>1, <2>2, SeenNext, OneSeen, StepMaps
<1>3. ASSUME NEW p \in Proc, Exit(p) PROVE Maps
  <2> DEFINE S == {t \in Task : ProcOf[t] = p}
  <2>1. \A u \in Task : GuardOf(u)' = IF u \in S THEN "idle" ELSE GuardOf(u)
    <3> SUFFICES ASSUME NEW u \in Task PROVE GuardOf(u)' = IF u \in S THEN "idle" ELSE GuardOf(u)
      OBVIOUS
    <3>1. CASE ProcOf[u] = p
      BY <1>3, <3>1, SeenNext DEF Exit, Idle
    <3>2. CASE ProcOf[u] # p
      BY <1>3, <3>2 DEF Exit, GuardOf, still_live
    <3> QED BY <3>1, <3>2
  <2>2. Promise!Drop(S)
    BY <2>1 DEF Promise!Drop
  <2> QED BY <2>2 DEF Maps, Promise!LockNext
<1>4. CASE \/ \E o \in orphan : OrphanStep(o)
           \/ \E i \in Inode : Age(i)
           \/ \E p \in Proc : Stop(p)
           \/ UNCHANGED vars
  <2>1. UNCHANGED <<path, lk, fd>>
    BY <1>4 DEF OrphanStep, Age, Stop, vars
  <2> QED BY <2>1 DEF Maps, View, GuardOf, still_live
<1> QED BY <1>1, <1>2, <1>3, <1>4, AcquireMaps, LockStepMaps DEF Next

\* Every behaviour of the protocol of lock.rs, seen through still_live, is one of
\* RefreshLock, however opens, flocks, unlinks, orphaned waits, deadlines and
\* crashes of any number of tasks and processes interleave.
THEOREM LockKeepsPromise == Spec => KeepsPromise
<1>1. Init => Promise!LockInit
  BY DEF Init, Promise!LockInit, GuardOf, Idle
<1>2. LockInv /\ [Next]_vars => [Promise!LockNext]_([t \in Task |-> GuardOf(t)])
  BY NextMaps DEF Maps, View
<1> QED BY <1>1, <1>2, Invariance, PTL DEF Spec, KeepsPromise, Promise!LockSpec
=============================================================================
