--------------------------- MODULE SchedulerProofs ---------------------------
(***************************************************************************)
(* Proofs about Scheduler for every finite set of tasks and every bound:   *)
(* no version is committed twice, a waiting reservation stays the next     *)
(* one, a task with a tombstone never comes back, and the types.           *)
(***************************************************************************)
EXTENDS Scheduler, SequenceTheorems, FiniteSetTheorems, TLAPS

Commands == [op : {"save", "save_and_flush"}, snapshot : SUBSET Tasks, awaited : BOOLEAN]
Tombstones == [task : Tasks, awaited : BOOLEAN]
Stamps == [gen : Nat, rev : Nat]
Reserved == [task : Tasks, version : [source : Stamps, gen : Nat, next : Nat]]

\* The types of the writer's state.
PType ==
    /\ queue \in Seq(Commands)
    /\ held \subseteq SUBSET Tasks
    /\ writing \subseteq Commands
    /\ disk \in mayDisk
    /\ mayDisk \subseteq SUBSET Tasks

\* The types of the actor's and the bridge's state, as far as proofs need them.
AType ==
    /\ tasks \subseteq Tasks
    /\ created \subseteq Tasks
    /\ pending \subseteq Reserved
    /\ expiring \subseteq Reserved
    /\ inbox \in Seq(Tombstones)
    /\ log \subseteq Tasks

-----------------------------------------------------------------------------
(* What a step does to a sequence, position by position.                   *)

LEMMA AppendAt ==
    ASSUME NEW S, NEW s \in Seq(S), NEW x \in S
    PROVE  /\ Append(s, x) \in Seq(S)
           /\ Len(Append(s, x)) = Len(s) + 1
           /\ \A i \in 1..Len(s) : Append(s, x)[i] = s[i]
           /\ Append(s, x)[Len(s) + 1] = x
OBVIOUS

LEMMA TailAt ==
    ASSUME NEW S, NEW s \in Seq(S), s # <<>>
    PROVE  /\ Tail(s) \in Seq(S)
           /\ Len(s) \in Nat \ {0}
           /\ Len(Tail(s)) = Len(s) - 1
           /\ \A i \in 1..Len(Tail(s)) : Tail(s)[i] = s[i + 1]
           /\ Head(s) = s[1] /\ Head(s) \in S
BY HeadTailProperties, EmptySeq

\* Clearing a flag in every element keeps the sequence otherwise.
LEMMA UnawaitedQueue ==
    ASSUME NEW s \in Seq(Commands)
    PROVE  LET u == [i \in DOMAIN s |-> [s[i] EXCEPT !.awaited = FALSE]]
           IN  /\ u \in Seq(Commands) /\ Len(u) = Len(s)
               /\ \A i \in 1..Len(s) : u[i].snapshot = s[i].snapshot /\ ~u[i].awaited
<1> DEFINE u == [i \in DOMAIN s |-> [s[i] EXCEPT !.awaited = FALSE]]
<1>1. DOMAIN s = 1..Len(s) /\ Len(s) \in Nat /\ \A i \in 1..Len(s) : s[i] \in Commands
  BY LenProperties
<1>2. \A i \in 1..Len(s) : u[i] \in Commands /\ u[i].snapshot = s[i].snapshot /\ ~u[i].awaited
  BY <1>1 DEF Commands
<1>3. u \in Seq(Commands) /\ Len(u) = Len(s)
  BY <1>1, <1>2
<1> QED BY <1>2, <1>3

LEMMA UnawaitedInbox ==
    ASSUME NEW s \in Seq(Tombstones)
    PROVE  LET u == [i \in DOMAIN s |-> [s[i] EXCEPT !.awaited = FALSE]]
           IN  /\ u \in Seq(Tombstones) /\ Len(u) = Len(s)
               /\ \A i \in 1..Len(s) : u[i].task = s[i].task
<1> DEFINE u == [i \in DOMAIN s |-> [s[i] EXCEPT !.awaited = FALSE]]
<1>1. DOMAIN s = 1..Len(s) /\ Len(s) \in Nat /\ \A i \in 1..Len(s) : s[i] \in Tombstones
  BY LenProperties
<1>2. \A i \in 1..Len(s) : u[i] \in Tombstones /\ u[i].task = s[i].task
  BY <1>1 DEF Tombstones
<1>3. u \in Seq(Tombstones) /\ Len(u) = Len(s)
  BY <1>1, <1>2
<1> QED BY <1>2, <1>3

-----------------------------------------------------------------------------
(* The writer: nothing that is queued, held, being written or on disk has  *)
(* the task; nothing is awaited; a durable save of a state without the     *)
(* task is on its way, and nothing behind it in the queue has the task.    *)

NowhereSaved(t) ==
    /\ \A i \in 1..Len(queue) : t \notin queue[i].snapshot
    /\ \A h \in held : t \notin h
    /\ \A c \in writing : t \notin c.snapshot
    /\ \A f \in mayDisk : t \notin f

Quiet ==
    /\ \A i \in 1..Len(queue) : ~queue[i].awaited
    /\ \A c \in writing : ~c.awaited

Covered(t) ==
    /\ \A i, j \in 1..Len(queue) : queue[i].awaited /\ i <= j => t \notin queue[j].snapshot
    /\ \A c \in writing : c.awaited =>
         t \notin c.snapshot /\ \A i \in 1..Len(queue) : t \notin queue[i].snapshot
    /\ reply = "ok" => NowhereSaved(t)

\* A held save never waits beside a durable write, and there is one
\* acknowledgement to come at most.
WInv ==
    /\ PType
    /\ writing # {} => held = {}
    /\ \A c \in writing : disk = c.snapshot
    /\ \A i, j \in 1..Len(queue) : queue[i].awaited /\ queue[j].awaited => i = j
    /\ \A c \in writing : c.awaited => \A i \in 1..Len(queue) : ~queue[i].awaited
    /\ reply # "none" => Quiet

\* The steps of the writer's environment that leave its commands alone.
Untouched == UNCHANGED <<queue, held, writing, disk, mayDisk, reply>>
Forgets == Unawait /\ UNCHANGED <<held, disk, mayDisk>>

\* A step of the writer or of its environment other than Enqueue keeps WInv.
LEMMA WriterStep ==
    ASSUME WInv, NEW snap \in SUBSET Tasks,
           Save(snap) \/ Writer \/ WriterCrash \/ WriterPowerFail \/ Forgets
             \/ Untouched
    PROVE  WInv'
<1> USE DEF WInv, PType, Quiet
<1>0. \A i \in 1..Len(queue) : queue[i] \in Commands
  BY LenProperties
<1>1. CASE Save(snap)
  <2> DEFINE x == [op |-> "save", snapshot |-> snap, awaited |-> FALSE]
  <2>1. x \in Commands
    BY DEF Commands
  <2>2. queue' = Append(queue, x)
    BY <1>1 DEF Save
  <2>3. x.awaited = FALSE
    OBVIOUS
  <2> HIDE DEF x
  <2>4. /\ queue' \in Seq(Commands) /\ Len(queue') = Len(queue) + 1
        /\ \A i \in 1..Len(queue) : queue'[i] = queue[i]
        /\ queue'[Len(queue) + 1] = x
    BY <2>1, <2>2, AppendAt
  <2>5. Len(queue) \in Nat
    BY LenProperties
  <2>6. \A i \in 1..Len(queue') : queue'[i].awaited => i \in 1..Len(queue) /\ queue[i].awaited
    BY <2>3, <2>4, <2>5
  <2> QED BY <1>1, <2>4, <2>6 DEF Save
<1>2. CASE Writer
  <2>1. CASE queue' = queue
    BY <1>2, <2>1 DEF Writer, RecvSave, RecvSaveAndFlush, WriteFails, SyncDirectory, SyncFails,
                      Debounce, DebounceFails, Answer
  <2>2. CASE queue # <<>> /\ queue' = Tail(queue)
    <3>1. /\ queue' \in Seq(Commands) /\ Len(queue) \in Nat \ {0} /\ Len(queue') = Len(queue) - 1
          /\ \A i \in 1..Len(queue') : queue'[i] = queue[i + 1]
          /\ Head(queue) = queue[1] /\ Head(queue) \in Commands
      BY <2>2, TailAt
    <3>2. \A i \in 1..Len(queue') : i + 1 \in 1..Len(queue) /\ i + 1 # 1
      BY <3>1
    <3>3. 1 \in 1..Len(queue)
      BY <3>1
    <3>4. CASE RecvSave
      BY <3>1, <3>2, <3>4 DEF RecvSave, Commands
    <3>5. CASE RecvSaveAndFlush
      BY <3>1, <3>2, <3>3, <3>5 DEF RecvSaveAndFlush, Commands
    <3>6. CASE WriteFails
      BY <3>1, <3>2, <3>3, <3>6 DEF WriteFails, Answer
    <3> QED BY <1>2, <2>1, <3>4, <3>5, <3>6 DEF Writer, SyncDirectory, SyncFails, Debounce,
                 DebounceFails
  <2> QED BY <1>2, <2>1, <2>2 DEF Writer, RecvSave, RecvSaveAndFlush, WriteFails,
               SyncDirectory, SyncFails, Debounce, DebounceFails
<1>3. CASE WriterCrash
  BY <1>3, EmptySeq DEF WriterCrash
<1>4. CASE WriterPowerFail
  BY <1>4, EmptySeq DEF WriterPowerFail
<1>5. CASE Forgets
  <2>1. /\ queue' \in Seq(Commands) /\ Len(queue') = Len(queue)
        /\ \A i \in 1..Len(queue) : ~queue'[i].awaited
    BY <1>5, UnawaitedQueue DEF Forgets, Unawait
  <2>2. /\ writing' \subseteq Commands
        /\ \A c \in writing' : ~c.awaited /\ \E e \in writing : c.snapshot = e.snapshot
    <3>1. writing' = {[c EXCEPT !.awaited = FALSE] : c \in writing}
      BY <1>5 DEF Forgets, Unawait
    <3>2. \A e \in writing : LET c == [e EXCEPT !.awaited = FALSE]
                              IN  c \in Commands /\ ~c.awaited /\ c.snapshot = e.snapshot
      BY DEF Commands
    <3> QED BY <3>1, <3>2
  <2> QED BY <1>5, <2>1, <2>2 DEF Forgets, Unawait
<1>6. CASE Untouched
  BY <1>6 DEF Untouched
<1> QED BY <1>1, <1>2, <1>3, <1>4, <1>5, <1>6

\* A durable save is enqueued only when no other is awaited; it covers every
\* task its snapshot does not have.
LEMMA EnqueueStep ==
    ASSUME WInv, Quiet, NEW snap \in SUBSET Tasks, Enqueue(snap)
    PROVE  WInv' /\ \A t \in Tasks \ snap : Covered(t)'
<1> USE DEF WInv, PType, Quiet
<1> DEFINE x == [op |-> "save_and_flush", snapshot |-> snap, awaited |-> TRUE]
<1>1. x \in Commands /\ x.snapshot = snap
  BY DEF Commands
<1>2. queue' = Append(queue, x) /\ reply' = "none" /\ UNCHANGED <<held, writing, disk, mayDisk>>
  BY DEF Enqueue
<1> HIDE DEF x
<1>3. /\ queue' \in Seq(Commands) /\ Len(queue') = Len(queue) + 1
      /\ \A i \in 1..Len(queue) : queue'[i] = queue[i]
      /\ queue'[Len(queue) + 1] = x
  BY <1>1, <1>2, AppendAt
<1>4. Len(queue) \in Nat
  BY LenProperties
<1>5. \A i \in 1..Len(queue') : queue'[i].awaited => i = Len(queue')
  BY <1>3, <1>4
<1>6. WInv'
  BY <1>2, <1>3, <1>5
<1>7. ASSUME NEW t \in Tasks \ snap PROVE Covered(t)'
  <2>1. \A i, j \in 1..Len(queue') : queue'[i].awaited /\ i <= j => queue'[j] = x
    BY <1>3, <1>4, <1>5
  <2> QED BY <1>1, <1>2, <2>1 DEF Covered
<1> QED BY <1>6, <1>7

\* What is nowhere saved stays so unless a snapshot with it is sent.
LEMMA NowhereSavedStep ==
    ASSUME PType, NEW snap \in SUBSET Tasks,
           Save(snap) \/ Enqueue(snap) \/ Writer \/ WriterCrash \/ WriterPowerFail \/ Forgets
             \/ Untouched,
           NEW t \in Tasks \ snap, NowhereSaved(t)
    PROVE  NowhereSaved(t)'
<1> USE DEF PType, NowhereSaved
<1>1. CASE Save(snap) \/ Enqueue(snap)
  <2>0. PICK o \in {"save", "save_and_flush"}, w \in BOOLEAN :
           queue' = Append(queue, [op |-> o, snapshot |-> snap, awaited |-> w])
    BY <1>1 DEF Save, Enqueue
  <2> DEFINE x == [op |-> o, snapshot |-> snap, awaited |-> w]
  <2>1. x \in Commands /\ queue' = Append(queue, x) /\ x.snapshot = snap
    BY <2>0 DEF Commands
  <2> HIDE DEF x
  <2>2. /\ Len(queue') = Len(queue) + 1
        /\ \A i \in 1..Len(queue) : queue'[i] = queue[i]
        /\ queue'[Len(queue) + 1] = x
    BY <2>1, AppendAt
  <2>3. Len(queue) \in Nat
    BY LenProperties
  <2>4. \A i \in 1..Len(queue') : t \notin queue'[i].snapshot
    BY <2>1, <2>2, <2>3
  <2> QED BY <1>1, <2>4 DEF Save, Enqueue
<1>2. CASE Writer
  <2>1. CASE queue' = queue
    BY <1>2, <2>1 DEF Writer, RecvSave, RecvSaveAndFlush, WriteFails, SyncDirectory, SyncFails,
                      Debounce, DebounceFails
  <2>2. CASE queue # <<>> /\ queue' = Tail(queue)
    <3>1. /\ Len(queue) \in Nat \ {0} /\ Len(queue') = Len(queue) - 1
          /\ \A i \in 1..Len(queue') : queue'[i] = queue[i + 1]
          /\ Head(queue) = queue[1]
      BY <2>2, TailAt
    <3>2. \A i \in 1..Len(queue') : t \notin queue'[i].snapshot
      BY <3>1
    <3>3. t \notin Head(queue).snapshot
      BY <3>1
    <3> QED BY <1>2, <3>2, <3>3 DEF Writer, RecvSave, RecvSaveAndFlush, WriteFails,
                 SyncDirectory, SyncFails, Debounce, DebounceFails
  <2> QED BY <1>2, <2>1, <2>2 DEF Writer, RecvSave, RecvSaveAndFlush, WriteFails,
               SyncDirectory, SyncFails, Debounce, DebounceFails
<1>3. CASE WriterCrash \/ WriterPowerFail
  <2>1. Len(queue') = 0
    BY <1>3, EmptySeq DEF WriterCrash, WriterPowerFail
  <2> QED BY <1>3, <2>1 DEF WriterCrash, WriterPowerFail
<1>4. CASE Forgets
  <2>1. /\ Len(queue') = Len(queue)
        /\ \A i \in 1..Len(queue) : queue'[i].snapshot = queue[i].snapshot
    BY <1>4, UnawaitedQueue DEF Forgets, Unawait
  <2>2. \A c \in writing' : \E e \in writing : c.snapshot = e.snapshot
    <3>1. writing' = {[c EXCEPT !.awaited = FALSE] : c \in writing}
      BY <1>4 DEF Forgets, Unawait
    <3>2. \A e \in writing : [e EXCEPT !.awaited = FALSE].snapshot = e.snapshot
      BY DEF Commands
    <3> QED BY <3>1, <3>2
  <2> QED BY <1>4, <2>1, <2>2 DEF Forgets
<1>5. CASE Untouched
  BY <1>5 DEF Untouched
<1> QED BY <1>1, <1>2, <1>3, <1>4, <1>5

\* Nothing becomes awaited but by Enqueue.
LEMMA QuietStep ==
    ASSUME PType, Quiet, NEW snap \in SUBSET Tasks,
           Save(snap) \/ Writer \/ Untouched
    PROVE  Quiet'
<1> USE DEF PType, Quiet
<1>1. CASE Save(snap)
  <2> DEFINE x == [op |-> "save", snapshot |-> snap, awaited |-> FALSE]
  <2>1. x \in Commands /\ queue' = Append(queue, x) /\ ~x.awaited
    BY <1>1 DEF Save, Commands
  <2> HIDE DEF x
  <2>2. /\ Len(queue') = Len(queue) + 1
        /\ \A i \in 1..Len(queue) : queue'[i] = queue[i]
        /\ queue'[Len(queue) + 1] = x
    BY <2>1, AppendAt
  <2>3. Len(queue) \in Nat
    BY LenProperties
  <2> QED BY <1>1, <2>1, <2>2, <2>3 DEF Save
<1>2. CASE Writer
  <2>1. CASE queue' = queue
    BY <1>2, <2>1 DEF Writer, RecvSave, RecvSaveAndFlush, WriteFails, SyncDirectory, SyncFails,
                      Debounce, DebounceFails
  <2>2. CASE queue # <<>> /\ queue' = Tail(queue)
    <3>1. /\ Len(queue) \in Nat \ {0} /\ Len(queue') = Len(queue) - 1
          /\ \A i \in 1..Len(queue') : queue'[i] = queue[i + 1]
          /\ Head(queue) = queue[1]
      BY <2>2, TailAt
    <3>2. \A i \in 1..Len(queue') : ~queue'[i].awaited
      BY <3>1
    <3>3. ~Head(queue).awaited
      BY <3>1
    <3> QED BY <1>2, <3>2, <3>3 DEF Writer, RecvSave, RecvSaveAndFlush, WriteFails,
                 SyncDirectory, SyncFails, Debounce, DebounceFails
  <2> QED BY <1>2, <2>1, <2>2 DEF Writer, RecvSave, RecvSaveAndFlush, WriteFails,
               SyncDirectory, SyncFails, Debounce, DebounceFails
<1>3. CASE Untouched
  BY <1>3 DEF Untouched
<1> QED BY <1>1, <1>2, <1>3

\* When it takes a step without the task, the writer's answer "ok" means that
\* the task is nowhere saved.
LEMMA CoveredStep ==
    ASSUME WInv, NEW snap \in SUBSET Tasks, NEW t \in Tasks \ snap, Covered(t),
           Save(snap) \/ Writer \/ Untouched
    PROVE  Covered(t)'
<1> USE DEF WInv, PType
<1>0. reply = "ok" => NowhereSaved(t)'
  BY NowhereSavedStep DEF Covered
<1>1. CASE Save(snap)
  <2> DEFINE x == [op |-> "save", snapshot |-> snap, awaited |-> FALSE]
  <2>1. x \in Commands /\ queue' = Append(queue, x) /\ ~x.awaited /\ x.snapshot = snap
    BY <1>1 DEF Save, Commands
  <2> HIDE DEF x
  <2>2. /\ Len(queue') = Len(queue) + 1
        /\ \A i \in 1..Len(queue) : queue'[i] = queue[i]
        /\ queue'[Len(queue) + 1] = x
    BY <2>1, AppendAt
  <2>3. Len(queue) \in Nat
    BY LenProperties
  <2>4. \A i, j \in 1..Len(queue') :
           queue'[i].awaited /\ i <= j => t \notin queue'[j].snapshot
    BY <2>1, <2>2, <2>3 DEF Covered
  <2>5. \A c \in writing : c.awaited =>
           t \notin c.snapshot /\ \A i \in 1..Len(queue') : t \notin queue'[i].snapshot
    BY <2>1, <2>2, <2>3 DEF Covered
  <2> QED BY <1>0, <1>1, <2>4, <2>5 DEF Covered, Save
<1>2. CASE Writer
  <2>1. CASE queue' = queue
    <3>1. CASE SyncDirectory
      <4>1. PICK c \in writing : writing' = {} /\ mayDisk' = {disk} /\ Answer(c, "ok")
                                  /\ UNCHANGED <<queue, held, disk, failures>>
        BY <3>1 DEF SyncDirectory
      <4>2. CASE c.awaited
        BY <4>1, <4>2 DEF Covered, NowhereSaved
      <4>3. CASE ~c.awaited
        BY <1>0, <4>1, <4>3 DEF Covered, Answer
      <4> QED BY <4>2, <4>3
    <3>2. CASE SyncFails
      BY <1>0, <2>1, <3>2 DEF SyncFails, Covered, Answer
    <3>3. CASE Debounce \/ DebounceFails
      BY <1>0, <2>1, <3>3 DEF Debounce, DebounceFails, Covered
    <3>4. CASE RecvSave \/ RecvSaveAndFlush \/ WriteFails
      BY <2>1, <3>4, TailAt DEF RecvSave, RecvSaveAndFlush, WriteFails
    <3> QED BY <1>2, <3>1, <3>2, <3>3, <3>4 DEF Writer
  <2>2. CASE queue # <<>> /\ queue' = Tail(queue)
    <3>1. /\ Len(queue) \in Nat \ {0} /\ Len(queue') = Len(queue) - 1
          /\ \A i \in 1..Len(queue') : queue'[i] = queue[i + 1]
          /\ Head(queue) = queue[1]
      BY <2>2, TailAt
    <3>2. \A i, j \in 1..Len(queue') :
             queue'[i].awaited /\ i <= j => t \notin queue'[j].snapshot
      BY <3>1 DEF Covered
    <3>3. Head(queue).awaited => t \notin Head(queue).snapshot
                                 /\ \A i \in 1..Len(queue') : t \notin queue'[i].snapshot
      BY <3>1 DEF Covered
    <3>4. CASE RecvSave
      BY <1>0, <3>2, <3>4 DEF RecvSave, Covered
    <3>5. CASE RecvSaveAndFlush
      BY <1>0, <3>2, <3>3, <3>5 DEF RecvSaveAndFlush, Covered
    <3>6. CASE WriteFails
      BY <1>0, <3>2, <3>6 DEF WriteFails, Covered, Answer
    <3> QED BY <1>2, <2>1, <3>4, <3>5, <3>6 DEF Writer, SyncDirectory, SyncFails, Debounce,
                 DebounceFails
  <2> QED BY <1>2, <2>1, <2>2 DEF Writer, RecvSave, RecvSaveAndFlush, WriteFails,
               SyncDirectory, SyncFails, Debounce, DebounceFails
<1>3. CASE Untouched
  BY <1>3 DEF Untouched, Covered, NowhereSaved
<1> QED BY <1>1, <1>2, <1>3

-----------------------------------------------------------------------------
(* Versions: every committed one is at or below the clock, and a           *)
(* reservation that waits is the clock's next version.                     *)

Below(v, w) == v.gen < w.gen \/ (v.gen = w.gen /\ v.rev <= w.rev)

Follows(r) ==
    /\ r.source = clock
    /\ \/ r.gen = clock.gen /\ r.next = clock.rev + 1
       \/ clock.gen < r.gen /\ r.gen <= generations /\ r.next = 1

VInv ==
    /\ clock \in Stamps /\ generations \in Nat /\ used \subseteq Stamps
    /\ clock.gen <= generations
    /\ \A v \in used : Below(v, clock)

\* Committing the clock's next versions moves it past every version used.
LEMMA CommitStep ==
    ASSUME VInv, NEW r \in [source : Stamps, gen : Nat, next : Nat], NEW n \in Nat \ {0},
           \/ r.gen = clock.gen /\ r.next = clock.rev + 1
           \/ clock.gen < r.gen /\ r.next = 1,
           Commit(r, n), generations' \in Nat, r.gen <= generations'
    PROVE  VInv' /\ clock' \notin used
<1> USE DEF VInv, Stamps, Below
<1>1. /\ clock' = [gen |-> r.gen, rev |-> r.next + n - 1]
      /\ used' = used \cup {[gen |-> r.gen, rev |-> r.next + i] : i \in 0..(n - 1)}
  BY DEF Commit
<1>2. clock' \in Stamps /\ clock'.gen = r.gen /\ clock'.rev = r.next + n - 1
  BY <1>1
<1>3. \A i \in 0..(n - 1) : /\ [gen |-> r.gen, rev |-> r.next + i] \in Stamps
                             /\ Below([gen |-> r.gen, rev |-> r.next + i], clock')
  BY <1>2
<1>4. \A v \in used : Below(v, clock') /\ v # clock'
  BY <1>2
<1> QED BY <1>1, <1>2, <1>3, <1>4

\* prepare_transition reserves the clock's next versions.
LEMMA ReservationStep ==
    ASSUME VInv, NEW n \in Nat \ {0}, DrawGeneration(n)
    PROVE  /\ Reservation(n) \in [source : Stamps, gen : Nat, next : Nat]
           /\ generations' \in Nat /\ Reservation(n).gen <= generations'
           /\ generations <= generations'
           /\ Reservation(n).source = clock
           /\ \/ Reservation(n).gen = clock.gen /\ Reservation(n).next = clock.rev + 1
              \/ clock.gen < Reservation(n).gen /\ Reservation(n).next = 1
<1> USE DEF VInv, Stamps
<1>1. CASE RollsOver(n)
  BY <1>1 DEF DrawGeneration, Reservation
<1>2. CASE ~RollsOver(n)
  BY <1>2 DEF DrawGeneration, Reservation
<1> QED BY <1>1, <1>2

\* A new reservation is the next version of a clock that does not move.
LEMMA ReservedFollows ==
    ASSUME VInv, DrawGeneration(1), UNCHANGED clock
    PROVE  \E r \in [source : Stamps, gen : Nat, next : Nat] : r = Reservation(1) /\ Follows(r)'
<1>1. PICK r : r = Reservation(1)
  OBVIOUS
<1>2. /\ r \in [source : Stamps, gen : Nat, next : Nat]
      /\ r.gen <= generations' /\ r.source = clock
      /\ \/ r.gen = clock.gen /\ r.next = clock.rev + 1
         \/ clock.gen < r.gen /\ r.next = 1
  BY <1>1, ReservationStep
<1>3. Follows(r)'
  BY <1>2 DEF Follows
<1> QED BY <1>1, <1>2, <1>3

LEMMA TransitionStep ==
    ASSUME VInv, NEW n \in Nat \ {0}, Transition(n)
    PROVE  VInv' /\ clock' \notin used
<1>1. DrawGeneration(n) /\ Commit(Reservation(n), n)
  BY DEF Transition
<1>2. /\ Reservation(n) \in [source : Stamps, gen : Nat, next : Nat]
      /\ generations' \in Nat /\ Reservation(n).gen <= generations'
      /\ \/ Reservation(n).gen = clock.gen /\ Reservation(n).next = clock.rev + 1
         \/ clock.gen < Reservation(n).gen /\ Reservation(n).next = 1
  BY <1>1, ReservationStep
<1> QED BY <1>1, <1>2, CommitStep

-----------------------------------------------------------------------------
(* The inductive invariant.  A task is gone once its tombstone was sent to *)
(* the bridge, or if its id was never handed out: no copy has it.  A task  *)
(* whose removal waits is covered by the durable save the actor awaits.    *)

Entries == {inbox[i].task : i \in 1..Len(inbox)}
Gone == (Tasks \ created) \cup log \cup Entries

Control ==
    /\ pc \in {"expiring", "expired"} => pending = {}
    /\ pc \notin {"expiring", "expired"} => expiring = {}
    /\ pc \notin {"persisting", "expiring"} => Quiet

Waiting ==
    \A p \in pending \cup expiring :
        /\ p.task \in created \ tasks
        /\ Follows(p.version)
        /\ pc \in {"persisting", "expiring"} => Covered(p.task)
        /\ pc = "expiring" => p.task \notin log \cup Entries

Removed ==
    /\ log \cup Entries \subseteq created
    /\ \A t \in Gone : t \notin tasks /\ NowhereSaved(t)

IInv == WInv /\ AType /\ VInv /\ Control /\ Waiting /\ Removed

LEMMA InitIInv == Init => IInv
<1> SUFFICES ASSUME Init PROVE IInv
  OBVIOUS
<1>1. /\ queue = <<>> /\ inbox = <<>> /\ Len(queue) = 0 /\ Len(inbox) = 0
      /\ queue \in Seq(Commands) /\ inbox \in Seq(Tombstones)
  BY EmptySeq DEF Init, PersistenceInit
<1> USE PersistenceAssumption DEF Init, PersistenceInit
<1>2. Quiet
  BY <1>1 DEF Quiet
<1>3. WInv
  BY <1>1, <1>2 DEF WInv, PType
<1>4. AType /\ VInv
  BY <1>1 DEF AType, VInv, Stamps
<1>5. Control /\ Waiting
  BY <1>2 DEF Control, Waiting
<1>6. Gone = Tasks \ Initial /\ log \cup Entries = {}
  BY <1>1 DEF Gone, Entries
<1>7. Removed
  BY <1>1, <1>6 DEF Removed, NowhereSaved
<1> QED BY <1>3, <1>4, <1>5, <1>7 DEF IInv

\* A step that leaves the writer alone leaves what is said of it alone.
LEMMA UntouchedSame ==
    ASSUME IInv, Untouched
    PROVE  /\ WInv' /\ (Quiet' <=> Quiet)
           /\ \A t \in Tasks : (Covered(t)' <=> Covered(t)) /\ (NowhereSaved(t)' <=> NowhereSaved(t))
<1>1. WInv'
  <2>1. {} \in SUBSET Tasks
    OBVIOUS
  <2> QED BY <2>1, WriterStep DEF IInv
<1>2. Quiet' <=> Quiet
  BY DEF Untouched, Quiet
<1>3. ASSUME NEW t \in Tasks PROVE (Covered(t)' <=> Covered(t)) /\ (NowhereSaved(t)' <=> NowhereSaved(t))
  BY DEF Untouched, Covered, NowhereSaved
<1> QED BY <1>1, <1>2, <1>3

\* Gone tasks are of Tasks.
LEMMA GoneType == ASSUME AType PROVE Gone \subseteq Tasks /\ Entries \subseteq Tasks
<1>1. \A i \in 1..Len(inbox) : inbox[i] \in Tombstones
  BY LenProperties DEF AType
<1>2. \A i \in 1..Len(inbox) : inbox[i].task \in Tasks
  BY <1>1 DEF Tombstones
<1> QED BY <1>2 DEF Gone, Entries, AType

\* Steps of the actor that neither wait for the writer nor use the bridge.
LEMMA CommandStep ==
    ASSUME IInv, NEW t \in Tasks,
           Create(t) \/ Update(t) \/ Fire(t) \/ FireSkipped(t) \/ ExpirePlain(t)
             \/ ExpireBlocked(t)
    PROVE  IInv' /\ (clock' # clock => clock' \notin used)
<1>1. /\ Untouched /\ UNCHANGED <<inbox, log, pending, expiring, pc>>
      /\ pending = {} /\ expiring = {} /\ pc = "idle"
  BY DEF Create, Update, Fire, FireSkipped, ExpirePlain, ExpireBlocked, Fires, Accepting,
         persistence, bridge, Untouched, IInv, Control
<1>2. /\ created' \subseteq Tasks /\ created \subseteq created' /\ tasks' \subseteq Tasks
      /\ \A u \in tasks' : u \in tasks \/ u \notin created
      /\ \A u \in tasks' : u \in tasks \/ u \in created'
  BY DEF Create, Update, Fire, FireSkipped, ExpirePlain, ExpireBlocked, IInv, AType
<1>3. VInv' /\ (clock' # clock => clock' \notin used)
  <2>1. Transition(1) \/ Transition(2) => VInv' /\ clock' \notin used
    BY TransitionStep DEF IInv
  <2>2. DrawGeneration(1) => generations' \in Nat /\ generations <= generations'
    BY ReservationStep DEF IInv
  <2>3. UNCHANGED <<clock, used>> /\ (DrawGeneration(1) \/ generations' = generations) => VInv'
    BY <2>2 DEF IInv, VInv, Stamps
  <2> QED BY <2>1, <2>3 DEF Create, Update, Fire, FireSkipped, ExpirePlain, ExpireBlocked
<1>4. WInv' /\ Control'
  BY <1>1, UntouchedSame DEF IInv, Control
<1>5. AType' /\ Waiting'
  BY <1>1, <1>2 DEF IInv, AType, Waiting
<1>6. Removed'
  <2>1. Entries' = Entries
    BY <1>1 DEF Entries
  <2>2. /\ Gone' \subseteq Gone /\ (log \cup Entries \subseteq created)'
        /\ \A u \in Gone' : u \in tasks' => u \in tasks
    BY <1>1, <1>2, <2>1 DEF Gone, IInv, AType, Removed
  <2> QED BY <2>2, <1>1, <2>1, UntouchedSame, GoneType DEF IInv, Removed
<1> QED BY <1>3, <1>4, <1>5, <1>6 DEF IInv

\* Delete and the steps of complete_pending_removal without the writer.
LEMMA RemovalStep ==
    ASSUME IInv,
           (\E t \in Tasks : Delete(t)) \/ DeleteAgain \/ Abandon \/ RemovalFails \/ CommitRemoval
    PROVE  IInv' /\ (clock' # clock => clock' \notin used)
<1>1. /\ Untouched /\ UNCHANGED <<inbox, log, created, expiring>>
      /\ expiring = {} /\ tasks' \subseteq tasks
      /\ pc' \in {"idle", "removing"}
  BY DEF Delete, DeleteAgain, Abandon, RemovalFails, CommitRemoval, Accepting,
         persistence, bridge, Untouched, IInv, Control
<1>2. pending' = {} \/ (pending' = pending /\ UNCHANGED <<clock, generations, tasks>>)
        \/ \E t \in Tasks : Delete(t)
  BY DEF DeleteAgain, Abandon, RemovalFails, CommitRemoval
<1>3. VInv' /\ (clock' # clock => clock' \notin used)
  <2>1. CASE CommitRemoval
    <3>1. PICK p \in pending : Commit(p.version, 1)
      BY <2>1 DEF CommitRemoval
    <3>2. Follows(p.version) /\ p.version \in [source : Stamps, gen : Nat, next : Nat]
      BY DEF IInv, Waiting, AType, Reserved
    <3>3. generations' = generations /\ generations \in Nat /\ p.version.gen <= generations
      BY <2>1, <3>2 DEF CommitRemoval, IInv, VInv, Follows
    <3> QED BY <3>1, <3>2, <3>3, CommitStep DEF IInv, Follows
  <2>2. CASE \E t \in Tasks : Delete(t)
    <3>1. DrawGeneration(1) /\ UNCHANGED <<clock, used>>
      BY <2>2 DEF Delete
    <3>2. generations' \in Nat /\ generations <= generations'
      BY <3>1, ReservationStep DEF IInv
    <3> QED BY <3>1, <3>2 DEF IInv, VInv, Stamps
  <2>3. CASE DeleteAgain \/ Abandon \/ RemovalFails
    BY <2>3 DEF DeleteAgain, Abandon, RemovalFails, IInv, VInv
  <2> QED BY <2>1, <2>2, <2>3
<1>4. WInv' /\ Control'
  <2>1. Quiet'
    <3>1. CASE RemovalFails
      BY <1>1, <3>1, UntouchedSame DEF RemovalFails, IInv, Control, WInv
    <3>2. CASE (\E t \in Tasks : Delete(t)) \/ DeleteAgain \/ Abandon \/ CommitRemoval
      BY <1>1, <3>2, UntouchedSame DEF Delete, DeleteAgain, Abandon, CommitRemoval, Accepting,
           IInv, Control
    <3> QED BY <3>1, <3>2
  <2> QED BY <1>1, <2>1, UntouchedSame DEF Control
<1>5. AType' /\ Waiting'
  <2>1. CASE pending' = {}
    BY <1>1, <2>1 DEF IInv, AType, Waiting
  <2>2. CASE pending' = pending /\ UNCHANGED <<clock, generations, tasks>>
    BY <1>1, <2>2 DEF IInv, AType, Waiting, Follows
  <2>3. ASSUME NEW t \in Tasks, Delete(t) PROVE AType' /\ Waiting'
    <3>1. /\ t \in tasks /\ tasks' = tasks \ {t} /\ DrawGeneration(1)
          /\ pending' = {[task |-> t, version |-> Reservation(1)]}
          /\ UNCHANGED clock
      BY <2>3 DEF Delete
    <3>2. PICK r \in [source : Stamps, gen : Nat, next : Nat] :
             r = Reservation(1) /\ Follows(r)'
      BY <3>1, ReservedFollows DEF IInv
    <3>3. t \in created
      BY <3>1 DEF IInv, Removed, Gone
    <3>4. AType'
      BY <1>1, <3>1, <3>2 DEF IInv, AType, Reserved
    <3>5. pending' \cup expiring' = {[task |-> t, version |-> r]}
      BY <1>1, <3>1, <3>2
    <3>6. \A p \in pending' \cup expiring' : p.task = t /\ p.version = r
      BY <3>5
    <3> QED BY <1>1, <3>1, <3>2, <3>3, <3>4, <3>6 DEF Waiting
  <2> QED BY <1>2, <2>1, <2>2, <2>3
<1>6. Removed'
  <2>1. Gone' = Gone /\ Entries' = Entries
    BY <1>1 DEF Gone, Entries
  <2> QED BY <1>1, <2>1, UntouchedSame, GoneType DEF IInv, Removed
<1> QED BY <1>3, <1>4, <1>5, <1>6 DEF IInv

\* The ends of an expiry that leave the writer and the bridge alone.
LEMMA ExpiryStep ==
    ASSUME IInv,
           \/ ExpiryRestored \/ CommitExpiry
           \/ /\ ExpiryGivenUp
              /\ pc = "expired" \/ (pc = "expiring" /\ reply = "ok")
              /\ UNCHANGED <<persistence, bridge>>
    PROVE  IInv' /\ (clock' # clock => clock' \notin used)
<1>1. /\ Untouched /\ UNCHANGED <<inbox, log, created, pending>>
      /\ expiring' = {} /\ pc' = "idle"
      /\ tasks' = tasks \/ (pc = "expiring" /\ tasks' = tasks \cup {p.task : p \in expiring})
  BY DEF ExpiryRestored, CommitExpiry, ExpiryGivenUp, persistence, bridge, Untouched
<1>2. pending = {}
  BY DEF ExpiryRestored, CommitExpiry, IInv, Control
<1>3. VInv' /\ (clock' # clock => clock' \notin used)
  <2>1. CASE CommitExpiry
    <3>1. PICK p \in expiring : Commit(p.version, 1)
      BY <2>1 DEF CommitExpiry
    <3>2. Follows(p.version) /\ p.version \in [source : Stamps, gen : Nat, next : Nat]
      BY DEF IInv, Waiting, AType, Reserved
    <3>3. generations' = generations /\ generations \in Nat /\ p.version.gen <= generations
      BY <2>1, <3>2 DEF CommitExpiry, IInv, VInv, Follows
    <3> QED BY <3>1, <3>2, <3>3, CommitStep DEF IInv, Follows
  <2>2. CASE ExpiryRestored \/ ExpiryGivenUp
    BY <2>2 DEF ExpiryRestored, ExpiryGivenUp, IInv, VInv
  <2> QED BY <2>1, <2>2
<1>4. WInv' /\ Control'
  <2>1. Quiet
    BY DEF ExpiryRestored, CommitExpiry, IInv, Control, WInv
  <2> QED BY <1>1, <2>1, UntouchedSame DEF Control
<1>5. AType' /\ Waiting'
  <2>1. \A p \in expiring : p.task \in Tasks
    BY DEF IInv, AType, Reserved
  <2> QED BY <1>1, <1>2, <2>1 DEF IInv, AType, Waiting
<1>6. Removed'
  <2>1. Gone' = Gone /\ Entries' = Entries
    BY <1>1 DEF Gone, Entries
  <2>2. pc = "expiring" => \A p \in expiring : p.task \notin Gone
    BY DEF IInv, Waiting, Gone
  <2>3. \A t \in Gone : t \notin tasks'
    BY <1>1, <2>2 DEF IInv, Removed
  <2> QED BY <1>1, <2>1, <2>3, UntouchedSame, GoneType DEF IInv, Removed
<1> QED BY <1>3, <1>4, <1>5, <1>6 DEF IInv

\* The tombstone is sent when the writer has said that the task is saved
\* nowhere.
LEMMA PublishStep ==
    ASSUME IInv,
           Publish("persisting", "publishing", pending) \/ Publish("expiring", "expired", expiring)
    PROVE  IInv' /\ UNCHANGED clock
<1>1. /\ Untouched
      /\ UNCHANGED <<log, tasks, created, clock, generations, used, pending, expiring>>
      /\ pc \in {"persisting", "expiring"} /\ reply = "ok"
      /\ pc = "persisting" => pc' = "publishing"
      /\ pc = "expiring" => pc' = "expired"
  BY DEF Publish, persistence, Untouched
<1>2. PICK p \in pending \cup expiring : inbox' = Append(inbox, [task |-> p.task, awaited |-> TRUE])
  BY DEF Publish
<1>3. p.task \in Tasks /\ p.task \in created \ tasks /\ NowhereSaved(p.task)
  BY <1>1 DEF IInv, AType, Reserved, Waiting, Covered
<1>4. inbox' \in Seq(Tombstones) /\ Entries' = Entries \cup {p.task}
  <2> DEFINE x == [task |-> p.task, awaited |-> TRUE]
  <2>1. x \in Tombstones /\ x.task = p.task
    BY <1>3 DEF Tombstones
  <2> HIDE DEF x
  <2>2. /\ inbox' \in Seq(Tombstones) /\ Len(inbox') = Len(inbox) + 1
        /\ \A i \in 1..Len(inbox) : inbox'[i] = inbox[i]
        /\ inbox'[Len(inbox) + 1] = x
    BY <1>2, <2>1, AppendAt DEF IInv, AType, x
  <2>3. Len(inbox) \in Nat
    BY LenProperties DEF IInv, AType
  <2> QED BY <2>1, <2>2, <2>3 DEF Entries
<1>5. WInv' /\ AType' /\ VInv'
  BY <1>1, <1>4, UntouchedSame DEF IInv, AType, VInv
<1>6. Control'
  BY <1>1, UntouchedSame DEF IInv, Control, WInv
<1>7. Waiting'
  BY <1>1 DEF IInv, Waiting, Follows
<1>8. Removed'
  <2>1. Gone' = Gone \cup {p.task}
    BY <1>1, <1>4 DEF Gone
  <2> QED BY <1>1, <1>3, <1>4, <2>1, UntouchedSame, GoneType DEF IInv, Removed
<1> QED BY <1>1, <1>5, <1>6, <1>7, <1>8 DEF IInv

\* The steps that enqueue a durable save of the state without the task.
LEMMA SaveStep ==
    ASSUME IInv, PersistRemoval \/ \E t \in Tasks : ExpireDurable(t)
    PROVE  IInv' /\ UNCHANGED clock
<1>1. /\ Enqueue(tasks') /\ Quiet
      /\ UNCHANGED <<inbox, log, created, clock, used, pending>>
      /\ tasks' \subseteq tasks /\ pc' \in {"persisting", "expiring"}
  BY DEF PersistRemoval, ExpireDurable, Fires, Accepting, bridge, IInv, Control
<1>2. tasks' \in SUBSET Tasks
  BY <1>1 DEF IInv, AType
<1>3. WInv' /\ \A t \in Tasks \ tasks' : Covered(t)'
  <2>1. ASSUME NEW snap \in SUBSET Tasks, Enqueue(snap)
        PROVE  WInv' /\ \A t \in Tasks \ snap : Covered(t)'
    BY <1>1, <2>1, EnqueueStep DEF IInv
  <2> QED BY <1>1, <1>2, <2>1
<1>4. Removed'
  <2>1. Gone' = Gone /\ Entries' = Entries
    BY <1>1 DEF Gone, Entries
  <2>2. ASSUME NEW t \in Gone PROVE t \notin tasks' /\ NowhereSaved(t)'
    <3>1. t \in Tasks \ tasks' /\ NowhereSaved(t) /\ PType
      BY <1>1, GoneType DEF IInv, Removed, WInv
    <3> QED BY <1>1, <1>2, <3>1, NowhereSavedStep
  <2> QED BY <1>1, <2>1, <2>2 DEF IInv, Removed
<1>5. CASE PersistRemoval
  <2>1. UNCHANGED <<tasks, generations, expiring>> /\ pc' = "persisting" /\ expiring = {}
    BY <1>5 DEF PersistRemoval, IInv, Control
  <2>2. AType' /\ VInv' /\ Control'
    BY <1>1, <2>1 DEF IInv, AType, VInv, Control
  <2>3. \A p \in pending : p.task \in Tasks \ tasks'
    BY <2>1 DEF IInv, AType, Reserved, Waiting
  <2>4. Waiting'
    BY <1>1, <1>3, <2>1, <2>3 DEF IInv, Waiting, Follows
  <2> QED BY <1>1, <1>3, <1>4, <2>2, <2>4 DEF IInv
<1>6. ASSUME NEW t \in Tasks, ExpireDurable(t) PROVE IInv'
  <2>1. /\ t \in tasks /\ tasks' = tasks \ {t} /\ DrawGeneration(1) /\ pc' = "expiring"
        /\ expiring' = {[task |-> t, version |-> Reservation(1)]} /\ pending = {}
    BY <1>6 DEF ExpireDurable, Fires, Accepting
  <2>2. PICK r \in [source : Stamps, gen : Nat, next : Nat] : r = Reservation(1) /\ Follows(r)'
    BY <1>1, <2>1, ReservedFollows DEF IInv
  <2>3. t \in created /\ t \notin log \cup Entries
    BY <2>1 DEF IInv, Removed, Gone
  <2>4. VInv'
    <3>1. generations' \in Nat /\ generations <= generations'
      BY <2>1, ReservationStep DEF IInv
    <3> QED BY <1>1, <3>1 DEF IInv, VInv, Stamps
  <2>5. AType'
    BY <1>1, <2>1, <2>2 DEF IInv, AType, Reserved
  <2>6. Control'
    BY <1>1, <2>1 DEF Control
  <2>7. \A p \in pending' \cup expiring' : p.task = t /\ p.version = r
    BY <1>1, <2>1, <2>2
  <2>8. Entries' = Entries
    BY <1>1 DEF Entries
  <2>9. Waiting'
    BY <1>1, <1>3, <2>1, <2>2, <2>3, <2>7, <2>8 DEF Waiting
  <2> QED BY <1>3, <1>4, <2>4, <2>5, <2>6, <2>9 DEF IInv
<1> QED BY <1>1, <1>5, <1>6

\* The actor stops waiting: a timeout or the cancellation of the session.
LEMMA ForgetStep ==
    ASSUME IInv, \/ RemovalTimeout \/ Cancel
                 \/ ExpiryGivenUp /\ StopWaiting("expiring", "expired")
    PROVE  IInv' /\ (clock' # clock => clock' \notin used)
<1>1. /\ Forgets /\ UNCHANGED <<log, tasks, created>>
      /\ inbox' = [i \in DOMAIN inbox |-> [inbox[i] EXCEPT !.awaited = FALSE]]
      /\ pc' \in {"idle", "stopped"} /\ expiring' = {}
      /\ pending' = {} \/ (pending' = pending /\ UNCHANGED <<clock, generations, used>>)
  BY DEF RemovalTimeout, Cancel, ExpiryGivenUp, StopWaiting, Forgets, IInv, Control
<1>2. WInv' /\ Quiet'
  <2>1. {} \in SUBSET Tasks
    OBVIOUS
  <2>2. WInv'
    BY <1>1, <2>1, WriterStep DEF IInv
  <2>3. Len(queue') = Len(queue) /\ \A i \in 1..Len(queue) : ~queue'[i].awaited
    BY <1>1, UnawaitedQueue DEF Forgets, Unawait, IInv, WInv, PType
  <2>4. \A c \in writing' : ~c.awaited
    <3>1. writing' = {[c EXCEPT !.awaited = FALSE] : c \in writing}
      BY <1>1 DEF Forgets, Unawait
    <3>2. \A e \in writing : ~[e EXCEPT !.awaited = FALSE].awaited
      BY DEF Commands, IInv, WInv, PType
    <3> QED BY <3>1, <3>2
  <2> QED BY <2>2, <2>3, <2>4 DEF Quiet
<1>3. inbox' \in Seq(Tombstones) /\ Entries' = Entries
  <2>1. /\ inbox' \in Seq(Tombstones) /\ Len(inbox') = Len(inbox)
        /\ \A i \in 1..Len(inbox) : inbox'[i].task = inbox[i].task
    BY <1>1, UnawaitedInbox DEF IInv, AType
  <2> QED BY <2>1 DEF Entries
<1>4. VInv' /\ (clock' # clock => clock' \notin used)
  <2>1. CASE Cancel /\ tasks # {}
    <3>1. Cardinality(tasks) \in Nat \ {0}
      BY <2>1, PersistenceAssumption, FS_Subset, FS_CardinalityType, FS_EmptySet DEF IInv, AType
    <3>2. Transition(Cardinality(tasks))
      BY <2>1 DEF Cancel
    <3> QED BY <3>1, <3>2, TransitionStep DEF IInv
  <2>2. CASE ~(Cancel /\ tasks # {})
    BY <2>2 DEF RemovalTimeout, Cancel, ExpiryGivenUp, IInv, VInv
  <2> QED BY <2>1, <2>2
<1>5. AType' /\ Control'
  BY <1>1, <1>2, <1>3 DEF IInv, AType, Control
<1>6. Waiting'
  BY <1>1 DEF IInv, Waiting, Follows
<1>7. Removed'
  <2>1. Gone' = Gone
    BY <1>1, <1>3 DEF Gone
  <2>2. ASSUME NEW t \in Gone PROVE NowhereSaved(t)'
    <3>1. t \in Tasks \ {} /\ {} \in SUBSET Tasks /\ NowhereSaved(t) /\ PType
      BY GoneType DEF IInv, Removed, WInv
    <3> QED BY <1>1, <3>1, NowhereSavedStep
  <2> QED BY <1>1, <1>3, <2>1, <2>2 DEF IInv, Removed
<1> QED BY <1>2, <1>4, <1>5, <1>6, <1>7 DEF IInv

\* The writer, and the saves of other tools.
LEMMA SaverStep ==
    ASSUME IInv, (Writer /\ UNCHANGED <<actor, bridge>>) \/ ToolSave
    PROVE  IInv' /\ UNCHANGED clock
<1>1. /\ UNCHANGED <<tasks, created, clock, generations, used, pending, expiring, pc, inbox, log>>
      /\ Writer \/ Save(tasks)
      /\ tasks \in SUBSET Tasks
  BY DEF ToolSave, actor, bridge, IInv, AType
<1>2. PICK snap \in SUBSET Tasks : snap = tasks
  BY <1>1
<1>3. Writer \/ Save(snap)
  BY <1>1, <1>2
<1>4. WInv'
  BY <1>3, WriterStep DEF IInv
<1>5. Quiet => Quiet'
  BY <1>3, QuietStep DEF IInv, WInv
<1>6. \A t \in Tasks \ tasks : Covered(t) => Covered(t)'
  BY <1>2, <1>3, CoveredStep DEF IInv
<1>7. AType' /\ VInv' /\ Control'
  BY <1>1, <1>5 DEF IInv, AType, VInv, Control
<1>8. Waiting'
  <2>1. \A p \in pending \cup expiring : p.task \in Tasks \ tasks
    BY DEF IInv, AType, Reserved, Waiting
  <2>2. Entries' = Entries
    BY <1>1 DEF Entries
  <2> QED BY <1>1, <1>6, <2>1, <2>2 DEF IInv, Waiting, Follows
<1>9. Removed'
  <2>1. Gone' = Gone /\ Entries' = Entries
    BY <1>1 DEF Gone, Entries
  <2>2. ASSUME NEW t \in Gone PROVE NowhereSaved(t)'
    <3>1. t \in Tasks \ snap /\ NowhereSaved(t) /\ PType
      BY <1>2, GoneType DEF IInv, Removed, WInv
    <3> QED BY <1>3, <3>1, NowhereSavedStep
  <2> QED BY <1>1, <2>1, <2>2 DEF IInv, Removed
<1> QED BY <1>1, <1>4, <1>7, <1>8, <1>9 DEF IInv

\* The bridge only appends what was sent to it.
LEMMA BridgeStep ==
    ASSUME IInv, AppendDurably \/ AppendFails \/ BridgeCloses
    PROVE  IInv' /\ UNCHANGED clock
<1>1. /\ Untouched
      /\ UNCHANGED <<tasks, created, clock, generations, used, pending, expiring, pc>>
  BY DEF AppendDurably, AppendFails, BridgeCloses, BridgeAnswers, actor, persistence, Untouched
<1>2. inbox' \in Seq(Tombstones) /\ Entries' \subseteq Entries /\ log' \subseteq log \cup Entries
  <2>1. CASE inbox # <<>> /\ inbox' = Tail(inbox) /\ log' \subseteq log \cup {Head(inbox).task}
    <3>1. /\ inbox' \in Seq(Tombstones) /\ Len(inbox) \in Nat \ {0} /\ Len(inbox') = Len(inbox) - 1
          /\ \A i \in 1..Len(inbox') : inbox'[i] = inbox[i + 1]
          /\ Head(inbox) = inbox[1]
      BY <2>1, TailAt DEF IInv, AType
    <3>2. \A i \in 1..Len(inbox') : i + 1 \in 1..Len(inbox)
      BY <3>1
    <3>3. 1 \in 1..Len(inbox)
      BY <3>1
    <3> QED BY <2>1, <3>1, <3>2, <3>3 DEF Entries
  <2>2. CASE inbox' = <<>> /\ log' = log
    <3>1. inbox' \in Seq(Tombstones) /\ Len(inbox') = 0
      BY <2>2, EmptySeq
    <3> QED BY <2>2, <3>1 DEF Entries
  <2> QED BY <2>1, <2>2 DEF AppendDurably, AppendFails, BridgeCloses, BridgeAnswers
<1>3. Entries \subseteq Tasks
  BY GoneType DEF IInv
<1>4. WInv' /\ AType' /\ VInv' /\ Control'
  BY <1>1, <1>2, <1>3, UntouchedSame DEF IInv, AType, VInv, Control
<1>5. Waiting'
  <2>1. \A p \in pending \cup expiring : p.task \in Tasks
    BY DEF IInv, AType, Reserved
  <2> QED BY <1>1, <1>2, <2>1, UntouchedSame DEF IInv, Waiting, Follows
<1>6. Removed'
  <2>1. Gone' \subseteq Gone /\ (log \cup Entries \subseteq created)'
    BY <1>1, <1>2 DEF Gone, IInv, Removed
  <2> QED BY <1>1, <2>1, UntouchedSame, GoneType DEF IInv, Removed
<1> QED BY <1>1, <1>4, <1>5, <1>6 DEF IInv

\* A restart loads a file that has none of the gone tasks.
LEMMA RestartStep ==
    ASSUME IInv, Reopen \/ Crash \/ PowerFail
    PROVE  IInv' /\ clock'.rev = 0
<1>1. /\ WriterCrash \/ WriterPowerFail \/ Untouched
      /\ tasks' \in mayDisk
      /\ generations' = generations + 1 /\ clock' = [gen |-> generations + 1, rev |-> 0]
      /\ pending' = {} /\ expiring' = {} /\ pc' = "idle" /\ inbox' = <<>>
      /\ UNCHANGED <<created, used, log>>
  BY DEF Reopen, Crash, PowerFail, Start, WriterCrash, WriterPowerFail, Untouched, persistence,
         IInv, WInv, PType
<1>2. {} \in SUBSET Tasks
  OBVIOUS
<1>3. WInv'
  BY <1>1, <1>2, WriterStep DEF IInv
<1>4. Quiet'
  <2>1. CASE Reopen
    BY <2>1 DEF Reopen, persistence, IInv, Control, Quiet
  <2>2. CASE Crash \/ PowerFail
    <3>1. Len(queue') = 0 /\ writing' = {}
      BY <2>2, EmptySeq DEF Crash, PowerFail, WriterCrash, WriterPowerFail
    <3> QED BY <3>1 DEF Quiet
  <2> QED BY <2>1, <2>2
<1>5. inbox' \in Seq(Tombstones) /\ Entries' = {}
  <2>1. inbox' \in Seq(Tombstones) /\ Len(inbox') = 0
    BY <1>1, EmptySeq
  <2> QED BY <2>1 DEF Entries
<1>6. VInv' /\ clock'.rev = 0
  BY <1>1 DEF IInv, VInv, Stamps, Below
<1>7. AType' /\ Control' /\ Waiting'
  BY <1>1, <1>4, <1>5 DEF IInv, AType, Control, Waiting, WInv, PType
<1>8. Removed'
  <2>1. Gone' \subseteq Gone /\ (log \cup Entries \subseteq created)'
    BY <1>1, <1>5 DEF Gone, IInv, Removed
  <2>2. ASSUME NEW t \in Gone PROVE NowhereSaved(t)' /\ t \notin tasks'
    <3>1. t \in Tasks \ {} /\ NowhereSaved(t) /\ PType
      BY GoneType DEF IInv, Removed, WInv
    <3>2. NowhereSaved(t)'
      BY <1>1, <1>2, <3>1, NowhereSavedStep
    <3> QED BY <1>1, <3>1, <3>2 DEF NowhereSaved
  <2> QED BY <2>1, <2>2 DEF Removed
<1> QED BY <1>3, <1>6, <1>7, <1>8 DEF IInv

\* Every step keeps the invariant and commits no version twice.
LEMMA NextIInv ==
    ASSUME IInv, [Next]_vars
    PROVE  IInv' /\ (clock' # clock /\ clock'.rev > 0 => clock' \notin used)
<1>1. ASSUME NEW t \in Tasks,
             Create(t) \/ Update(t) \/ Fire(t) \/ FireSkipped(t) \/ ExpirePlain(t)
               \/ ExpireBlocked(t)
      PROVE  IInv' /\ (clock' # clock => clock' \notin used)
  BY <1>1, CommandStep
<1>2. CASE \E t \in Tasks : Delete(t)
  BY <1>2, RemovalStep
<1>3. CASE \E t \in Tasks : ExpireDurable(t)
  BY <1>3, SaveStep
<1>4. CASE DeleteAgain \/ Abandon \/ RemovalFails \/ CommitRemoval
  BY <1>4, RemovalStep
<1>5. CASE PersistRemoval
  BY <1>5, SaveStep
<1>6. CASE Publish("persisting", "publishing", pending) \/ Publish("expiring", "expired", expiring)
  BY <1>6, PublishStep
<1>7. CASE ExpiryRestored \/ CommitExpiry
  BY <1>7, ExpiryStep
<1>8. CASE ExpiryGivenUp
  <2>1. CASE StopWaiting("expiring", "expired")
    BY <1>8, <2>1, ForgetStep
  <2>2. CASE /\ pc = "expired" \/ (pc = "expiring" /\ reply = "ok")
             /\ UNCHANGED <<persistence, bridge>>
    BY <1>8, <2>2, ExpiryStep
  <2> QED BY <1>8, <2>1, <2>2 DEF ExpiryGivenUp
<1>9. CASE RemovalTimeout \/ Cancel
  BY <1>9, ForgetStep
<1>10. CASE (Writer /\ UNCHANGED <<actor, bridge>>) \/ ToolSave
  BY <1>10, SaverStep
<1>11. CASE AppendDurably \/ AppendFails \/ BridgeCloses
  BY <1>11, BridgeStep
<1>12. CASE Reopen \/ Crash \/ PowerFail
  BY <1>12, RestartStep
<1>13. CASE UNCHANGED vars
  <2>1. Untouched /\ UNCHANGED <<tasks, created, clock, generations, used, pending, expiring, pc,
                                 inbox, log>>
    BY <1>13 DEF vars, persistence, actor, bridge, Untouched
  <2>2. Entries' = Entries /\ Gone' = Gone
    BY <2>1 DEF Entries, Gone
  <2>3. \A p \in pending \cup expiring : p.task \in Tasks
    BY DEF IInv, AType, Reserved
  <2>4. Waiting'
    BY <2>1, <2>2, <2>3, UntouchedSame DEF IInv, Waiting, Follows
  <2>5. Removed'
    BY <2>1, <2>2, UntouchedSame, GoneType DEF IInv, Removed
  <2> QED BY <2>1, <2>4, <2>5, UntouchedSame DEF IInv, AType, VInv, Control
<1> QED BY <1>1, <1>2, <1>3, <1>4, <1>5, <1>6, <1>7, <1>8, <1>9, <1>10, <1>11, <1>12, <1>13
        DEF Next, Actor

-----------------------------------------------------------------------------
\* The invariant holds in every reachable state.
LEMMA Invariance == Spec => []IInv
BY InitIInv, NextIInv, PTL DEF Spec

(* complete_pending_removal and the durable expiry: whatever fails, times  *)
(* out or crashes, a task whose tombstone is in the update log is neither  *)
(* scheduled nor in any file that a restart can load.                      *)
THEOREM TombstonesAreFinal == Spec => []NoResurrection
<1>1. IInv => NoResurrection
  BY DEF IInv, Removed, Gone, NowhereSaved, NoResurrection
<1> QED BY <1>1, Invariance, PTL

(* commit_next's assertion never fails: a reservation that waits is the    *)
(* clock's next one until it is committed or given up.                     *)
THEOREM ReservationsStayFresh == Spec => []ReservationFresh
<1>1. IInv => ReservationFresh
  BY DEF IInv, Waiting, Follows, ReservationFresh
<1> QED BY <1>1, Invariance, PTL

(* No two committed transitions carry the same generation and revision,    *)
(* for every maximal revision and any number of restarts.                  *)
THEOREM VersionsAreUnique == Spec => UniqueVersions
<1>1. IInv /\ [Next]_vars => [clock' # clock /\ clock'.rev > 0 => clock' \notin used]_vars
  BY NextIInv
<1> QED BY <1>1, Invariance, PTL DEF Spec, UniqueVersions

-----------------------------------------------------------------------------
(* The types.  Beyond the invariant above: at most one save is held, one   *)
(* durable write under way and one removal waiting; no save holds more     *)
(* tasks than were ever scheduled together; and the durable saves that the *)
(* actor gave up on make the queue longer than MaxQueue, one for each      *)
(* answer that came too late and the one it awaits or stopped over.        *)

AtMostOne(S) == \A x, y \in S : x = y
Fits(S, known) == S \subseteq known /\ Cardinality(S) <= MaxTasks

SavedFit(known) ==
    /\ \A i \in 1..Len(queue) : Fits(queue[i].snapshot, known)
    /\ \A h \in held : Fits(h, known)
    /\ \A c \in writing : Fits(c.snapshot, known)
    /\ \A f \in mayDisk : Fits(f, known)

WriterShape ==
    /\ AtMostOne(held) /\ AtMostOne(writing)
    /\ \A c \in writing : c.op = "save_and_flush"
    /\ reply \in {"none", "ok", "err"}

Backlog ==
    /\ failures \in 0..MaxFailures
    /\ Len(queue) <= MaxQueue + failures + 1
    /\ pc # "stopped" /\ (\A i \in 1..Len(queue) : ~queue[i].awaited) =>
         Len(queue) <= MaxQueue + failures

Expiring == {r.task : r \in expiring}
ActorShape ==
    /\ pc \in {"idle", "removing", "persisting", "publishing", "expiring", "expired", "stopped"}
    /\ AtMostOne(pending) /\ AtMostOne(expiring) /\ blocked \subseteq Tasks
    /\ ack \in {"none", "ok", "err"} /\ open \in BOOLEAN
    /\ Fits(tasks \cup Expiring, created)

Numbers ==
    /\ clock \in Versions /\ generations \in 1..MaxGeneration /\ used \subseteq Versions
    /\ pending \cup expiring \subseteq Removals

SInv == WriterShape /\ SavedFit(created) /\ Backlog /\ ActorShape /\ Numbers

LEMMA SingleCount ==
    ASSUME NEW S, AtMostOne(S)
    PROVE  Cardinality(S) <= 1
<1>1. CASE S = {}
  BY <1>1, FS_EmptySet
<1>2. CASE S # {}
  <2>1. PICK x : S = {x}
    BY <1>2 DEF AtMostOne
  <2>2. Cardinality({x}) = 1
    BY FS_Singleton
  <2> QED BY <2>1, <2>2
<1> QED BY <1>1, <1>2

LEMMA FitsLess ==
    ASSUME NEW known, known \subseteq Tasks, NEW T, Fits(T, known), NEW S, S \subseteq T
    PROVE  Fits(S, known) /\ IsFiniteSet(S) /\ Cardinality(S) \in Nat
<1>1. IsFiniteSet(T) /\ S \subseteq known
  BY PersistenceAssumption, FS_Subset DEF Fits
<1>2. IsFiniteSet(S) /\ Cardinality(S) <= Cardinality(T)
  BY <1>1, FS_Subset
<1>3. Cardinality(S) \in Nat /\ Cardinality(T) \in Nat /\ MaxTasks \in Nat /\ Cardinality(T) <= MaxTasks
  BY <1>1, <1>2, FS_CardinalityType, SchedulerAssumption DEF Fits
<1> QED BY <1>1, <1>2, <1>3 DEF Fits

\* What is saved is a snapshot that was sent, or nothing.
LEMMA SavedFitStep ==
    ASSUME PType, NEW snap \in SUBSET Tasks, NEW known, Fits(snap, known), SavedFit(known),
           Save(snap) \/ Enqueue(snap) \/ Writer \/ WriterCrash \/ WriterPowerFail \/ Forgets
             \/ Untouched
    PROVE  SavedFit(known)'
<1> USE DEF PType, SavedFit
<1>0. Fits({}, known)
  BY FS_EmptySet, SchedulerAssumption DEF Fits
<1>1. CASE Save(snap) \/ Enqueue(snap)
  <2>0. PICK o \in {"save", "save_and_flush"}, w \in BOOLEAN :
           queue' = Append(queue, [op |-> o, snapshot |-> snap, awaited |-> w])
    BY <1>1 DEF Save, Enqueue
  <2> DEFINE x == [op |-> o, snapshot |-> snap, awaited |-> w]
  <2>1. x \in Commands /\ queue' = Append(queue, x) /\ x.snapshot = snap
    BY <2>0 DEF Commands
  <2> HIDE DEF x
  <2>2. /\ Len(queue') = Len(queue) + 1
        /\ \A i \in 1..Len(queue) : queue'[i] = queue[i]
        /\ queue'[Len(queue) + 1] = x
    BY <2>1, AppendAt
  <2>3. Len(queue) \in Nat
    BY LenProperties
  <2>4. \A i \in 1..Len(queue') : Fits(queue'[i].snapshot, known)
    BY <2>1, <2>2, <2>3
  <2> QED BY <1>1, <2>4 DEF Save, Enqueue
<1>2. CASE Writer
  <2>1. CASE SyncDirectory \/ SyncFails
    BY <2>1 DEF SyncDirectory, SyncFails
  <2>2. CASE Debounce \/ DebounceFails
    BY <1>0, <2>2 DEF Debounce, DebounceFails
  <2>3. CASE RecvSave \/ RecvSaveAndFlush \/ WriteFails
    <3>1. /\ Len(queue) \in Nat \ {0} /\ Len(queue') = Len(queue) - 1
          /\ \A i \in 1..Len(queue') : queue'[i] = queue[i + 1]
          /\ Head(queue) = queue[1]
      BY <2>3, TailAt DEF RecvSave, RecvSaveAndFlush, WriteFails
    <3>2. \A i \in 1..Len(queue') : Fits(queue'[i].snapshot, known)
      BY <3>1
    <3>3. Fits(Head(queue).snapshot, known)
      BY <3>1
    <3> QED BY <2>3, <3>2, <3>3 DEF RecvSave, RecvSaveAndFlush, WriteFails
  <2> QED BY <1>2, <2>1, <2>2, <2>3 DEF Writer
<1>3. CASE WriterCrash \/ WriterPowerFail
  <2>1. Len(queue') = 0
    BY <1>3, EmptySeq DEF WriterCrash, WriterPowerFail
  <2> QED BY <1>3, <2>1 DEF WriterCrash, WriterPowerFail
<1>4. CASE Forgets
  <2>1. /\ Len(queue') = Len(queue)
        /\ \A i \in 1..Len(queue) : queue'[i].snapshot = queue[i].snapshot
    BY <1>4, UnawaitedQueue DEF Forgets, Unawait
  <2>2. \A c \in writing' : \E e \in writing : c.snapshot = e.snapshot
    <3>1. writing' = {[c EXCEPT !.awaited = FALSE] : c \in writing}
      BY <1>4 DEF Forgets, Unawait
    <3>2. \A e \in writing : [e EXCEPT !.awaited = FALSE].snapshot = e.snapshot
      BY DEF Commands
    <3> QED BY <3>1, <3>2
  <2> QED BY <1>4, <2>1, <2>2 DEF Forgets
<1>5. CASE Untouched
  BY <1>5 DEF Untouched
<1> QED BY <1>1, <1>2, <1>3, <1>4, <1>5

LEMMA ShapeStep ==
    ASSUME PType, NEW snap \in SUBSET Tasks, WriterShape,
           Save(snap) \/ Enqueue(snap) \/ Writer \/ WriterCrash \/ WriterPowerFail \/ Forgets
             \/ Untouched
    PROVE  WriterShape'
<1> USE DEF WriterShape, AtMostOne
<1>1. CASE Save(snap) \/ Enqueue(snap)
  BY <1>1 DEF Save, Enqueue
<1>2. CASE Writer
  BY <1>2 DEF Writer, RecvSave, RecvSaveAndFlush, WriteFails, SyncDirectory, SyncFails, Debounce,
              DebounceFails, Answer
<1>3. CASE WriterCrash \/ WriterPowerFail
  BY <1>3 DEF WriterCrash, WriterPowerFail
<1>4. CASE Forgets
  <2>1. /\ writing' = {[c EXCEPT !.awaited = FALSE] : c \in writing}
        /\ reply' = "none" /\ held' = held
    BY <1>4 DEF Forgets, Unawait
  <2>2. \A e \in writing : [e EXCEPT !.awaited = FALSE].op = "save_and_flush"
    BY DEF PType, Commands
  <2> QED BY <2>1, <2>2
<1>5. CASE Untouched
  BY <1>5 DEF Untouched
<1> QED BY <1>1, <1>2, <1>3, <1>4, <1>5

\* A save makes the queue longer only while it is short, a durable save only
\* when no other is awaited.
LEMMA BacklogStep ==
    ASSUME PType, Backlog, PType',
           \/ queue' = queue /\ (pc' = "stopped" \/ pc # "stopped")
              /\ (failures' = failures \/ FailOnce)
           \/ Writer /\ pc' = pc
           \/ \E snap \in SUBSET Tasks :
                \/ Save(snap) /\ pc' = pc
                \/ Enqueue(snap) /\ Quiet /\ pc # "stopped" /\ pc' # "stopped"
           \/ Forgets /\ (FailOnce \/ (pc' = "stopped" /\ failures' = failures))
           \/ queue' = <<>> /\ failures' = failures
    PROVE  Backlog'
<1> USE PersistenceAssumption
<1>1. Len(queue) \in Nat /\ Len(queue') \in Nat /\ failures \in 0..MaxFailures
  BY LenProperties DEF PType, Backlog
<1>2. FailOnce => failures' = failures + 1 /\ failures' \in 0..MaxFailures
  BY <1>1 DEF FailOnce, CanFail
<1>3. CASE queue' = queue /\ (pc' = "stopped" \/ pc # "stopped") /\ (failures' = failures \/ FailOnce)
  BY <1>1, <1>2, <1>3 DEF Backlog
<1>4. CASE Writer /\ pc' = pc
  <2>1. failures' = failures \/ FailOnce
    BY <1>4 DEF Writer, RecvSave, RecvSaveAndFlush, WriteFails, SyncDirectory, SyncFails, Debounce,
                DebounceFails
  <2>2. CASE queue' = queue
    BY <1>1, <1>2, <1>4, <2>1, <2>2 DEF Backlog
  <2>3. CASE queue # <<>> /\ queue' = Tail(queue)
    <3>1. Len(queue') = Len(queue) - 1
      BY <2>3, TailAt DEF PType
    <3> QED BY <1>1, <1>2, <2>1, <3>1 DEF Backlog
  <2> QED BY <1>4, <2>2, <2>3 DEF Writer, RecvSave, RecvSaveAndFlush, WriteFails, SyncDirectory,
               SyncFails, Debounce, DebounceFails
<1>5. ASSUME NEW snap \in SUBSET Tasks, Save(snap) PROVE Backlog'
  <2> DEFINE x == [op |-> "save", snapshot |-> snap, awaited |-> FALSE]
  <2>1. x \in Commands /\ queue' = Append(queue, x) /\ Len(queue) < MaxQueue /\ failures' = failures
    BY <1>5 DEF Save, Commands
  <2>2. Len(queue') = Len(queue) + 1
    BY <2>1, AppendAt DEF PType
  <2> QED BY <1>1, <2>1, <2>2 DEF Backlog
<1>6. ASSUME NEW snap \in SUBSET Tasks, Enqueue(snap), Quiet, pc # "stopped" PROVE Backlog'
  <2> DEFINE x == [op |-> "save_and_flush", snapshot |-> snap, awaited |-> TRUE]
  <2>1. x \in Commands /\ queue' = Append(queue, x) /\ failures' = failures /\ x.awaited
    BY <1>6 DEF Enqueue, Commands
  <2> HIDE DEF x
  <2>2. Len(queue') = Len(queue) + 1 /\ queue'[Len(queue) + 1] = x
    BY <2>1, AppendAt DEF PType
  <2>3. Len(queue) <= MaxQueue + failures
    BY <1>6 DEF Backlog, Quiet
  <2>4. Len(queue) + 1 \in 1..Len(queue') /\ queue'[Len(queue) + 1].awaited
    BY <1>1, <2>1, <2>2
  <2> QED BY <1>1, <2>1, <2>2, <2>3, <2>4 DEF Backlog
<1>7. CASE Forgets /\ (FailOnce \/ (pc' = "stopped" /\ failures' = failures))
  <2>1. Len(queue') = Len(queue)
    BY <1>7, UnawaitedQueue DEF Forgets, Unawait, PType
  <2> QED BY <1>1, <1>2, <1>7, <2>1 DEF Backlog
<1>8. CASE queue' = <<>> /\ failures' = failures
  <2>1. Len(queue') = 0
    BY <1>8, EmptySeq
  <2> QED BY <1>1, <1>8, <2>1 DEF Backlog
<1> QED BY <1>3, <1>4, <1>5, <1>6, <1>7, <1>8

\* The versions reserved and committed stay within the bounds.
LEMMA ReservationFits ==
    ASSUME Numbers, NEW n \in Nat \ {0}, n <= MaxRevision, DrawGeneration(n)
    PROVE  /\ generations' \in 1..MaxGeneration
           /\ Reservation(n) \in [source : Versions, gen : 1..MaxGeneration, next : 1..MaxRevision]
           /\ Reservation(n).next + n - 1 <= MaxRevision
<1> USE SchedulerAssumption
<1>1. clock \in Versions /\ clock.rev \in 0..MaxRevision /\ clock.gen \in 1..MaxGeneration
      /\ generations \in 1..MaxGeneration
  BY DEF Numbers, Versions
<1>2. CASE RollsOver(n)
  <2>1. generations < MaxGeneration /\ generations' = generations + 1
    BY <1>2 DEF DrawGeneration
  <2>2. Reservation(n) = [source |-> clock, gen |-> generations + 1, next |-> 1]
    BY <1>2 DEF Reservation
  <2> QED BY <1>1, <2>1, <2>2
<1>3. CASE ~RollsOver(n)
  <2>1. generations' = generations
    BY <1>3 DEF DrawGeneration
  <2>2. Reservation(n) = [source |-> clock, gen |-> clock.gen, next |-> clock.rev + 1]
    BY <1>3 DEF Reservation
  <2>3. clock.rev + n <= MaxRevision
    BY <1>1, <1>3 DEF RollsOver
  <2> QED BY <1>1, <2>1, <2>2, <2>3
<1> QED BY <1>2, <1>3

LEMMA CommitFits ==
    ASSUME Numbers, NEW r \in [source : Versions, gen : 1..MaxGeneration, next : 1..MaxRevision],
           NEW n \in Nat \ {0}, r.next + n - 1 <= MaxRevision, Commit(r, n)
    PROVE  clock' \in Versions /\ used' \subseteq Versions
<1> USE SchedulerAssumption
<1>1. /\ clock' = [gen |-> r.gen, rev |-> r.next + n - 1]
      /\ used' = used \cup {[gen |-> r.gen, rev |-> r.next + i] : i \in 0..(n - 1)}
      /\ r.gen \in 1..MaxGeneration /\ r.next \in 1..MaxRevision
  BY DEF Commit
<1>2. \A i \in 0..(n - 1) : r.next + i \in 0..MaxRevision
  BY <1>1
<1>3. r.next + n - 1 \in 0..MaxRevision
  BY <1>1
<1> QED BY <1>1, <1>2, <1>3 DEF Numbers, Versions

LEMMA TransitionFits ==
    ASSUME Numbers, NEW n \in Nat \ {0}, n <= MaxRevision, Transition(n)
    PROVE  clock' \in Versions /\ used' \subseteq Versions /\ generations' \in 1..MaxGeneration
<1>1. PICK r : r = Reservation(n)
  OBVIOUS
<1>2. DrawGeneration(n) /\ Commit(r, n)
  BY <1>1 DEF Transition
<1>3. /\ r \in [source : Versions, gen : 1..MaxGeneration, next : 1..MaxRevision]
      /\ r.next + n - 1 <= MaxRevision /\ generations' \in 1..MaxGeneration
  BY <1>1, <1>2, ReservationFits
<1> QED BY <1>2, <1>3, CommitFits

\* A step that leaves the writer's commands alone.
LEMMA SavesKept ==
    ASSUME IInv, IInv', SInv, Untouched, created \subseteq created',
           failures' = failures \/ FailOnce, pc' = "stopped" \/ pc # "stopped"
    PROVE  WriterShape' /\ SavedFit(created)' /\ Backlog'
<1>1. PType /\ PType'
  BY DEF IInv, WInv
<1>2. WriterShape' /\ SavedFit(created)'
  BY DEF Untouched, SInv, WriterShape, SavedFit, Fits
<1>3. queue' = queue
  BY DEF Untouched
<1>4. Backlog'
  BY <1>1, <1>3, BacklogStep DEF SInv
<1> QED BY <1>2, <1>4

LEMMA CommandFits ==
    ASSUME IInv, IInv', SInv, NEW t \in Tasks,
           Create(t) \/ Update(t) \/ Fire(t) \/ FireSkipped(t) \/ ExpirePlain(t)
             \/ ExpireBlocked(t)
    PROVE  SInv'
<1>1. /\ Untouched /\ UNCHANGED <<failures, inbox, log, ack, open, pending, expiring, pc>>
      /\ pending = {} /\ expiring = {} /\ pc = "idle"
      /\ blocked' = blocked \/ blocked' = blocked \cup {t}
  BY DEF Create, Update, Fire, FireSkipped, ExpirePlain, ExpireBlocked, Fires, Accepting,
         persistence, bridge, Untouched, IInv, Control
<1>2. created \subseteq created'
  BY DEF Create, Update, Fire, FireSkipped, ExpirePlain, ExpireBlocked
<1>3. WriterShape' /\ SavedFit(created)' /\ Backlog'
  BY <1>1, <1>2, SavesKept
<1>4. Fits(tasks, created) /\ IsFiniteSet(tasks) /\ Cardinality(tasks) \in Nat
  BY <1>1, FitsLess DEF SInv, ActorShape, Expiring, IInv, AType
<1>5. Fits(tasks', created')
  <2>1. CASE Create(t)
    <3>1. tasks' = tasks \cup {t} /\ Cardinality(tasks) < MaxTasks /\ created' = created \cup {t}
      BY <2>1 DEF Create
    <3>2. Cardinality(tasks \cup {t}) <= Cardinality(tasks) + 1
      BY <1>4, FS_AddElement
    <3>3. Cardinality(tasks \cup {t}) \in Nat
      BY <1>4, FS_AddElement, FS_CardinalityType
    <3> QED BY <1>4, <3>1, <3>2, <3>3, SchedulerAssumption DEF Fits
  <2>2. CASE tasks' \subseteq tasks
    <3>1. PICK T : T = tasks'
      OBVIOUS
    <3>2. Fits(T, created)
      BY <1>4, <2>2, <3>1, FitsLess DEF IInv, AType
    <3> QED BY <1>2, <3>1, <3>2 DEF Fits
  <2> QED BY <2>1, <2>2 DEF Update, Fire, FireSkipped, ExpirePlain, ExpireBlocked
<1>6. ActorShape'
  <2>1. Fits(tasks \cup Expiring, created)'
    BY <1>1, <1>5 DEF Expiring
  <2> QED BY <1>1, <2>1 DEF SInv, ActorShape, AtMostOne
<1>7. Numbers'
  <2>1. 1 <= MaxRevision /\ 2 <= MaxRevision
    BY SchedulerAssumption
  <2>2. Transition(1) \/ Transition(2) =>
          clock' \in Versions /\ used' \subseteq Versions /\ generations' \in 1..MaxGeneration
    BY <2>1, TransitionFits DEF SInv
  <2>3. DrawGeneration(1) => generations' \in 1..MaxGeneration
    BY <2>1, ReservationFits DEF SInv
  <2>4. UNCHANGED <<clock, used>> /\ (DrawGeneration(1) \/ generations' = generations) =>
          clock' \in Versions /\ used' \subseteq Versions /\ generations' \in 1..MaxGeneration
    BY <2>3 DEF SInv, Numbers
  <2>5. clock' \in Versions /\ used' \subseteq Versions /\ generations' \in 1..MaxGeneration
    BY <2>2, <2>4 DEF Create, Update, Fire, FireSkipped, ExpirePlain, ExpireBlocked
  <2> QED BY <1>1, <2>5 DEF Numbers
<1> QED BY <1>3, <1>6, <1>7 DEF SInv

LEMMA RemovalFits ==
    ASSUME IInv, IInv', SInv,
           \/ \E t \in Tasks : Delete(t)
           \/ DeleteAgain \/ Abandon \/ RemovalFails \/ CommitRemoval
    PROVE  SInv'
<1>1. /\ Untouched /\ UNCHANGED <<failures, created, ack, open, expiring, blocked>>
      /\ tasks' \subseteq tasks /\ pc # "stopped" /\ pc' \in {"idle", "removing"}
  BY DEF Delete, DeleteAgain, Abandon, RemovalFails, CommitRemoval, Accepting, persistence, bridge,
         Untouched
<1>2. WriterShape' /\ SavedFit(created)' /\ Backlog'
  BY <1>1, SavesKept
<1>3. Numbers' /\ AtMostOne(pending')
  <2>1. CASE \E t \in Tasks : Delete(t)
    <3>1. PICK t \in Tasks : Delete(t)
      BY <2>1
    <3>2. PICK r : r = Reservation(1)
      OBVIOUS
    <3>3. DrawGeneration(1) /\ pending' = {[task |-> t, version |-> r]} /\ UNCHANGED <<clock, used>>
      BY <3>1, <3>2 DEF Delete
    <3>4. 1 <= MaxRevision
      BY SchedulerAssumption
    <3>5. /\ generations' \in 1..MaxGeneration
          /\ r \in [source : Versions, gen : 1..MaxGeneration, next : 1..MaxRevision]
      BY <3>2, <3>3, <3>4, ReservationFits DEF SInv
    <3>6. pending' \subseteq Removals /\ AtMostOne(pending')
      BY <3>3, <3>5 DEF Removals, AtMostOne
    <3> QED BY <1>1, <3>3, <3>5, <3>6 DEF SInv, Numbers
  <2>2. CASE CommitRemoval
    <3>1. PICK p \in pending : Commit(p.version, 1)
      BY <2>2 DEF CommitRemoval
    <3>2. PICK r : r = p.version
      OBVIOUS
    <3>3. /\ r \in [source : Versions, gen : 1..MaxGeneration, next : 1..MaxRevision]
          /\ r.next + 1 - 1 <= MaxRevision
      BY <3>2, SchedulerAssumption DEF SInv, Numbers, Removals
    <3>4. clock' \in Versions /\ used' \subseteq Versions
      BY <3>1, <3>2, <3>3, CommitFits DEF SInv
    <3>5. pending' = {} /\ generations' = generations /\ AtMostOne({})
      BY <2>2 DEF CommitRemoval, AtMostOne
    <3> QED BY <1>1, <3>4, <3>5 DEF SInv, Numbers
  <2>3. CASE DeleteAgain \/ Abandon \/ RemovalFails
    BY <1>1, <2>3 DEF DeleteAgain, Abandon, RemovalFails, SInv, Numbers, ActorShape, AtMostOne
  <2> QED BY <2>1, <2>2, <2>3
<1>4. ActorShape'
  <2>1. PICK T : T = (tasks \cup Expiring)'
    OBVIOUS
  <2>2. T \subseteq tasks \cup Expiring
    BY <1>1, <2>1 DEF Expiring
  <2>3. Fits(T, created)
    BY <2>2, FitsLess DEF SInv, ActorShape, IInv, AType
  <2> QED BY <1>1, <1>3, <2>1, <2>3 DEF SInv, ActorShape
<1> QED BY <1>2, <1>3, <1>4 DEF SInv

LEMMA ExpiryFits ==
    ASSUME IInv, IInv', SInv,
           \/ ExpiryRestored \/ CommitExpiry
           \/ ExpiryGivenUp /\ UNCHANGED <<persistence, bridge>> /\ pc # "stopped"
    PROVE  SInv'
<1>1. /\ Untouched /\ UNCHANGED <<failures, created, ack, open, pending>>
      /\ tasks' \subseteq tasks \cup Expiring /\ pc # "stopped" /\ pc' = "idle" /\ expiring' = {}
      /\ blocked' \subseteq blocked \cup Expiring
  BY DEF ExpiryRestored, CommitExpiry, ExpiryGivenUp, persistence, bridge, Untouched, Expiring
<1>2. WriterShape' /\ SavedFit(created)' /\ Backlog'
  BY <1>1, SavesKept
<1>3. Numbers'
  <2>1. CASE CommitExpiry
    <3>1. PICK p \in expiring : Commit(p.version, 1)
      BY <2>1 DEF CommitExpiry
    <3>2. PICK r : r = p.version
      OBVIOUS
    <3>3. /\ r \in [source : Versions, gen : 1..MaxGeneration, next : 1..MaxRevision]
          /\ r.next + 1 - 1 <= MaxRevision
      BY <3>2, SchedulerAssumption DEF SInv, Numbers, Removals
    <3>4. clock' \in Versions /\ used' \subseteq Versions
      BY <3>1, <3>2, <3>3, CommitFits DEF SInv
    <3>5. generations' = generations
      BY <2>1 DEF CommitExpiry
    <3> QED BY <1>1, <3>4, <3>5 DEF SInv, Numbers
  <2>2. CASE ExpiryRestored \/ ExpiryGivenUp
    BY <1>1, <2>2 DEF ExpiryRestored, ExpiryGivenUp, SInv, Numbers
  <2> QED BY <2>1, <2>2
<1>4. ActorShape'
  <2>1. PICK T : T = (tasks \cup Expiring)'
    OBVIOUS
  <2>2. T \subseteq tasks \cup Expiring
    BY <1>1, <2>1 DEF Expiring
  <2>3. Fits(T, created)
    BY <2>2, FitsLess DEF SInv, ActorShape, IInv, AType
  <2>4. blocked' \subseteq Tasks
    BY <1>1 DEF Expiring, SInv, ActorShape, IInv, AType, Reserved
  <2>5. AtMostOne({})
    BY DEF AtMostOne
  <2> QED BY <1>1, <2>1, <2>3, <2>4, <2>5 DEF SInv, ActorShape
<1> QED BY <1>2, <1>3, <1>4 DEF SInv

LEMMA BridgeFits ==
    ASSUME IInv, IInv', SInv,
           \/ Publish("persisting", "publishing", pending) \/ Publish("expiring", "expired", expiring)
           \/ AppendDurably \/ AppendFails \/ BridgeCloses
    PROVE  SInv'
<1>1. /\ Untouched
      /\ failures' = failures \/ FailOnce
      /\ UNCHANGED <<tasks, created, clock, generations, used, pending, expiring, blocked>>
      /\ ack' \in {"none", "ok", "err"} /\ open' \in BOOLEAN
      /\ pc' = "stopped" \/ pc # "stopped"
      /\ pc' = pc \/ pc' \in {"publishing", "expired"}
  BY DEF Publish, AppendDurably, AppendFails, BridgeCloses, BridgeAnswers, persistence, actor,
         Untouched, SInv, ActorShape
<1>2. WriterShape' /\ SavedFit(created)' /\ Backlog'
  BY <1>1, SavesKept
<1>3. ActorShape' /\ Numbers'
  BY <1>1 DEF SInv, ActorShape, Numbers, Expiring
<1> QED BY <1>2, <1>3 DEF SInv

LEMMA EnqueueFits ==
    ASSUME IInv, IInv', SInv, PersistRemoval \/ \E t \in Tasks : ExpireDurable(t)
    PROVE  SInv'
<1>1. PICK snap \in SUBSET Tasks : snap = tasks'
  BY DEF IInv, AType
<1>2. /\ Enqueue(snap) /\ UNCHANGED <<created, clock, used, blocked, ack, open, pending>>
      /\ pc \in {"removing", "idle"} /\ pc' \in {"persisting", "expiring"}
  BY <1>1 DEF PersistRemoval, ExpireDurable, Fires, Accepting, bridge
<1>3. PType /\ PType' /\ Quiet /\ expiring = {} /\ created \subseteq Tasks
  BY <1>2 DEF IInv, WInv, Control, AType
<1>4. Fits(tasks, created)
  BY <1>3, FitsLess DEF SInv, ActorShape
<1>5. Fits(snap, created) /\ Fits((tasks \cup Expiring)', created) /\ Numbers' /\ AtMostOne(expiring')
  <2>1. CASE PersistRemoval
    <3>1. UNCHANGED <<tasks, expiring, generations>>
      BY <2>1 DEF PersistRemoval
    <3> QED BY <1>1, <1>2, <1>3, <1>4, <3>1 DEF Expiring, SInv, Numbers, AtMostOne
  <2>2. CASE \E t \in Tasks : ExpireDurable(t)
    <3>1. PICK t \in Tasks : ExpireDurable(t)
      BY <2>2
    <3>2. PICK r : r = Reservation(1)
      OBVIOUS
    <3>3. /\ DrawGeneration(1) /\ expiring' = {[task |-> t, version |-> r]} /\ t \in tasks
          /\ tasks' = tasks \ {t}
      BY <3>1, <3>2 DEF ExpireDurable, Fires
    <3>4. 1 <= MaxRevision
      BY SchedulerAssumption
    <3>5. /\ generations' \in 1..MaxGeneration
          /\ r \in [source : Versions, gen : 1..MaxGeneration, next : 1..MaxRevision]
      BY <3>2, <3>3, <3>4, ReservationFits DEF SInv
    <3>6. expiring' \subseteq Removals /\ AtMostOne(expiring')
      BY <3>3, <3>5 DEF Removals, AtMostOne
    <3>7. (tasks \cup Expiring)' = tasks /\ snap \subseteq tasks
      BY <1>1, <3>3 DEF Expiring
    <3>8. Fits(snap, created)
      BY <1>3, <1>4, <3>7, FitsLess
    <3> QED BY <1>2, <1>4, <3>5, <3>6, <3>7, <3>8 DEF SInv, Numbers
  <2> QED BY <2>1, <2>2
<1>6. WriterShape'
  BY <1>2, <1>3, ShapeStep DEF SInv
<1>7. SavedFit(created)'
  <2>1. PICK known : known = created
    OBVIOUS
  <2>2. SavedFit(known) /\ Fits(snap, known)
    BY <1>5, <2>1 DEF SInv
  <2>3. SavedFit(known)'
    BY <1>2, <1>3, <2>2, SavedFitStep
  <2> QED BY <1>2, <2>1, <2>3 DEF SavedFit
<1>8. Backlog'
  BY <1>2, <1>3, BacklogStep DEF SInv
<1>9. ActorShape'
  BY <1>2, <1>5 DEF SInv, ActorShape
<1> QED BY <1>5, <1>6, <1>7, <1>8, <1>9 DEF SInv

LEMMA SaverFits ==
    ASSUME IInv, IInv', SInv, (Writer /\ UNCHANGED <<actor, bridge>>) \/ ToolSave
    PROVE  SInv'
<1>1. PICK snap \in SUBSET Tasks : snap = tasks
  BY DEF IInv, AType
<1>2. /\ UNCHANGED <<tasks, created, clock, generations, used, pending, expiring, blocked, pc, ack, open>>
      /\ Writer \/ Save(snap)
  BY <1>1 DEF ToolSave, actor, bridge
<1>3. PType /\ PType' /\ created \subseteq Tasks
  BY DEF IInv, WInv, AType
<1>4. WriterShape'
  BY <1>2, <1>3, ShapeStep DEF SInv
<1>5. SavedFit(created)'
  <2>1. PICK known : known = created
    OBVIOUS
  <2>2. SavedFit(known) /\ Fits(snap, known)
    BY <1>1, <1>3, <2>1, FitsLess DEF SInv, ActorShape
  <2>3. SavedFit(known)'
    BY <1>2, <1>3, <2>2, SavedFitStep
  <2> QED BY <1>2, <2>1, <2>3 DEF SavedFit
<1>6. Backlog'
  BY <1>2, <1>3, BacklogStep DEF SInv
<1>7. ActorShape' /\ Numbers'
  BY <1>2 DEF SInv, ActorShape, Numbers, Expiring
<1> QED BY <1>4, <1>5, <1>6, <1>7 DEF SInv

LEMMA ForgetFits ==
    ASSUME IInv, IInv', SInv,
           RemovalTimeout \/ Cancel \/ (ExpiryGivenUp /\ StopWaiting("expiring", "expired"))
    PROVE  SInv'
<1>1. /\ Forgets /\ UNCHANGED <<tasks, created, blocked, open>>
      /\ FailOnce \/ (pc' = "stopped" /\ failures' = failures)
      /\ pc' \in {"idle", "stopped"} /\ expiring' = {} /\ ack' = "none"
      /\ pending' = {} \/ pending' = pending
  BY DEF RemovalTimeout, Cancel, ExpiryGivenUp, StopWaiting, Forgets, IInv, Control
<1>2. PType /\ PType' /\ created \subseteq Tasks
  BY DEF IInv, WInv, AType
<1>3. PICK snap \in SUBSET Tasks : snap = tasks
  BY DEF IInv, AType
<1>4. WriterShape'
  BY <1>1, <1>2, ShapeStep DEF SInv
<1>5. SavedFit(created)'
  <2>1. PICK known : known = created
    OBVIOUS
  <2>2. SavedFit(known) /\ Fits(snap, known)
    BY <1>2, <1>3, <2>1, FitsLess DEF SInv, ActorShape
  <2>3. SavedFit(known)'
    BY <1>1, <1>2, <2>2, SavedFitStep
  <2> QED BY <1>1, <2>1, <2>3 DEF SavedFit
<1>6. Backlog'
  BY <1>1, <1>2, BacklogStep DEF SInv
<1>7. Fits(tasks, created) /\ IsFiniteSet(tasks) /\ Cardinality(tasks) \in Nat
  BY <1>2, FitsLess DEF SInv, ActorShape
<1>8. clock' \in Versions /\ used' \subseteq Versions /\ generations' \in 1..MaxGeneration
  <2>1. CASE Cancel /\ tasks # {}
    <3>1. PICK n : n = Cardinality(tasks)
      OBVIOUS
    <3>2. n \in Nat \ {0} /\ n <= MaxRevision
      BY <1>7, <2>1, <3>1, SchedulerAssumption, FS_EmptySet DEF Fits
    <3>3. Transition(n)
      BY <2>1, <3>1 DEF Cancel
    <3> QED BY <3>2, <3>3, TransitionFits DEF SInv
  <2>2. CASE ~(Cancel /\ tasks # {})
    BY <2>2 DEF RemovalTimeout, Cancel, ExpiryGivenUp, SInv, Numbers
  <2> QED BY <2>1, <2>2
<1>9. Numbers'
  BY <1>1, <1>8 DEF SInv, Numbers
<1>10. ActorShape'
  <2>1. Fits((tasks \cup Expiring)', created')
    BY <1>1, <1>7 DEF Expiring
  <2>2. AtMostOne(pending') /\ AtMostOne(expiring')
    BY <1>1 DEF SInv, ActorShape, AtMostOne
  <2> QED BY <1>1, <2>1, <2>2 DEF SInv, ActorShape
<1> QED BY <1>4, <1>5, <1>6, <1>9, <1>10 DEF SInv

LEMMA RestartFits ==
    ASSUME IInv, IInv', SInv, Reopen \/ Crash \/ PowerFail
    PROVE  SInv'
<1>1. /\ WriterCrash \/ WriterPowerFail \/ Untouched
      /\ tasks' \in mayDisk /\ queue' = <<>> /\ failures' = failures
      /\ generations < MaxGeneration
      /\ generations' = generations + 1 /\ clock' = [gen |-> generations + 1, rev |-> 0]
      /\ pending' = {} /\ expiring' = {} /\ blocked' = {} /\ pc' = "idle"
      /\ ack' = "none" /\ open' = TRUE
      /\ UNCHANGED <<created, used, log>>
  BY DEF Reopen, Crash, PowerFail, Start, WriterCrash, WriterPowerFail, Untouched, persistence,
         IInv, WInv, PType
<1>2. PType /\ PType' /\ created \subseteq Tasks
  BY DEF IInv, WInv, AType
<1>3. PICK snap \in SUBSET Tasks : snap = tasks'
  BY DEF IInv, AType
<1>4. Fits(snap, created)
  BY <1>1, <1>3 DEF SInv, SavedFit
<1>5. WriterShape'
  BY <1>1, <1>2, ShapeStep DEF SInv
<1>6. SavedFit(created)'
  <2>1. PICK known : known = created
    OBVIOUS
  <2>2. SavedFit(known) /\ Fits(snap, known)
    BY <1>4, <2>1 DEF SInv
  <2>3. SavedFit(known)'
    BY <1>1, <1>2, <2>2, SavedFitStep
  <2> QED BY <1>1, <2>1, <2>3 DEF SavedFit
<1>7. Backlog'
  BY <1>1, <1>2, BacklogStep DEF SInv
<1>8. Numbers'
  BY <1>1, SchedulerAssumption DEF SInv, Numbers, Versions
<1>9. ActorShape'
  <2>1. Fits((tasks \cup Expiring)', created')
    BY <1>1, <1>3, <1>4 DEF Expiring
  <2>2. AtMostOne({})
    BY DEF AtMostOne
  <2> QED BY <1>1, <2>1, <2>2 DEF ActorShape
<1> QED BY <1>5, <1>6, <1>7, <1>8, <1>9 DEF SInv

LEMMA InitSInv == Init => SInv
<1> SUFFICES ASSUME Init PROVE SInv
  OBVIOUS
<1> USE PersistenceAssumption, SchedulerAssumption DEF Init, PersistenceInit
<1>1. queue = <<>> /\ Len(queue) = 0
  BY EmptySeq
<1>2. Fits(Initial, Initial)
  BY DEF Fits
<1>3. WriterShape /\ SavedFit(created) /\ Backlog
  BY <1>1, <1>2 DEF WriterShape, SavedFit, Backlog, AtMostOne
<1>4. tasks \cup Expiring = Initial
  BY DEF Expiring
<1>5. ActorShape
  BY <1>2, <1>4 DEF ActorShape, AtMostOne
<1>6. Numbers
  BY DEF Numbers, Versions
<1> QED BY <1>3, <1>5, <1>6 DEF SInv

LEMMA NextSInv ==
    ASSUME IInv, IInv', SInv, [Next]_vars
    PROVE  SInv'
<1>1. ASSUME NEW t \in Tasks,
             Create(t) \/ Update(t) \/ Fire(t) \/ FireSkipped(t) \/ ExpirePlain(t)
               \/ ExpireBlocked(t)
      PROVE  SInv'
  BY <1>1, CommandFits
<1>2. CASE (\E t \in Tasks : Delete(t)) \/ DeleteAgain \/ Abandon \/ RemovalFails \/ CommitRemoval
  BY <1>2, RemovalFits
<1>3. CASE PersistRemoval \/ \E t \in Tasks : ExpireDurable(t)
  BY <1>3, EnqueueFits
<1>4. CASE \/ Publish("persisting", "publishing", pending) \/ Publish("expiring", "expired", expiring)
           \/ AppendDurably \/ AppendFails \/ BridgeCloses
  BY <1>4, BridgeFits
<1>5. CASE ExpiryRestored \/ CommitExpiry
  BY <1>5, ExpiryFits
<1>6. CASE ExpiryGivenUp
  <2>1. CASE StopWaiting("expiring", "expired")
    BY <1>6, <2>1, ForgetFits
  <2>2. CASE UNCHANGED <<persistence, bridge>> /\ pc # "stopped"
    BY <1>6, <2>2, ExpiryFits
  <2> QED BY <1>6, <2>1, <2>2 DEF ExpiryGivenUp
<1>7. CASE RemovalTimeout \/ Cancel
  BY <1>7, ForgetFits
<1>8. CASE (Writer /\ UNCHANGED <<actor, bridge>>) \/ ToolSave
  BY <1>8, SaverFits
<1>9. CASE Reopen \/ Crash \/ PowerFail
  BY <1>9, RestartFits
<1>10. CASE UNCHANGED vars
  <2>1. /\ UNCHANGED <<queue, held, writing, mayDisk, reply, failures>>
        /\ UNCHANGED <<tasks, created, clock, generations, used, pending, expiring, blocked, pc, ack, open>>
    BY <1>10 DEF vars, persistence, actor, bridge
  <2>2. WriterShape' /\ SavedFit(created)' /\ Backlog'
    BY <2>1 DEF SInv, WriterShape, SavedFit, Backlog
  <2> QED BY <2>1, <2>2 DEF SInv, ActorShape, Numbers, Expiring
<1> QED BY <1>1, <1>2, <1>3, <1>4, <1>5, <1>6, <1>7, <1>8, <1>9, <1>10 DEF Next, Actor

(* Every variable keeps its type: no more tasks are scheduled or saved     *)
(* than MAX_SCHEDULED_TASKS, also when an expiry is put back or a file is  *)
(* loaded; revisions and generations stay within their bounds; and the     *)
(* writer's queue exceeds MaxQueue by the given-up durable saves only.     *)
THEOREM TypeCorrect == Spec => []TypeOK
<1>1. Init => IInv /\ SInv
  BY InitIInv, InitSInv
<1>2. IInv /\ SInv /\ [Next]_vars => (IInv /\ SInv)'
  BY NextIInv, NextSInv
<1>3. IInv /\ SInv => TypeOK
  <2> SUFFICES ASSUME IInv, SInv PROVE TypeOK
    OBVIOUS
  <2>1. PersistenceTypeOK
    <3>1. Cardinality(held) <= 1 /\ Cardinality(writing) <= 1
      BY SingleCount DEF SInv, WriterShape
    <3>2. /\ queue \in Seq([op : {"save", "save_and_flush"}, snapshot : SUBSET Tasks, awaited : BOOLEAN])
          /\ held \subseteq SUBSET Tasks /\ disk \in mayDisk /\ mayDisk \subseteq SUBSET Tasks
      BY DEF IInv, WInv, PType, Commands
    <3>3. writing \subseteq [op : {"save_and_flush"}, snapshot : SUBSET Tasks, awaited : BOOLEAN]
      BY DEF IInv, WInv, PType, Commands, SInv, WriterShape
    <3>4. Len(queue) <= MaxQueue + MaxFailures + 1 /\ failures \in 0..MaxFailures
      <4>1. Len(queue) \in Nat
        BY <3>2, LenProperties
      <4> QED BY <4>1, PersistenceAssumption DEF SInv, Backlog
    <3> QED BY <3>1, <3>2, <3>3, <3>4 DEF PersistenceTypeOK, SInv, WriterShape
  <2>2. Cardinality(pending) <= 1 /\ Cardinality(expiring) <= 1
    BY SingleCount DEF SInv, ActorShape
  <2>3. tasks \subseteq created /\ Cardinality(tasks) <= MaxTasks
    <3>1. Fits(tasks, created)
      BY FitsLess DEF SInv, ActorShape, IInv, AType
    <3> QED BY <3>1 DEF Fits
  <2> QED BY <2>1, <2>2, <2>3 DEF TypeOK, SInv, ActorShape, Numbers, IInv, AType, Tombstones
<1> QED BY <1>1, <1>2, <1>3, PTL DEF Spec
=============================================================================
