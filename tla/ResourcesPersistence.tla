------------------------ MODULE ResourcesPersistence ------------------------
(***************************************************************************)
(* The background writer of a session's resources (persistence.rs): a FIFO *)
(* of commands, a debounced write for ordinary saves and a durable write   *)
(* with an acknowledgement for saves that must not be lost.  A snapshot is *)
(* the set of scheduled tasks it holds.                                    *)
(***************************************************************************)
EXTENDS Naturals, FiniteSets, Sequences

CONSTANTS
    Tasks,       \* task ids
    Initial,     \* the tasks on disk when the session is opened
    MaxQueue,    \* bound: ordinary saves wait for the writer up to this length
    MaxFailures  \* bound: writes and appends that fail, answers that are late

ASSUME PersistenceAssumption ==
    /\ IsFiniteSet(Tasks)
    /\ Initial \subseteq Tasks
    /\ MaxQueue \in Nat \ {0}
    /\ MaxFailures \in Nat

VARIABLES
    queue,     \* commands sent to the writer
    held,      \* at most one snapshot: the save that waits for the debounce
    writing,   \* the durable command whose rename is done, at most one
    disk,      \* the state file as the kernel sees it
    mayDisk,   \* the files a power failure may leave
    reply,     \* the acknowledgement the scheduler's receiver holds
    failures   \* failures so far

persistence == <<queue, held, writing, disk, mayDisk, reply, failures>>

PersistenceInit ==
    /\ queue = <<>>
    /\ held = {} /\ writing = {}
    /\ disk = Initial /\ mayDisk = {Initial}
    /\ reply = "none"
    /\ failures = 0

CanFail == failures < MaxFailures
FailOnce == CanFail /\ failures' = failures + 1

\* save: fire and forget
Save(snapshot) ==
    /\ Len(queue) < MaxQueue
    /\ queue' = Append(queue, [op |-> "save", snapshot |-> snapshot, awaited |-> FALSE])
    /\ UNCHANGED <<held, writing, disk, mayDisk, reply, failures>>

\* enqueue_save_and_flush: the receiver of the acknowledgement is fresh
Enqueue(snapshot) ==
    /\ queue' = Append(queue, [op |-> "save_and_flush", snapshot |-> snapshot, awaited |-> TRUE])
    /\ reply' = "none"
    /\ UNCHANGED <<held, writing, disk, mayDisk, failures>>

\* The scheduler stops waiting; a late acknowledgement finds no receiver.
Unawait ==
    /\ queue' = [i \in DOMAIN queue |-> [queue[i] EXCEPT !.awaited = FALSE]]
    /\ writing' = {[c EXCEPT !.awaited = FALSE] : c \in writing}
    /\ reply' = "none"

Answer(command, result) == reply' = IF command.awaited THEN result ELSE reply

-----------------------------------------------------------------------------
(* writer_loop                                                             *)

\* Mutant: saves pile up instead of replacing the one that waits.
RecvSaveKeepsAll ==
    /\ writing = {}
    /\ queue # <<>> /\ Head(queue).op = "save"
    /\ held' = held \cup {Head(queue).snapshot}
    /\ queue' = Tail(queue)
    /\ UNCHANGED <<writing, disk, mayDisk, reply, failures>>

RecvSave ==
    /\ writing = {}
    /\ queue # <<>> /\ Head(queue).op = "save"
    /\ held' = {Head(queue).snapshot}
    /\ queue' = Tail(queue)
    /\ UNCHANGED <<writing, disk, mayDisk, reply, failures>>

\* Mutant: the held save survives a durable write and follows it.
RecvKeepsHeld ==
    /\ writing = {}
    /\ queue # <<>> /\ Head(queue).op = "save_and_flush"
    /\ queue' = Tail(queue)
    /\ writing' = {Head(queue)}
    /\ disk' = Head(queue).snapshot
    /\ mayDisk' = mayDisk \cup {disk'}
    /\ UNCHANGED <<held, reply, failures>>

\* write_json_durable as far as the rename, which replaces a held save
RecvSaveAndFlush ==
    /\ writing = {}
    /\ queue # <<>> /\ Head(queue).op = "save_and_flush"
    /\ held' = {}
    /\ queue' = Tail(queue)
    /\ writing' = {Head(queue)}
    /\ disk' = Head(queue).snapshot
    /\ mayDisk' = mayDisk \cup {disk'}
    /\ UNCHANGED <<reply, failures>>

\* The temporary file or the rename fails: nothing changed on disk.
WriteFails ==
    /\ writing = {}
    /\ queue # <<>> /\ Head(queue).op = "save_and_flush"
    /\ FailOnce
    /\ held' = {}
    /\ queue' = Tail(queue)
    /\ Answer(Head(queue), "err")
    /\ UNCHANGED <<writing, disk, mayDisk>>

\* publish_durable's fsync of the directory
SyncDirectory ==
    \E c \in writing :
        /\ writing' = {}
        /\ mayDisk' = {disk}
        /\ Answer(c, "ok")
        /\ UNCHANGED <<queue, held, disk, failures>>

\* The fsync fails after the rename: an error, though the file has changed.
SyncFails ==
    \E c \in writing :
        /\ writing' = {}
        /\ FailOnce
        /\ Answer(c, "err")
        /\ UNCHANGED <<queue, held, disk, mayDisk>>

\* The debounce tick (or Flush): write_json does not sync, so a power failure
\* may leave an older file or a torn one, which loads as no state at all.
Debounce ==
    /\ writing = {}
    /\ \E snapshot \in held :
        /\ disk' = snapshot
        /\ mayDisk' = mayDisk \cup {snapshot, {}}
    /\ held' = {}
    /\ UNCHANGED <<queue, writing, reply, failures>>

\* take() has emptied the slot: a failed save is dropped.
DebounceFails ==
    /\ writing = {}
    /\ held # {}
    /\ FailOnce
    /\ held' = {}
    /\ UNCHANGED <<queue, writing, disk, mayDisk, reply>>

Writer ==
    \/ RecvSave \/ RecvSaveAndFlush \/ WriteFails
    \/ SyncDirectory \/ SyncFails
    \/ Debounce \/ DebounceFails

\* The process dies: commands and held saves go, the kernel's file stays.
WriterCrash ==
    /\ queue' = <<>> /\ held' = {} /\ writing' = {} /\ reply' = "none"
    /\ UNCHANGED <<disk, mayDisk, failures>>

WriterPowerFail ==
    /\ queue' = <<>> /\ held' = {} /\ writing' = {} /\ reply' = "none"
    /\ \E file \in mayDisk : disk' = file /\ mayDisk' = {file}
    /\ UNCHANGED failures

PersistenceTypeOK ==
    /\ queue \in Seq([op : {"save", "save_and_flush"}, snapshot : SUBSET Tasks, awaited : BOOLEAN])
    /\ Len(queue) <= MaxQueue + MaxFailures + 1
    /\ held \subseteq SUBSET Tasks /\ Cardinality(held) <= 1
    /\ writing \subseteq [op : {"save_and_flush"}, snapshot : SUBSET Tasks, awaited : BOOLEAN]
    /\ Cardinality(writing) <= 1
    /\ disk \in mayDisk /\ mayDisk \subseteq SUBSET Tasks
    /\ reply \in {"none", "ok", "err"}
    /\ failures \in 0..MaxFailures
=============================================================================
