----------------------------- MODULE Scheduler ------------------------------
(***************************************************************************)
(* The scheduler actor (scheduler/actor.rs) with the resources writer and  *)
(* the bridge that appends its tombstones to the session's update log.     *)
(* Removing a task is a protocol: the state without the task is made       *)
(* durable, then the tombstone is published and acknowledged, then the     *)
(* version reserved for it is committed.  Time is abstract: a task may be  *)
(* due, and a recurring one expired, at any moment.                        *)
(***************************************************************************)
EXTENDS ResourcesPersistence

CONSTANTS
    Durable,      \* tasks created with durable = true
    OneShot,      \* tasks with recurring = false (state of older versions)
    MaxTasks,     \* MAX_SCHEDULED_TASKS
    MaxRevision,  \* the largest revision, u64::MAX in the code
    MaxGeneration \* bound: clocks started and rolled over

ASSUME SchedulerAssumption ==
    /\ Durable \subseteq Tasks /\ OneShot \subseteq Tasks
    /\ MaxTasks \in Nat /\ Cardinality(Initial) <= MaxTasks
    /\ MaxRevision \in Nat /\ MaxRevision >= MaxTasks /\ MaxRevision >= 2
    /\ MaxGeneration \in Nat \ {0}

VARIABLES
    tasks,     \* SchedulerState.tasks
    created,   \* ids handed out so far
    clock,     \* the version the actor committed last
    generations, \* generations drawn so far
    used,      \* history: versions committed
    pending,   \* pending_removal, at most one
    expiring,  \* the durable expiry in progress, at most one
    blocked,   \* blocked_expiries
    pc,        \* what the actor awaits
    inbox,     \* tombstones on their way to the bridge
    ack,       \* the acknowledgement the actor's receipt holds
    open,      \* whether the bridge still receives
    log        \* tasks whose acknowledged tombstone the update log holds

actor == <<tasks, created, clock, generations, used, pending, expiring, blocked, pc>>
bridge == <<inbox, ack, open, log>>
vars == <<persistence, actor, bridge>>

Init ==
    /\ PersistenceInit
    /\ tasks = Initial /\ created = Initial
    /\ clock = [gen |-> 1, rev |-> 0] /\ generations = 1 /\ used = {}
    /\ pending = {} /\ expiring = {} /\ blocked = {}
    /\ pc = "idle"
    /\ inbox = <<>> /\ ack = "none" /\ open = TRUE /\ log = {}

-----------------------------------------------------------------------------
(* Versions: SchedulerClock and SchedulerReservation.                      *)

RollsOver(count) == clock.rev + count > MaxRevision

\* prepare_transition: a new generation when the revisions do not suffice
Reservation(count) ==
    [source |-> clock,
     gen |-> IF RollsOver(count) THEN generations + 1 ELSE clock.gen,
     next |-> IF RollsOver(count) THEN 1 ELSE clock.rev + 1]

\* Mutant: the revision restarts without a new generation.
DrawNothing(count) == generations' = generations

DrawGeneration(count) ==
    /\ RollsOver(count) => generations < MaxGeneration
    /\ generations' = IF RollsOver(count) THEN generations + 1 ELSE generations

\* commit_next, count times
Commit(r, count) ==
    /\ clock' = [gen |-> r.gen, rev |-> r.next + count - 1]
    /\ used' = used \cup {[gen |-> r.gen, rev |-> r.next + i] : i \in 0..(count - 1)}

\* A transition that is prepared and committed without waiting in between.
Transition(count) ==
    /\ DrawGeneration(count)
    /\ Commit(Reservation(count), count)

-----------------------------------------------------------------------------
(* Commands.  They are refused while a removal is pending, except a Delete *)
(* of the same task, which tries again.                                    *)

Accepting == pc = "idle" /\ pending = {}

\* Mutant: a task is created beside a pending removal.
CreateAnyway(t) ==
    /\ pc = "idle"
    /\ t \notin created
    /\ Cardinality(tasks) < MaxTasks
    /\ tasks' = tasks \cup {t}
    /\ created' = created \cup {t}
    /\ Transition(1)
    /\ UNCHANGED <<persistence, bridge, pending, expiring, blocked, pc>>

Create(t) ==
    /\ Accepting
    /\ t \notin created
    /\ Cardinality(tasks) < MaxTasks
    /\ tasks' = tasks \cup {t}
    /\ created' = created \cup {t}
    /\ Transition(1)
    /\ UNCHANGED <<persistence, bridge, pending, expiring, blocked, pc>>

\* Prompt and interval are not modelled; the version is.
Update(t) ==
    /\ Accepting
    /\ t \in tasks
    /\ Transition(1)
    /\ UNCHANGED <<persistence, bridge, tasks, created, pending, expiring, blocked, pc>>

Delete(t) ==
    /\ Accepting
    /\ t \in tasks
    /\ open
    /\ tasks' = tasks \ {t}
    /\ DrawGeneration(1)
    /\ pending' = {[task |-> t, version |-> Reservation(1)]}
    /\ pc' = "removing"
    /\ UNCHANGED <<persistence, bridge, created, clock, used, expiring, blocked>>

DeleteAgain ==
    /\ pc = "idle"
    /\ pending # {}
    /\ pc' = "removing"
    /\ UNCHANGED <<persistence, bridge, tasks, created, clock, generations, used,
                   pending, expiring, blocked>>

-----------------------------------------------------------------------------
(* complete_pending_removal                                                *)

\* Mutant: the removal keeps waiting for a target that is gone.
AbandonNothing ==
    /\ pc = "removing"
    /\ ~open
    /\ pc' = "idle"
    /\ UNCHANGED <<persistence, bridge, tasks, created, clock, generations, used,
                   pending, expiring, blocked>>

\* No target is left to acknowledge: the removal is given up.
Abandon ==
    /\ pc = "removing"
    /\ ~open
    /\ pending' = {}
    /\ pc' = "idle"
    /\ UNCHANGED <<persistence, bridge, tasks, created, clock, generations, used,
                   expiring, blocked>>

PersistRemoval ==
    /\ pc = "removing"
    /\ open
    /\ Enqueue(tasks)
    /\ pc' = "persisting"
    /\ UNCHANGED <<bridge, tasks, created, clock, generations, used, pending,
                   expiring, blocked>>

\* The save is durable: the tombstone goes to the bridge.
Publish(label, next, removals) ==
    /\ pc = label
    /\ reply = "ok"
    /\ open
    /\ \E p \in removals : inbox' = Append(inbox, [task |-> p.task, awaited |-> TRUE])
    /\ ack' = "none"
    /\ pc' = next
    /\ UNCHANGED <<persistence, open, log, tasks, created, clock, generations, used,
                   pending, expiring, blocked>>

CommitRemoval ==
    /\ pc = "publishing"
    /\ ack = "ok"
    /\ \E p \in pending : Commit(p.version, 1)
    /\ pending' = {}
    /\ pc' = "idle"
    /\ UNCHANGED <<persistence, bridge, tasks, created, generations, expiring, blocked>>

\* An error: the removal stays pending.
RemovalFails ==
    /\ \/ pc = "persisting" /\ (reply = "err" \/ (reply = "ok" /\ ~open))
       \/ pc = "publishing" /\ ack = "err"
    /\ pc' = "idle"
    /\ UNCHANGED <<persistence, bridge, tasks, created, clock, generations, used,
                   pending, expiring, blocked>>

\* await_bounded: the 30 seconds are over and no answer has come yet.  The
\* actor stops waiting; the writer or the bridge may still do its work.
StopWaiting(saving, publishing) ==
    /\ \/ pc = saving /\ reply = "none"
       \/ pc = publishing /\ ack = "none"
    /\ Unawait
    /\ FailOnce
    /\ inbox' = [i \in DOMAIN inbox |-> [inbox[i] EXCEPT !.awaited = FALSE]]
    /\ ack' = "none"
    /\ UNCHANGED <<held, disk, mayDisk, open, log>>

RemovalTimeout ==
    /\ StopWaiting("persisting", "publishing")
    /\ pc' = "idle"
    /\ UNCHANGED <<tasks, created, clock, generations, used, pending, expiring, blocked>>

-----------------------------------------------------------------------------
(* fire_next_task                                                          *)

Fires(t) == Accepting /\ t \in tasks \ blocked

Fire(t) ==
    /\ Fires(t)
    /\ IF t \in OneShot
       THEN /\ tasks' = tasks \ {t}
            /\ Transition(2)
       ELSE /\ Transition(1)
            /\ UNCHANGED tasks
    /\ UNCHANGED <<persistence, bridge, created, pending, expiring, blocked, pc>>

\* LoopFireOutcome::Skipped: the previous iteration still runs, and the
\* reservation is dropped with the generation it may have drawn.
FireSkipped(t) ==
    /\ Fires(t)
    /\ t \notin OneShot
    /\ DrawGeneration(1)
    /\ UNCHANGED <<persistence, bridge, tasks, created, clock, used, pending,
                   expiring, blocked, pc>>

ExpirePlain(t) ==
    /\ Fires(t)
    /\ t \notin OneShot \cup Durable
    /\ tasks' = tasks \ {t}
    /\ Transition(1)
    /\ UNCHANGED <<persistence, bridge, created, pending, expiring, blocked, pc>>

ExpireBlocked(t) ==
    /\ Fires(t)
    /\ t \in Durable \ OneShot
    /\ ~open
    /\ blocked' = blocked \cup {t}
    /\ UNCHANGED <<persistence, bridge, tasks, created, clock, generations, used,
                   pending, expiring, pc>>

ExpireDurable(t) ==
    /\ Fires(t)
    /\ t \in Durable \ OneShot
    /\ open
    /\ DrawGeneration(1)
    /\ expiring' = {[task |-> t, version |-> Reservation(1)]}
    /\ tasks' = tasks \ {t}
    /\ Enqueue(tasks')
    /\ pc' = "expiring"
    /\ UNCHANGED <<bridge, created, clock, used, pending, blocked>>

\* NotCommitted: the task is put back and its expiry is not tried again.
ExpiryRestored ==
    /\ pc = "expiring"
    /\ reply = "err"
    /\ tasks' = tasks \cup {p.task : p \in expiring}
    /\ blocked' = blocked \cup {p.task : p \in expiring}
    /\ expiring' = {}
    /\ pc' = "idle"
    /\ UNCHANGED <<persistence, bridge, created, clock, generations, used, pending>>

\* Unknown outcome or no acknowledgement: the version is not committed.
ExpiryGivenUp ==
    /\ \/ pc = "expired" /\ ack = "err" /\ UNCHANGED <<persistence, bridge>>
       \/ pc = "expiring" /\ reply = "ok" /\ ~open /\ UNCHANGED <<persistence, bridge>>
       \/ StopWaiting("expiring", "expired")
    /\ expiring' = {}
    /\ pc' = "idle"
    /\ UNCHANGED <<tasks, created, clock, generations, used, pending, blocked>>

CommitExpiry ==
    /\ pc = "expired"
    /\ ack = "ok"
    /\ \E p \in expiring : Commit(p.version, 1)
    /\ expiring' = {}
    /\ pc' = "idle"
    /\ UNCHANGED <<persistence, bridge, tasks, created, generations, pending, blocked>>

-----------------------------------------------------------------------------
(* The bridge: handle_scheduled_task_removed.                              *)

BridgeAnswers(result) ==
    /\ inbox' = Tail(inbox)
    /\ ack' = IF Head(inbox).awaited THEN result ELSE ack
    /\ UNCHANGED <<open, actor>>

AppendDurably ==
    /\ inbox # <<>>
    /\ log' = log \cup {Head(inbox).task}
    /\ BridgeAnswers("ok")
    /\ UNCHANGED persistence

\* The append fails, or lands although its own acknowledgement is lost.
AppendFails ==
    /\ inbox # <<>>
    /\ FailOnce
    /\ log' \in {log, log \cup {Head(inbox).task}}
    /\ BridgeAnswers("err")
    /\ UNCHANGED <<queue, held, writing, disk, mayDisk, reply>>

\* The bridge goes away and drops the acknowledgements it holds.
BridgeCloses ==
    /\ open
    /\ open' = FALSE
    /\ inbox' = <<>>
    /\ ack' = IF \E i \in DOMAIN inbox : inbox[i].awaited THEN "err" ELSE ack
    /\ UNCHANGED <<log, persistence, actor>>

-----------------------------------------------------------------------------
(* Other tools save the resources; sessions end and begin.                 *)

ToolSave ==
    /\ pc # "stopped"
    /\ Save(tasks)
    /\ UNCHANGED <<actor, bridge>>

\* cancel_token: whatever is awaited returns, and the remaining tasks are
\* announced as removed under one reservation; the state keeps them.  A save
\* about to be enqueued is enqueued before the token is looked at.
Cancel ==
    /\ pc \notin {"removing", "stopped"}
    /\ pc' = "stopped"
    /\ pending' = {} /\ expiring' = {}
    /\ IF tasks = {} THEN UNCHANGED <<clock, generations, used>>
       ELSE Transition(Cardinality(tasks))
    /\ Unawait
    /\ inbox' = [i \in DOMAIN inbox |-> [inbox[i] EXCEPT !.awaited = FALSE]]
    /\ ack' = "none"
    /\ UNCHANGED <<held, disk, mayDisk, failures, open, log, tasks, created, blocked>>

\* A new actor on the loaded state, with a generation of its own.
Start(file) ==
    /\ generations < MaxGeneration
    /\ generations' = generations + 1
    /\ clock' = [gen |-> generations + 1, rev |-> 0]
    /\ tasks' = file
    /\ pending' = {} /\ expiring' = {} /\ blocked' = {}
    /\ pc' = "idle"
    /\ inbox' = <<>> /\ ack' = "none" /\ open' = TRUE
    /\ UNCHANGED <<created, used, log>>

Reopen ==
    /\ pc = "stopped"
    /\ queue = <<>> /\ held = {} /\ writing = {} /\ inbox = <<>>
    /\ Start(disk)
    /\ UNCHANGED persistence

Crash ==
    /\ WriterCrash
    /\ Start(disk)

PowerFail ==
    /\ WriterPowerFail
    /\ Start(disk')

Actor ==
    \/ DeleteAgain \/ Abandon \/ PersistRemoval
    \/ Publish("persisting", "publishing", pending)
    \/ CommitRemoval \/ RemovalFails
    \/ Publish("expiring", "expired", expiring)
    \/ ExpiryRestored \/ CommitExpiry \/ ExpiryGivenUp

Next ==
    \/ \E t \in Tasks :
        \/ Create(t) \/ Update(t) \/ Delete(t)
        \/ Fire(t) \/ FireSkipped(t) \/ ExpirePlain(t) \/ ExpireBlocked(t) \/ ExpireDurable(t)
    \/ Actor \/ RemovalTimeout
    \/ Writer /\ UNCHANGED <<actor, bridge>>
    \/ AppendDurably \/ AppendFails \/ BridgeCloses
    \/ ToolSave \/ Cancel \/ Reopen \/ Crash \/ PowerFail

Spec == Init /\ [][Next]_vars

\* The actor, the writer and the bridge are tasks of the runtime that run when
\* they can, and a caller whose delete failed tries it again.
FairSpec ==
    /\ Spec
    /\ WF_vars(Actor)
    /\ WF_vars(Writer /\ UNCHANGED <<actor, bridge>>)
    /\ WF_vars(AppendDurably)

-----------------------------------------------------------------------------
Versions == [gen : 1..MaxGeneration, rev : 0..MaxRevision]
Removals ==
    [task : Tasks, version : [source : Versions, gen : 1..MaxGeneration, next : 1..MaxRevision]]

TypeOK ==
    /\ PersistenceTypeOK
    /\ tasks \subseteq created /\ created \subseteq Tasks
    /\ Cardinality(tasks) <= MaxTasks
    /\ clock \in Versions /\ generations \in 1..MaxGeneration
    /\ used \subseteq Versions
    /\ pending \subseteq Removals /\ Cardinality(pending) <= 1
    /\ expiring \subseteq Removals /\ Cardinality(expiring) <= 1
    /\ blocked \subseteq Tasks
    /\ pc \in {"idle", "removing", "persisting", "publishing", "expiring", "expired", "stopped"}
    /\ inbox \in Seq([task : Tasks, awaited : BOOLEAN])
    /\ ack \in {"none", "ok", "err"} /\ open \in BOOLEAN
    /\ log \subseteq Tasks

(* A task whose tombstone is in the update log never comes back: no crash, *)
(* power failure, held save, restored expiry or retry can load or schedule *)
(* it again (complete_pending_removal persists before it publishes).       *)
NoResurrection == log \cap (tasks \cup UNION mayDisk) = {}

(* commit_next's assertion "stale scheduler reservation": while a removal  *)
(* waits, however long and however often it is tried, nothing else commits *)
(* a version.                                                              *)
ReservationFresh == \A p \in pending \cup expiring : p.version.source = clock

(* Two committed transitions never carry the same generation and revision, *)
(* across revision exhaustion, abandoned reservations and restarts.        *)
UniqueVersions == [][clock' # clock /\ clock'.rev > 0 => clock' \notin used]_vars

(* A removal that failed does not keep the scheduler from accepting        *)
(* commands and firing tasks for ever, as long as it is tried again.       *)
NotWedged == pending # {} ~> pending = {}
=============================================================================
