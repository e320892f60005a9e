# Verification of the Madagascar agent runtime

TLA+ models of the parts of Madagascar whose correctness depends on
interleavings, failures and crashes, with the TLC configurations that
model-check them and TLAPS proofs about them. Paths below are relative to the
repository; crates named `xai-*` live under `mad/crates/codegen` or
`mad/crates/common`.

- [The system](#the-system)
- [Inventory](#inventory)
- [Modules](#modules)
- [Runs and bounds](#runs-and-bounds)
- [Fairness](#fairness)
- [What is proved](#what-is-proved)
- [Where the code and its documentation disagree](#where-the-code-and-its-documentation-disagree)
- [What is only model-checked](#what-is-only-model-checked)
- [What is not modelled](#what-is-not-modelled)
- [Plan](#plan)

## The system

Agent Canvas (`frontend/`, React, with a desktop shell in `desktop/`) talks
through an ingress to Agent Servers and an Automation Server (`backend/`,
`agentcore/`, Python). The agent that does the work is a Rust runtime under
`mad/`: a shell that owns sessions, a sampler that talks to the model, tools the
model calls, a scheduler for recurring prompts, subagents, workflows, and the
files in which all of this survives a restart.

The Rust runtime carries the concurrency and the persistence and is what this
project models. Its actors are tokio tasks with command channels; they share
state through `Arc<Mutex<..>>` or atomics, and persist through write-temporary,
rename and fsync. Three facts make it hard to test: a call may be interleaved at
every await and every atomic access, a timeout gives up on work that still lands
later, and a crash or power failure may fall between any two file-system effects.

## Inventory

Every component is listed in `PROJECT.json` with its status. The ones that keep
state worth modelling:

| Component | State | Operations | Interacts with | Hard behaviour | Correct when |
|---|---|---|---|---|---|
| circuit breaker (`xai-circuit-breaker`) | atomic state, time opened, probe counter, time of the last probe claim, mirror flag; window of samples under a mutex | `check`, `record`, `error_rate`, `is_open`, internal `trip`, `close` | callers on any thread; the upload queue uses one | four separate stores per transition; a counter that wraps; a probe that is never recorded | the failure count is exact, an abandoned probe is taken over once per lease, the breaker closes when failures stop |
| session relocation (`xai-mad-shell/src/session/storage/relocation`) | session directories, staging directories, a journal file per session, a lease | `stage_and_publish`, `mark_ready_and_commit`, `rollback`, `recover`, `finalize_terminal` | readers without the lease (`view.rs`), other programs that create directories | crash or power failure between rename, fsync and removal | the directory the journal names is always complete; one copy afterwards; a move is atomic |
| scheduler (`xai-mad-tools/.../scheduler`) | task map, version clock, pending removal, blocked expiries | Create, Update, Delete, List, fire, expire, shutdown | the resources writer, the notification bridge, subagents | a removal waits for a durable save and an acknowledged tombstone under a 30-second timeout | a task with a tombstone never returns; versions are unique; a failed removal does not block for ever |
| resources persistence (`xai-mad-tools/src/persistence.rs`) | command channel, debounce slot, the state file | `save`, `save_and_flush`, debounced write | every tool call; the scheduler | an old debounced snapshot beside a newer durable one | no older snapshot overwrites a durable newer one |
| notification bridge (`xai-mad-shell/src/tools/notification_bridge.rs`) | queue of notifications, the session's update log | append with acknowledgement | scheduler, session log | acknowledgement lost, bridge gone | an acknowledged tombstone is in the log |
| subagent coordinator (`.../task/coordinator.rs`, its callers in the task tool, the scheduler, workflows and the shell) | pending, active and completed children, blocking waiters, workflow drain waiters, buffered completions; each child's cancellation token | Spawn, Query, Cancel (child, prompt, workflow), Completions, Outstanding, TeardownSession, LoopUnitActive, promotion, completion, deadlines, reaping | scheduler iterations, task tool, workflow host, session removal and resumption | completion racing a caller's departure, cancel racing promotion, a late spawn after a teardown, an idle unload without one | a completion is handed to somebody who is there, no child outlives the teardown of its session, every caller is answered |
| one-shot occurrence journal (`scheduler/occurrence_journal.rs`) | prepared and removed occurrences | prepare, finish, reconcile | the scheduler's state after a restart | crash between the two files | an occurrence runs at most once |
| notification fan-out (`notification/handle.rs`) | capped queue, wake-ups | push, recv, drop | every tool | eviction at the cap, missed wake-up | terminal notifications survive |
| sampler (`xai-mad-sampler`) | one request's attempts | start, retry, cancel | provider, circuit breaker | retry racing cancel | one terminal event per request |
| workflow engine (`xai-workflow`) | journal of steps | run, resume | subagents | crash between a step and its record | a recorded step is not run again |
| auth lock file (`auth/manager/lock.rs`) | the lock file's inode, its flock, the holder's PID and timestamp | acquire with a deadline, try, break a stale holder, release | every process of the user | unlink and recreate between two system calls, dead and stuck holders, waits nobody awaits any more | one live guard; a dead or stuck process keeps nobody out for good |
| credential refresh (`auth/manager.rs`, `auth/refresh`, `manager/sleep_gate.rs`, `manager/enrichment.rs`, `flow.rs`) | `auth.json`, the credential in memory, the verdict on a rejected token, the retry budget, the sleep gate | refresh, adopt, apply, clear, log out, reload, enrich, gate | the lock file, the identity provider, other processes, the power listener | a refresh token is good once; answers get lost; the machine suspends | one spender per token, the successor is not thrown away, nothing is sent into a suspend, every activity ends |
| leader process (`leader/lock.rs`) | lock file | elect, hand over | other processes of the workspace | crash of the leader | at most one leader |
| prompt queue, interjections, chat state, upload queue, computer hub, monitor rate limiter | queues and registries owned by one actor each | see `PROJECT.json` | shell, tools | ordering, limits | nothing lost, nothing twice |

Rendering, diffing, heuristics over model output, wire formats, platform calls,
the Python services and the web front end are listed with the reason they are
left out.

## Modules

| Module | Models | Uses |
|---|---|---|
| `SlidingWindow` | `window.rs`: push with the cap, evict, clear, the incremental failure count | |
| `CircuitBreaker` | `breaker.rs`, one step per atomic access | `SlidingWindow` |
| `CircuitBreakerProofs` | theorems about the breaker | `CircuitBreaker` |
| `AtomicMove` | abstract: a session has one home and moves in one step | |
| `Relocation` | `relocation/{mod,journal,fs}.rs`; implements `AtomicMove` | `AtomicMove` |
| `RelocationView` | `relocation/view.rs`: a reader without the lease | `Relocation` |
| `RelocationProofs` | theorems about the relocation, its refinement and its reader | `RelocationView` |
| `ResourcesPersistence` | `persistence.rs`: the writer task | |
| `Scheduler` | `scheduler/actor.rs`, `scheduler/types.rs`, the acknowledged path of the bridge | `ResourcesPersistence` |
| `SchedulerProofs` | theorems about the scheduler | `Scheduler` |
| `RefreshLock` | abstract: what the lock of `auth.json` promises | |
| `RefreshLockProofs` | lemmas: what the steps of the abstract lock keep | `RefreshLock` |
| `AuthLock` | `auth/manager/lock.rs`, one step per system call; implements `RefreshLock` | `RefreshLock` |
| `AuthLockProofs` | flocks are accounted for, one holder, the refinement of `RefreshLock` | `AuthLock` |
| `CredentialRefresh` | `auth/manager.rs`, the OIDC refresher, the sleep gate, enrichment, the expired path of the login flow | `RefreshLock` |
| `CredentialRefreshProofs` | types, one spender, the sleep gate | `CredentialRefresh`, `RefreshLockProofs` |
| `CredentialTokenProofs` | the fate of refresh tokens | `CredentialRefreshProofs` |
| `Subagents` | `task/coordinator.rs` with the parties it serves, and `fire_as_loop_subagent` | |
| `SubagentsProofs` | theorems about the coordinator | `Subagents` |
| `MC*` | the constants and symmetries of the runs | |

### Circuit breaker

`state`, `openedAge`, `probes`, `claimedAge`, `fast` and `window` are the fields
of `CircuitBreakerInner`; `clock`, `loaded`, `failed` and `pc` are a caller's
locals. Times are ages rather than instants, saturated at the longest duration
the code compares them with, so that the state space is finite although time is
not bounded. A reading of the clock grows stale while the caller goes on; the
code does not bound that, the model does (`StaleBound`). The probe counter is a
`usize`: arithmetic is modulo `UsizeMod`. Each atomic access is one step and
accesses are sequentially consistent; the code's Acquire/Release and Relaxed
orderings on different fields allow more on weak memory, which is not modelled.
A window operation is one step because it runs under the mutex. `Abandon` is a
caller whose future is dropped between `check` and `record`. `takeoverAge` is a
history variable for `LeaseExclusive`.

### Relocation

`main` and `staging` are the two paths of each working directory, `journal` the
journal file, `mem`, `txn`, `proof` and `pc` the lease holder. The content of a
directory is what validation reads, its summary's cwd, generation and previous
cwd, plus whether all its files are there (`whole`), which validation does not
read. Every rename, removal, copy, summary rewrite and fsync is a step with its
own failure. `Crash` keeps what the kernel has. `PowerFail` picks, for each
directory and for the journal, some state it had since its last successful fsync
(`mayMain`, `mayJournal`); directories are independent of each other.

Assumptions: one session; the lease works; a caller that began to roll back or
recover a transaction does not commit it afterwards (`RetryCommits = FALSE`; what
happens otherwise is item 6 [below](#where-the-code-and-its-documentation-disagree)).
Another program may create a directory at any free path at any time, and any
number of them. `ForeignKept` says that they are left alone and names the two
windows in which they are not: a directory that takes the place of the target
after `finish_rollback` checked it and before its removal is over
(`mod.rs:440-443`), and one that takes the place of the source after a commit
began to remove that (`mod.rs:420`).

`AtomicMove` says what callers rely on: a session has one home, a move changes
it in one step to a directory with a complete copy, and no complete copy is
dropped while it is the home or may become the home again after a power failure.
The refinement mapping takes the home from the journal's phase (source through
`TargetPublished`, target from `Ready`), and the homes a power failure may bring
back from `mayJournal`.

`RelocationView` adds a reader that loads the journals, scans the directories
one at a time and validates what it selected, interleaved with all of the above.

### Scheduler and persistence

`ResourcesPersistence` is the writer task: the channel (`queue`), the debounce
slot (`held`), the durable write in progress (`writing`: the rename has
happened, the directory's fsync has not), the file (`disk`) and what a power
failure may leave of it (`mayDisk`). A snapshot is the set of scheduled tasks,
the part of the resources the properties speak of.

`Scheduler` is the actor. Removing a task is a protocol: take the task out of
memory and reserve a version, save and flush, publish the tombstone, wait for
the acknowledgement, commit the version. `pc` says what the actor awaits.
`RemovalTimeout` is the 30-second barrier: the actor stops waiting and the save
or the append may still land. A pending removal refuses every command but the
Delete that tries it again. `clock`, `generations` and `used` are the version
clock: a reservation that does not fit below `MaxRevision` starts a new
generation. The generation is a new UUID in the code and a fresh number in the
model. `log` is the set of tasks whose acknowledged tombstone is in the
session's update log; the unacknowledged tombstones of plain expiry, one-shot
firing and shutdown are sent and forgotten by the code and are not tracked.

Time is abstract: a task may be due, and a recurring one expired, at any moment.
The start-up announcement and `List` change nothing the model keeps. How an
iteration runs as a subagent is reduced here to whether the fire is skipped
(`FireSkipped`) and modelled in `Subagents`.

### Auth lock

`path` is the inode `auth.json.lock` names, `flock` and `info` are per inode, and
`fd` is the file a task has open: an unlinked inode lives on while somebody has
it open, which is what the protocol is about. `lk` is a task's place in
`try_acquire_once`, `blocking_acquire` and the three phases of
`try_lock_auth_file_async`. Each system call is a step. The timestamp in the
file is either fresh or past the stale timeout (`OldInfo`), and `Age` makes any
information old at any moment. `Exit` ends a process and closes its files;
`Stop` leaves it alive and motionless. A blocking wait whose caller timed out
stays behind as an `orphan` that later takes the flock, writes its own
information and closes the file. Two simplifications: a wait that times out
before its thread has opened the file leaves no orphan, and orphans of one
process at the same stage on the same file count as one. Every system call of an
attempt may fail, the blocking flock of the second phase included.

`RefreshLock` is what users of the lock rely on: at most one guard is live, a
waiter ends with a guard or without, and a live guard may become `broken`, which
`still_live` tells. `GuardOf` maps a task of `AuthLock` to it: a guard is live
while its file is the one the path names. `KeepsPromise` is the refinement.
`CredentialRefresh` extends `RefreshLock` and so is checked against the promise
instead of the system calls.

### Credential refresh

A credential is the generation the provider issued: 1, 2, 3. `disk` is
`auth.json`, `mem` the credential in each process, `expired` the generations
whose access token is past its early expiry, `verdict` the remembered
`invalid_grant`, `budget` the transient failures counted, `mutex` the in-process
`refresh_lock`, `power` and `inflight` the sleep gate. `ch` is a task's activity:
a refresh goes from the mutex to the lock, its revalidation, the claim of an
in-flight slot, the gate, the exchange, and the answer's application. The
provider is external: it rotates an unspent token, rejects a spent one, may fail
or be slow, and its answer may be lost. `refresh_tokens` posts the same token
again after a lost answer, so a lost answer may end as a failure or, when the
provider has already rotated, as a rejection of the same exchange. The answer that
rotates nothing is not modelled. A refresh that was asked for because the
server rejected a request may begin without a credential in memory, as some of
its callers do. `hist` records what the properties
speak of (rejections per process, lost answers, and whether somebody logged out
or an enrichment wrote without the lock).

Reads and writes of `auth.json` are one step each, because the file is replaced
by a rename. The mutex is a tokio mutex, held across awaits; the order of its
waiters is not modelled.

### Subagents

`cmds` is the command channel; `kid` a child's entry, from the request in the
channel (`sent`) over `pending` and `active` to `completed`; `run` its future,
polled by the actor; `caller` the receiver of its spawn reply; `query` the
blocking queries; `buffer` the buffered completions. The actor's `select!` is
biased, so reports and ended runs go first (`Urgent`), then progress, then
commands, then deadlines. Before every command callers that are gone are
reaped (`Reaped`, `CancelAll`). `finish_child` is one action: the waiters, the
caller, the buffer, the decision to surface, and the workflow's drain waiter.

`session` leaves memory in two ways and may then be resumed: `remove_session`
sends a teardown first, `handle_evict_sessions` (the idle unload when a client
disconnects) sends none. `life` numbers the session's lives, `torn` is the last
one a teardown was sent for, and `told` remembers which life a child is of and to
whom `finish_child` handed its completion. Nothing waits for the thread of a
removed session's actor, so a turn of any life so far may go on asking for
children. `OfActor` gives such a late request no life; its run fails to start
when no session is resident, and becomes a child of the present life when one is.
The properties about lives speak of lives that a teardown ended, and of an unloaded
one only from the next teardown on (item 18 [below](#where-the-code-and-its-documentation-disagree)).
`DrainTimeout` is the workflow host that no longer waits for its children to
drain. When a session is resumed the fire of its old scheduler is taken to be over:
loading waits for the old actor, though for five seconds at most. An id supplied
with a task is taken to be fresh: one that exists is refused, which changes nothing.

`loop` is a fire of a loop task: it asks for the previous
iteration (`LoopQuery`), then for the iteration's descendants
(`LoopUnitActive`), and spawns only when both are gone. A nested child is
requested by a live child and becomes the session's when the actor takes the
request; it is modelled as a background child. `RequestChild`'s prompts are one
prompt, so that cancelling the prompt hits every foreground and background
child.

`events` is fixed at the start of a behaviour and says which kinds of requests
may occur in it; the six scenarios bring together what meets in one race. All of
them at once would be out of reach.

`Without(s, S)` is the order-preserving filter that the code's `partition` and
`retain` are. It is defined without recursion, so that theorems can be proved
about the module, and `MCSubagents` has an `ASSUME` by which TLC compares it with
`SelectSeq` on every short sequence.

## Runs and bounds

| Run | Checks | Shows |
|---|---|---|
| `cb_safety` | `TypeOK`, `WindowCountExact`, `LeaseExclusive` | two callers interleaved at every atomic access: the count is exact, a takeover happens once per lease |
| `cb_recovery` | `Recovery` | if failures stop, the breaker closes for good, through abandoned probes, leaked slots and overlapping trips and closes |
| `relocation` | `TypeOK`, `AuthorityIntact`, `OneCopyAtRest`, `NoOrphanStaging`, `ForeignKept`, `RelocationIsAtomic` | up to three relocations with failures, crashes and power failures at every step keep the authoritative copy complete and are atomic moves |
| `relocation_recoverable` (violation) | `Recoverable` | an interrupted rollback leaves a journal no recovery accepts |
| `relocation_view` | `ViewTypeOK`, `SelectedWasHome` | a reader without the lease returns only a directory the session lived in during the load, or the session moved during it (item 16 [below](#where-the-code-and-its-documentation-disagree)) |
| `scheduler` | `TypeOK`, `NoResurrection`, `ReservationFresh`, `UniqueVersions` | a task with a tombstone never returns; no version is committed twice or out of turn |
| `scheduler_retry` | `NotWedged` | a removal that fails or times out does not block the scheduler for ever |
| `auth_lock` | `FlocksAccounted`, `KeepsPromise`, `NeverWedged` | every flock has an owner that will let go of it, the protocol of system calls implements a lock with one live guard, and a process that died or hangs keeps the other one out only for a while |
| `auth_lock_broken` (violation) | `FreshLockKept` | a waiter that judged an empty file by its age can unlink the lock of a live holder with fresh information |
| `credential` | `TypeOK`, `OneSpender`, `SuccessorRetained`, `NoRetryOfRejected` | two processes that share `auth.json`: a refresh token is at the provider once, a fresh successor is kept, a rejected token is not sent again |
| `credential_suspend` | `OneSpender`, `NoExchangeIntoSuspend`, `ActivityEnds` | two tasks of one process with suspends, a lock that breaks, failing files and the login flow: nothing is sent into a suspend and every activity ends |
| `subagents` | `TypeOK`, `CompletionHeard`, `NoOrphan`, `NoStaleSummary`, `LoopUnitsApart`, `CallsAnswered` | a completion is handed to somebody who is there and surfaced only when nobody else has it, no child and no summary outlives the teardown of its life, loop iterations stay apart, everyone who waits is answered |

Bounds, and why they are enough:

- Breaker: two callers, since every race here is between one caller and one
  other; a window of two samples with a threshold of one half, so that trip, cap
  and eviction all happen; one probe slot; `OpenDuration` above `StaleBound`, as
  `LeaseExclusive` needs; a counter modulo 8 that still wraps. `cb_recovery`
  shrinks the window to one sample to afford liveness checking.
- Relocation: three directories and three relocations, so that a directory can
  be target, source and then target again, with what earlier transactions left.
  The view run has two directories and two relocations (2.6 million states).
- Scheduler: one durable and one ordinary task, a channel of two commands,
  two failures, revisions up to 2 so that rollover happens, and three generations
  (start, one rollover or restart, another). `scheduler_retry` has one failure, a
  channel of one and a one-shot task. TLC's bounds `MaxQueue`, `MaxFailures` and
  `MaxGeneration` are constants, so the theorems cover every value of them.

- Auth lock: two processes with one task each, two lock files at a time (an
  unlinked one and its successor), one process that may die or hang and
  whose task also takes the lock without waiting, and one orphaned wait in the
  other. A third process adds no kind of step: the stale-verdict race takes two,
  and the next caller that locks a fresh file beside the broken guard can be the
  one that unlinked it. The proofs are for every number of tasks and processes.
- Credential: generations up to 3, so that a token is rotated twice and a slower
  process is two behind; two failures use up the budget. The two processes, with
  their tasks, are interchangeable and the run uses that symmetry (`Swap`); it
  checks no liveness. `credential_suspend`
  has two generations and a budget of one, and one process, since the gate, the
  mutex and the flow are per process.
- Subagents: up to three children (an iteration, its descendant and the next
  iteration), one waiter, two commands in the channel, two lives, and limits of 1
  for the buffer and the completed map, so that both overflow. Two scenarios have
  background children beside removal, unload and resumption. `Budget` gives
  each scenario the number of children its race needs.

Deadlock is checked except in `scheduler` and `scheduler_retry`, where a cancelled
session stops the actor, and in `credential` and `subagents`, where everything
comes to rest once the bounded number of generations or children is used up.

## Fairness

- Breaker: weak fairness of `Tick` and of every step inside a call (a thread
  that runs finishes its call), strong fairness of `Check` and of `Record` for
  each caller. The last two are assumptions on the callers: somebody keeps
  asking, and a request is not abandoned every single time. Without them the
  breaker stays half-open by design.
- Scheduler: weak fairness of the actor, the writer and the bridge, which are
  tasks of the runtime; the actor's fairness includes `DeleteAgain`, that is, a
  caller whose delete failed tries again. The last is an assumption on the
  caller: the code leaves a failed removal pending for exactly this retry and
  has no other way out of it while the bridge lives.

- Auth lock: weak fairness of the acquisition steps of the process that is not faulty and of
  its orphaned waits, and of the passing of the stale timeout. Strong fairness of
  the second phase's open, flock, write and check: the blocking wait has no retry
  bound but its deadline, and `flock` wakes a waiter once the holder closes.
  Nothing is assumed of the faulty process.
- Credential: weak fairness of each task's next step (an exchange has a timeout,
  the lock a deadline) and strong fairness of taking the mutex, whose waiters
  tokio serves in order.
- Subagents: weak fairness of the actor's steps, of a child's run until it is live
  and of a cancelled child's end; of the host of a cancelled workflow, which drops
  its callers. Strong fairness of the two deadlines: a timer is served only when
  the channel is empty, and commands do not arrive without a pause for ever. A
  live child that nobody cancels may run for ever, and `CallsAnswered` holds
  all the same.

## What is proved

TLAPS checks the following for every value of the constants that satisfies the
modules' `ASSUME`s.

`CircuitBreakerProofs`, with `IInv == TypeOK /\ Counted(window) /\ LeaseInv`:

- `TypeCorrect`: `Spec => []TypeOK`.
- `WindowCountCorrect`: `Spec => []WindowCountExact`. The lemmas say that push,
  the cap's `pop_front`, evict and clear each keep "the count is the number of
  failing samples"; evict drops a prefix, so its lemma is about prefixes of any
  length.
- `LeaseTakeoverExclusive`: `Spec => LeaseExclusive`. Not inductive by itself:
  `LeaseInv` says that the claim is never older than the last takeover by more
  than `StaleBound`, and that a caller about to CAS loaded a claim a whole lease
  older than its clock reading; a CAS that succeeds found the claim it loaded.

`SchedulerProofs`, with
`IInv == WInv /\ AType /\ VInv /\ Control /\ Waiting /\ Removed`, and for the
types `SInv` beside it:

- `TombstonesAreFinal`: `Spec => []NoResurrection`.
- `ReservationsStayFresh`: `Spec => []ReservationFresh`.
- `VersionsAreUnique`: `Spec => UniqueVersions`.
- `TypeCorrect`: `Spec => []TypeOK`.

The parts of the invariants:

- `WInv`, the writer: the debounce slot is empty while a durable write is in
  progress, the file is that write's snapshot, and at most one acknowledgement
  is awaited. This is where "the flush discards the held snapshot" is used.
- `VInv`, versions: every version used is at or below the clock in its
  generation, and no generation above `generations` has been drawn.
- `Control`: what each `pc` implies about `pending` and `expiring`, and that
  nothing is awaited unless the actor waits for it.
- `Waiting`: the task of a waiting removal is out of `tasks`, its reservation
  follows the clock, and nothing behind the awaited save in the channel brings
  the task back.
- `Removed`: a task never created, in the log or on its way to the bridge is in
  no memory, queue, slot or file a crash could load. `NoResurrection` is a part
  of it; the tasks in the bridge's inbox must be in it because a timed-out
  append still lands.
- `SInv`: `SavedFit` says that every snapshot in a queue, slot or file holds
  tasks that were created and no more than `MaxTasks` of them, which is what
  keeps the limit across restarts; an expiry in progress counts its task in,
  since a failed save puts it back. `Backlog` bounds the writer's queue: beyond
  `MaxQueue` there is one durable save for each answer that was given up, and the
  one that is awaited or that the actor stopped over.

The proof covers unboundedly many failures and restarts because the bounds are
constants, and any finite set of tasks. Assumed: the state file that a session
opens holds no more than `MaxTasks` tasks.

`RelocationProofs`, all under `~RetryCommits` (see item 6 below), with
`RelocInv == TypeOK /\ BoundsInv /\ DiskInv /\ TxnInv /\ ProofInv /\ HolderInv`:

- `TypeCorrect`, `AuthorityStaysIntact`, `RestsInOnePlace`, `StagingIsNamed`:
  `Spec => []P` for `TypeOK`, `AuthorityIntact`, `OneCopyAtRest` and
  `NoOrphanStaging`; `ForeignStays`: `Spec => ForeignKept`, with its two windows.
- `RelocationRefines`: `Spec => RelocationIsAtomic`, the refinement of
  `AtomicMove`: initial states map to initial states, every step to a step or a
  stutter.
- `ViewTypeCorrect`, `ReaderFindsHome`: `ViewSpec => []ViewTypeOK` and
  `ViewSpec => SelectedWasHome`.

A power failure picks a journal and, independently, a state of each directory.
`DiskInv` therefore says that every journal it may pick fits every state of every
directory it may pick; the safety invariants are about the states picked and
follow, but none of them is inductive. `HolderInv` says for each `pc` what the
lease holder knows: which fsyncs it has seen succeed, hence which of the choices
are down to one. `TxnInv` and `ProofInv` say when a transaction may still be
committed and what a terminal proof vouches for. For the reader, `ReadInv` relates
what was scanned to the homes the session had since the load began. The proofs
hold for every finite set of directories and every number of relocations.

`AuthLockProofs`, with `LockInv == TypeOK /\ (\A t \in Task : Attempt(t)) /\ Orphaned`:

- `FlocksAreAccountedFor`: `Spec => []FlocksAccounted`.
- `OneHolder`: `Spec => []AtMostOneHolder`, mutual exclusion in the protocol of
  system calls itself: no two tasks hold a guard whose file is still the one the
  path names.
- `LockKeepsPromise`: `Spec => KeepsPromise`, the refinement of `RefreshLock`.

`Attempt` says that a task has a file open exactly while it tries, and that the
flock of an inode is its own exactly between the grant and the release; `Orphaned`
says the same of waits nobody awaits any more, and that an orphan's flock has an
orphan that will drop it. Since an inode has one flock and the path one inode,
there is one live guard, for every number of tasks, processes and lock files. The
types are a lemma.

`CredentialRefreshProofs`, with `RefreshInv` (the abstract lock's invariant, the
types, `InOrder`: a task in the chain has the mutex and, from the grant on, the
lock; `SlotCounted`: the count in flight is that of the tasks with a slot):

- `TypeCorrect`: `Spec => []TypeOK`, by which `inflight` is 0 or 1 in every process:
  the mutex, not the counter, is what keeps a second refresh out.
- `OnlyOneSpends`: `Spec => []OneSpender`, if no waiter breaks locks or all tasks
  are of one process. `OneSpenderPerProcess` needs neither.
- `SuspendIsSafe`: `Spec => []NoExchangeIntoSuspend`.

`CredentialTokenProofs`, under `Reliable` (no broken locks, `auth.json` can be
read and written; items 10 to 12 below say what happens otherwise):

- `SuccessorIsRetained`: `Spec => []SuccessorRetained`. `TokenInv`: every
  generation but the newest is spent, and the newest is lost, on disk, or with
  the one task that holds the lock and will write it.
- `RejectedIsNotRetried`: `Spec => []NoRetryOfRejected`, also without
  `run_auth_flow` (item 17 below). `VerdictInv`: a rejected token is off the disk
  and, in memory, covered by the sticky verdict, or else the task that was told
  is about to remove it; a task on its way to the provider carries what is on
  disk.

`SubagentsProofs`, with
`IInv == Typed /\ KidInv /\ SpawnInv /\ LifeInv /\ AskInv /\ UnitInv`:

- `TypeCorrect`, `CompletionReachesSomebody`, `NoChildOutlivesSession`,
  `NoSummaryOutlivesSession`, `IterationsStayApart`: `Spec => []P` for `TypeOK`,
  `CompletionHeard`, `NoOrphan`, `NoStaleSummary` and `LoopUnitsApart`, for any
  number of children, waiters, lives and commands, and with every kind of
  request and event in one behaviour, which TLC cannot reach.

The parts of the invariant:

- `KidInv`: a child's entry, run, outcome and caller go together, and a child that
  was not taken over by the session never becomes active. `CompletionHeard` itself
  is inductive beside this.
- `SpawnInv`: a request is in the channel once, and its child is in the state
  `sent`.
- `LifeInv`: a live child, a request and a summary are of no life or of one that
  was not torn down (`Free`), or a teardown is still in the channel; for a
  request it must be behind the request. A nested child takes over the life of
  its spawner, so the refusal of spawners that are cancelled is needed here. About
  a life that was unloaded `NoChildOutlivesSession` and `NoSummaryOutlivesSession`
  say nothing until the next teardown.
- `AskInv`, `UnitInv`: a fire awaits one answer at most and asks for an iteration
  after that iteration's request; what is live of the loop task is of the last
  iteration or of one that ended in an error, and only of the latter once a fire
  has found nothing.

The invariants were model-checked on small instances before they were proved,
that of `Subagents` also by simulation with all events, three children and three
lives.

## Where the code and its documentation disagree

Two are runs that TLC must find violated; `PROJECT.json` quotes the lines.

1. `relocation_recoverable`: a rollback interrupted while it removes the target
   leaves a directory without a summary, which every later recovery refuses.
2. `auth_lock_broken`: a task creates the lock file, takes its flock and is held up
   before `write_holder_info`; the empty file grows older than the stale timeout.
   A second task finds the flock taken and judges the empty file by its mtime. The
   first then writes its PID and time and returns its guard, and the second
   `unlink`s the path under a live holder with fresh information. `KeepsPromise`
   shows what remains true: the first guard is then broken, which `still_live`
   tells, and there is still one live guard at most.

Five more are stated in their modules and in no run; TLC refutes each when it is
added to the configuration named.

3. `MirrorAgrees` (`cb_safety.cfg`): `is_open_fast` is documented as a mirror of
   `state == Open`. `trip()` stores the state first and the mirror last; a caller
   that moves the breaker to HalfOpen in between clears the mirror before
   `trip()` sets it.
4. `RateIsWindowAccurate` (`cb_safety.cfg`): `record()` reads the clock before it
   takes the lock, so samples may be pushed out of order, and evict stops at the
   first live one.
5. `PointInTime` (`relocation_view.cfg`): the view reads journals first and
   directories later, so it is not a point-in-time view of a session being moved.
6. `CopyRetained` (`relocation.cfg` with `RetryCommits = TRUE`): after a rollback
   that failed half-way the same transaction can be committed; validation reads
   only the summary, and the last complete copy is removed.

The fifth is item 18. The rest were met while modelling and proving.

7. `half_open_probes` is documented as zero while Open, but a caller that read
   HalfOpen before a trip increments it afterwards; `cb_recovery` shows the lease
   heals it.
8. A one-shot task in state written by an older version can fire again after a
   crash, because nothing saves its removal until the next tool call.
9. `run_auth_flow` holds the lock file while it calls `auth()`, whose
   `refresh_chain` waits for the same lock until its deadline (`flow.rs:506`).
   `ActivityEnds` shows that the flow ends; it costs the deadline.
10. Profile enrichment that timed out on the lock goes on without it and can write
    an older token over a sibling's (`enrichment.rs:147`). The token properties
    except behaviours in which that happened.
11. When `auth.json` cannot be written after a rotation, a later reload or adoption
    from disk replaces the successor in memory by the spent token.
12. A refresh in flight during a logout writes the credential back
    (`manager.rs:468`).
13. A loop iteration that ends in an error clears its anchor, and without an anchor
    the next fire asks nothing: it may overlap a descendant of the failed iteration
    (`scheduler/actor.rs:582`, `726`). `LoopUnitsApart` excepts this.
14. A blocking query that timed out while its child was finishing is answered with
    the completed state, and the completion is surfaced as well.
15. In the shell, beyond the coordinator: an auto-wake turn releases the reservation
    of its completion before it drains the completions between turns (`turn.rs:276`,
    `707`), so a completion may be told twice; and a drain during the reservation
    followed by a user prompt that drops the queued wake prompt tells it to nobody.
16. With three directories a reader may return one where the session did not live
    during the load: it moves, in one load, to a directory that was scanned
    before, and the only candidate found is the target of its next move. The
    first attempt to prove `SelectedWasHome` without this exception failed here,
    and TLC confirmed it in 43 steps. With two directories it cannot happen.
17. `NoRetryOfRejected` needs a process without the expired path of
    `run_auth_flow`: the flow keeps a credential across its await, a second task
    of the process is told meanwhile that the token is rejected, and when the
    flow's refresh fails for a transient reason the remembered credential is put
    back and can be sent once more (36 steps, with a lost answer and a reload).
    The proof found this; the run `credential` has no flow.
18. `LiveWorkStaysResident` (`subagents.cfg`): `agent_ops.rs:1997` says "Sessions
    with live work stay resident", but the check before the idle unload does not
    consult background subagents, and the TODO at `session_lifecycle.rs:420`
    says so. `handle_evict_sessions` sends `Shutdown`, takes the session out of
    the map and sends no `TeardownSession`: a background child is requested,
    started and promoted, the client disconnects, and the child runs on,
    uncancelled, without a session. What it completes is kept within the cap of the
    buffer, whose comment (`coordinator.rs:624`) expects such sessions.
19. A turn that outlives the removal of its session may still send a Spawn behind
    the teardown. The child fails to start, since its parent is gone, and the
    failure stays in the buffer until the session is resumed; `NoStaleSummary`
    excepts it. If the session is resumed first, the child starts in the new life.

## What is only model-checked

- Liveness (`Recovery`, `NotWedged`, `NeverWedged`, `ActivityEnds`,
  `CallsAnswered`): the prover does not handle fairness.
- That `Without` is `SelectSeq`: a statement about a recursive definition. The
  proofs need only what `WithoutFacts` says of it, which is proved. Where an
  induction over numbers is needed (a finite set of numbers has a k-th element)
  it is written as a least counterexample, from the well-foundedness of `<`.
- The relocation with `RetryCommits`, which is not safe (item 6).

Every safety invariant, action property and refinement that a passing run checks
is stated by a theorem.

## What is not modelled

- Breaker: a disabled breaker, observer callbacks, `retry_after`, the test hook
  `force_half_open`, weak memory.
- Relocation: several sessions at once (`recover_all` stops at the first error,
  listed as a hazard), file contents.
- Scheduler: when a task is due, prompts and intervals, `List`, the
  start-up announcement, the noop writer.
- Auth lock: Windows, PID reuse, an `unlink` that fails while the file exists, and
  a blocking wait that times out before its thread opens the file and opens it
  afterwards.
- Credential refresh: interactive login, the external-binary and devbox
  authorities, `unauthorized_recovery` beyond its call of `refresh_chain`, the
  login policy, other scopes, a provider that answers without a new refresh token
  (`oidc/refresh.rs:211`). Across processes `OneSpender` needs a lock that is
  not broken: a process suspended inside an exchange loses the lock to a waiter,
  by design, and the revalidation cannot see what happens after it.
- Subagents: several parent sessions, ids supplied by the caller that exist already,
  usage marks, resume sources, type validation
  and listings; the contents of a result; the shell's auto-wake queue (item 15
  above); nested foreground children.
- The components marked `not_modelled` in `PROJECT.json`, each with its reason.

## Plan

In this order:

1. Proofs: a statement of `SelectedWasHome` that describes the exception of item
   16 exactly, with the targets of the moves as history; `NoRetryOfRejected` with
   the flow, for behaviours in which no transient failure puts a credential back;
   that a probe slot of the breaker is not handed out twice without a takeover.
2. The one-shot occurrence journal, composed with a restart of the scheduler:
   an occurrence is delivered at most once.
3. The shell's auto-wake queue on top of `Subagents`: reservations, the drain
   between turns, the preemption by a user prompt.
4. The capped notification queue: eviction order, wake-ups, the fate of terminal
   notifications.
5. The leader lock; the upload queue with the breaker; sampler retries; the
   workflow journal; the prompt queue; interjections; `recover_all` over several
   sessions.

Runs stay at a few million states each; a run is added only for a question no
existing run answers. Each new module gets its type invariant and its main
safety invariant as theorems where no recursive operator is involved.
