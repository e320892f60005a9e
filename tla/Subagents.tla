------------------------------ MODULE Subagents ------------------------------
(***************************************************************************)
(* The subagent coordinator (xai-mad-tools, mad_build/task/coordinator.rs, *)
(* coordinator_state.rs, coordinator/query.rs), an actor that owns the     *)
(* registry of children, beside the parties it serves: a parent session    *)
(* that may be removed and resumed (xai-mad-shell, session_lifecycle.rs),  *)
(* the children's runs (agent/subagent/handle_request.rs), blocking        *)
(* queries, a workflow run (session/workflow/host_service.rs) and the loop *)
(* task of the scheduler (scheduler/actor.rs, fire_as_loop_subagent).      *)
(*                                                                         *)
(* Children are numbered in the order they are requested: ids are fresh    *)
(* UUIDs (an id the caller supplies and that exists is refused, which      *)
(* changes as much of the registry as any read).  The actor's select is    *)
(* biased: reports and ended runs go before commands.                      *)
(***************************************************************************)
EXTENDS Naturals, Sequences, FiniteSets, SequencesExt

CONSTANTS
    MaxChild,      \* bound on the children requested
    Budget,        \* scenario -> how many of them it requests
    Waiter,        \* callers of a blocking query, each asks once
    Scenarios,     \* the combinations of requests and events the instance includes
    MaxCmds,       \* bound on the commands in the channel
    MaxLife,       \* bound on the lives of the session
    MaxBuffer,     \* MAX_PENDING_COMPLETIONS
    MaxCompleted   \* MAX_COMPLETED_ENTRIES

Kind == {"foreground", "background", "workflow", "nested", "loop"}
\* What a session asks for and awaits the answer of.
Ask == {"CancelOne", "CancelPrompt", "Completions", "Outstanding"}
Event == Kind \cup Ask \cup {"query", "remove", "unload"}

ASSUME CoordinatorAssumption ==
    /\ Scenarios \subseteq SUBSET Event
    /\ {MaxChild, MaxCmds, MaxLife, MaxBuffer, MaxCompleted} \subseteq Nat \ {0}
    /\ Budget \in [Scenarios -> 1..MaxChild]

Child == 1..MaxChild
None == 0

VARIABLES
    cmds,       \* the command channel
    kid,        \* child -> its entry in the coordinator
    completed,  \* completed_order: the completed children that are retained
    cancelled,  \* child -> its cancellation token
    run,        \* child -> where its run is
    outcome,    \* child -> the result of its run
    caller,     \* child -> the receiver of its spawn reply
    query,      \* waiter -> its blocking query
    buffer,     \* pending_completions
    session,    \* the parent session: resident, which life it is in, and the last
                \* life a teardown was sent for
    flow,       \* the workflow run: cancelled, and the call that drains it
    events,     \* the scenario: what may happen in this behaviour
    loop,       \* the loop task's fire, and last_subagent_id
    told        \* child -> whom its completion was handed to, and the life it is of

envVars == <<events, session, flow, loop>>
vars == <<cmds, kid, completed, cancelled, run, outcome, caller, query, buffer,
          envVars, told>>

\* A request: its kind, the child that makes it (None: the session), what
\* Spawn derives from it, and the flags of PendingChild and ActiveChild.
NoKid == [st |-> "none", kind |-> "foreground", by |-> None, surface |-> FALSE,
          unit |-> None, handle_only |-> FALSE, deadline |-> FALSE, reply |-> FALSE,
          killed |-> FALSE]

TypeOK ==
    /\ \A i \in 1..Len(cmds) :
          /\ cmds[i].op \in {"Spawn", "Query", "CancelOne", "CancelPrompt", "CancelWorkflow",
                             "Completions", "Teardown", "Outstanding", "LoopQuery", "LoopUnitActive"}
          /\ cmds[i].id \in Child \cup {None}
    /\ kid \in [Child -> [st : {"none", "sent", "pending", "active", "completed", "refused"},
                          kind : Kind,
                          by : Child \cup {None}, surface : BOOLEAN, unit : Child \cup {None},
                          handle_only : BOOLEAN, deadline : BOOLEAN, reply : BOOLEAN,
                          killed : BOOLEAN]]
    /\ \A c \in Child : kid[c].reply => kid[c].st \in {"pending", "active"}
    /\ Len(completed) <= MaxCompleted /\ Range(completed) \subseteq Child
    /\ cancelled \in [Child -> BOOLEAN]
    /\ run \in [Child -> {"none", "start", "ready", "reported", "refused", "live", "ended", "over"}]
    /\ outcome \in [Child -> {"none", "ok", "failed", "cancelled"}]
    /\ caller \in [Child -> {"none", "waiting", "gone", "answered", "handed_off"}]
    /\ query \in [Waiter -> [st : {"idle", "sent", "blocked", "progress", "answered", "gone"},
                             on : Child \cup {None}]]
    /\ Len(buffer) <= MaxBuffer /\ Range(buffer) \subseteq Child
    /\ session \in [resident : BOOLEAN, life : 1..MaxLife, torn : 0..MaxLife]
    /\ flow \in [cancel : BOOLEAN, drain : {"idle", "sent", "waiting", "drained", "given_up"}]
    /\ loop \in [pc : {"idle", "query", "progress", "queried", "unit", "clear"},
                 on : Child \cup {None}, last : Child \cup {None}]
    /\ events \in Scenarios
    /\ told \in [Child -> [to : SUBSET {"caller", "waiter", "surface"}, life : 0..MaxLife]]

Init ==
    /\ cmds = <<>> /\ completed = <<>> /\ buffer = <<>>
    /\ kid = [c \in Child |-> NoKid]
    /\ cancelled = [c \in Child |-> FALSE]
    /\ run = [c \in Child |-> "none"] /\ outcome = [c \in Child |-> "none"]
    /\ caller = [c \in Child |-> "none"]
    /\ query = [w \in Waiter |-> [st |-> "idle", on |-> None]]
    /\ session = [resident |-> TRUE, life |-> 1, torn |-> 0]
    /\ flow = [cancel |-> FALSE, drain |-> "idle"]
    /\ loop = [pc |-> "idle", on |-> None, last |-> None]
    /\ events \in Scenarios
    /\ told = [c \in Child |-> [to |-> {}, life |-> 0]]

Live(c) == kid[c].st \in {"pending", "active"}
is_workflow(c) == kid[c].kind = "workflow"
\* belongs_to_session, for the one session: nested children were re-parented.
InSession(c) == kid[c].by = None
workflow_outstanding == {c \in Child : Live(c) /\ is_workflow(c)}
Teardowns == {i \in 1..Len(cmds) : cmds[i].op = "Teardown"}

-----------------------------------------------------------------------------
(* The parties that send commands *)

Room == Len(cmds) < MaxCmds
Send(op, id) == Room /\ cmds' = Append(cmds, [op |-> op, id |-> id])

\* The life that a request of the session's n-th actor is of.  One sent after the
\* teardown of n is of none, until a run finds a resident session to start in.
OfActor(n) == IF n > session.torn THEN n ELSE None

\* The next child is requested, by the session or by a live child; its caller
\* waits for the reply.  A loop iteration is the root of its own unit.
Request(kind, by, life) ==
    LET c == Cardinality({d \in Child : kid[d].st # "none"}) + 1
    IN /\ kind \in events /\ c <= Budget[events]
       /\ Send("Spawn", c)
       /\ kid' = [kid EXCEPT ![c] = [NoKid EXCEPT !.st = "sent", !.kind = kind, !.by = by,
                     !.surface = kind # "workflow", !.unit = IF kind = "loop" THEN c ELSE None]]
       /\ caller' = [caller EXCEPT ![c] = "waiting"]
       /\ told' = [told EXCEPT ![c].life = life]

\* A turn of the session, also one that goes on after its session left memory:
\* nobody waits for the thread of the actor, which ends when it ends.
RequestChild ==
    /\ \/ \E kind \in {"foreground", "background", "workflow"}, n \in 1..session.life :
             Request(kind, None, OfActor(n))
       \/ \E c \in Child : run[c] = "live" /\ Request("nested", c, told[c].life)
    /\ UNCHANGED <<completed, cancelled, run, outcome, query, buffer, envVars>>

\* The caller drops its receiver (the await was abandoned); the guard of
\* ChannelBackend::spawn cancels the child of a workflow.
DropCaller(c) ==
    /\ caller[c] = "waiting" /\ kid[c].kind # "loop"
    /\ is_workflow(c) => flow.cancel \/ ~session.resident \/ session.life > 1
    /\ caller' = [caller EXCEPT ![c] = "gone"]
    /\ cancelled' = [cancelled EXCEPT ![c] = @ \/ is_workflow(c)]
    /\ UNCHANGED <<cmds, kid, completed, run, outcome, query, buffer, envVars, told>>

\* A cancelled tool call of a foreground task forwards to the child's token.
CancelToolCall(c) ==
    /\ kid[c].kind = "foreground" /\ caller[c] = "waiting" /\ ~cancelled[c]
    /\ cancelled' = [cancelled EXCEPT ![c] = TRUE]
    /\ UNCHANGED <<cmds, kid, completed, run, outcome, caller, query, buffer, envVars, told>>

AskQuery(w) ==
    /\ "query" \in events /\ query[w].st = "idle"
    /\ \E c \in Child :
          /\ kid[c].st # "none"
          /\ Room /\ cmds' = Append(cmds, [op |-> "Query", id |-> c, by |-> w])
          /\ query' = [query EXCEPT ![w] = [st |-> "sent", on |-> c]]
    /\ UNCHANGED <<kid, completed, cancelled, run, outcome, caller, buffer, envVars, told>>

DropQuery(w) ==
    /\ query[w].st = "blocked"
    /\ query' = [query EXCEPT ![w].st = "gone"]
    /\ UNCHANGED <<cmds, kid, completed, cancelled, run, outcome, caller, buffer, envVars, told>>

\* What a session's actor asks for: a kill, the end of a prompt's
\* children, the buffered completions, or how many children hold the turn.
SessionAsks ==
    /\ \A i \in 1..Len(cmds) : cmds[i].op \notin Ask
    /\ \E op \in Ask \cap events, c \in Child \cup {None} :
          /\ op = "CancelOne" <=> c # None
          /\ c # None => kid[c].st # "none"
          /\ Send(op, c)
    /\ UNCHANGED <<kid, completed, cancelled, run, outcome, caller, query, buffer, envVars, told>>

\* The run is cancelled; its host then asks the coordinator to drain it.
CancelFlow ==
    /\ ~flow.cancel /\ "workflow" \in events
    /\ flow' = [flow EXCEPT !.cancel = TRUE]
    /\ UNCHANGED <<cmds, kid, completed, cancelled, run, outcome, caller, query, buffer,
                   events, session, loop, told>>

cancel_and_drain_children ==
    /\ flow = [cancel |-> TRUE, drain |-> "idle"]
    /\ Send("CancelWorkflow", None)
    /\ flow' = [flow EXCEPT !.drain = "sent"]
    /\ UNCHANGED <<kid, completed, cancelled, run, outcome, caller, query, buffer,
                   events, session, loop, told>>

\* WORKFLOW_CHILD_DRAIN_TIMEOUT: the host goes on without an answer.
DrainTimeout ==
    /\ flow.drain \in {"sent", "waiting"}
    /\ flow' = [flow EXCEPT !.drain = "given_up"]
    /\ UNCHANGED <<cmds, kid, completed, cancelled, run, outcome, caller, query, buffer,
                   events, session, loop, told>>

sessionOnly == <<kid, completed, cancelled, run, outcome, caller, query, buffer, events, flow, told>>

\* The teardown is sent first, the session leaves the map at once.
remove_session ==
    /\ "remove" \in events /\ session.resident
    /\ Send("Teardown", None)
    /\ session' = [session EXCEPT !.resident = FALSE, !.torn = session.life]
    /\ UNCHANGED <<loop, sessionOnly>>

\* A client disconnects and the session, found without a turn, is unloaded:
\* it leaves the map and its actor is told to shut down, but no teardown is
\* sent.  The busy check does not consult background children, and a turn may
\* begin after it.
handle_evict_sessions ==
    /\ "unload" \in events /\ session.resident
    /\ session' = [session EXCEPT !.resident = FALSE]
    /\ UNCHANGED <<cmds, loop, sessionOnly>>

\* A fire in progress is abandoned: what it waits for is answered to nobody.
Unheard(cs) == [i \in 1..Len(cs) |-> IF cs[i].op \in {"LoopQuery", "LoopUnitActive"}
                                     THEN [op |-> "Outstanding", id |-> None] ELSE cs[i]]

\* The session is loaded again, after a bounded wait for its old actor; the
\* fire of the old scheduler is over by then.
ResumeSession ==
    /\ ~session.resident /\ session.life < MaxLife
    /\ session' = [session EXCEPT !.resident = TRUE, !.life = @ + 1]
    /\ cmds' = Unheard(cmds)
    /\ loop' = [loop EXCEPT !.pc = "idle", !.on = None]
    /\ UNCHANGED sessionOnly

-----------------------------------------------------------------------------
(* The loop task: a fire asks for the previous iteration, then for any     *)
(* child of its unit, and only then starts the next one.                   *)

loopOnly == <<kid, completed, cancelled, run, outcome, caller, query, buffer, events,
              session, flow, told>>

LoopFire ==
    /\ "loop" \in events /\ session.resident /\ loop.pc = "idle"
    /\ \/ /\ loop.last = None
          /\ loop' = [loop EXCEPT !.pc = "clear"]
          /\ UNCHANGED cmds
       \/ /\ loop.last # None
          /\ Send("LoopQuery", loop.last)
          /\ loop' = [loop EXCEPT !.pc = "query", !.on = loop.last]
    /\ UNCHANGED loopOnly

AskUnit ==
    /\ loop.pc = "queried"
    /\ Send("LoopUnitActive", None)
    /\ loop' = [loop EXCEPT !.pc = "unit"]
    /\ UNCHANGED loopOnly

LoopTimeout ==
    /\ loop.pc \in {"query", "progress", "unit"}
    /\ cmds' = Unheard(cmds)
    /\ loop' = [loop EXCEPT !.pc = "idle", !.on = None]
    /\ UNCHANGED loopOnly

LoopSpawn ==
    /\ loop.pc = "clear"
    /\ Request("loop", None, OfActor(session.life))
    /\ loop' = [pc |-> "idle", on |-> None,
                last |-> Cardinality({d \in Child : kid[d].st # "none"}) + 1]
    /\ UNCHANGED <<completed, cancelled, run, outcome, query, buffer, events, session, flow>>

\* The task that awaits the iteration's result: an error clears the anchor.
ClearAnchor(c) ==
    /\ loop.last = c /\ c # None /\ caller[c] = "answered"
    /\ outcome[c] \in {"failed", "cancelled"}
    /\ loop' = [loop EXCEPT !.last = None]
    /\ UNCHANGED <<cmds, loopOnly>>

-----------------------------------------------------------------------------
(* The runs of the children, polled by the actor *)

runOnly == <<cmds, kid, completed, cancelled, caller, query, buffer, envVars, told>>

\* try_build_subagent_spawn_context: the parent session is in the map.
HasParent(c) == session.resident /\ InSession(c)

\* Without a parent there is no spawn context; a workflow's child that is
\* cancelled already does not start; anything in the way of a child session
\* fails the run.  What starts is of the life it found resident, a nested
\* child of its spawner's.
Start(c) ==
    /\ run[c] = "start"
    /\ \/ /\ HasParent(c) /\ ~(is_workflow(c) /\ cancelled[c])
          /\ run' = [run EXCEPT ![c] = "ready"] /\ UNCHANGED outcome
          /\ told' = [told EXCEPT ![c].life = IF kid[c].kind = "nested" THEN @ ELSE session.life]
       \/ /\ run' = [run EXCEPT ![c] = "ended"]
          /\ outcome' = [outcome EXCEPT ![c] =
                IF HasParent(c) /\ is_workflow(c) /\ cancelled[c] THEN "cancelled" ELSE "failed"]
          /\ UNCHANGED told
    /\ UNCHANGED <<cmds, kid, completed, cancelled, caller, query, buffer, envVars>>

\* ChildReporter::started: the run waits for the acknowledgement.
Report(c) ==
    /\ run[c] = "ready"
    /\ run' = [run EXCEPT ![c] = "reported"]
    /\ UNCHANGED <<outcome, runOnly>>

\* A turn ends with a result or an error, also when the token was cancelled
\* at the same moment; a cancelled one ends as cancelled.
EndTurn(c) ==
    /\ run[c] = "live"
    /\ \E o \in {"ok", "failed"} : outcome' = [outcome EXCEPT ![c] = o]
    /\ run' = [run EXCEPT ![c] = "ended"]
    /\ UNCHANGED runOnly

Stop(c) ==
    /\ run[c] = "refused" \/ (run[c] = "live" /\ cancelled[c])
    /\ outcome' = [outcome EXCEPT ![c] = "cancelled"]
    /\ run' = [run EXCEPT ![c] = "ended"]
    /\ UNCHANGED runOnly

-----------------------------------------------------------------------------
(* The coordinator *)

\* Reports and ended runs are taken before any command.
Urgent == \E c \in Child : run[c] \in {"reported", "ended"}

\* handle_internal, Started: a cancellation that came first wins.
Started(c) ==
    /\ run[c] = "reported"
    /\ IF cancelled[c]
       THEN run' = [run EXCEPT ![c] = "refused"] /\ UNCHANGED kid
       ELSE run' = [run EXCEPT ![c] = "live"] /\ kid' = [kid EXCEPT ![c].st = "active"]
    /\ UNCHANGED <<cmds, completed, cancelled, outcome, caller, query, buffer, envVars, told>>

NewestLate(s, n) == IF Len(s) > n + 1 THEN SubSeq(s, Len(s) - n, Len(s)) ELSE s
\* The oldest entries beyond a limit go: MAX_PENDING_COMPLETIONS of the buffer
\* (coordinator.rs:624), MAX_COMPLETED_ENTRIES of the completed map.
Newest(s, n) == IF Len(s) > n THEN SubSeq(s, Len(s) - n + 1, Len(s)) ELSE s

\* partition and retain keep the others in their order.
Without(s, S) ==
    LET keep == {i \in 1..Len(s) : s[i] \notin S}
        nth(k) == CHOOSE i \in keep : Cardinality({j \in keep : j <= i}) = k
    IN [k \in 1..Cardinality(keep) |-> s[nth(k)]]

ReplySentUnchecked(c) == kid[c].reply
\* spawn_reply.send succeeds only while the receiver is there.
ReplySent(c) == kid[c].reply /\ caller[c] = "waiting"

DrainsWhenNoneLeft(c) == is_workflow(c) /\ workflow_outstanding = {}
\* resolve_workflow_cancel_waiters: c is the last child of its run.
DrainsWorkflow(c) == is_workflow(c) /\ workflow_outstanding = {c}

\* finish_child: the waiters, then the caller, then the buffer, then whether
\* the host surfaces the completion.
finish_child(c) ==
    LET k == kid[c]
        heard == {w \in Waiter : query[w] = [st |-> "blocked", on |-> c]}
        received == k.reply /\ caller[c] = "waiting"
        handle_only == k.handle_only \/ ~ReplySent(c)
        should_surface == k.surface /\ handle_only /\ outcome[c] # "cancelled"
                          /\ heard = {} /\ ~k.killed
    IN /\ run[c] = "ended"
       /\ run' = [run EXCEPT ![c] = "over"]
       /\ kid' = [kid EXCEPT ![c] = [@ EXCEPT !.st = "completed", !.reply = FALSE,
                                              !.handle_only = handle_only, !.deadline = FALSE]]
       /\ query' = [w \in Waiter |-> IF w \in heard THEN [query[w] EXCEPT !.st = "answered"]
                                                    ELSE query[w]]
       /\ caller' = [caller EXCEPT ![c] = IF received THEN "answered" ELSE @]
       /\ buffer' = IF k.surface /\ ~is_workflow(c) THEN Newest(Append(buffer, c), MaxBuffer)
                                                    ELSE buffer
       /\ completed' = Newest(Append(completed, c), MaxCompleted)
       /\ told' = [told EXCEPT ![c].to =
                      {x \in {"caller", "waiter", "surface"} :
                          \/ x = "caller" /\ received /\ ~k.handle_only
                          \/ x = "waiter" /\ heard # {}
                          \/ x = "surface" /\ should_surface}]
       /\ flow' = IF flow.drain = "waiting" /\ DrainsWorkflow(c)
                  THEN [flow EXCEPT !.drain = "drained"] ELSE flow
       /\ UNCHANGED <<cmds, cancelled, outcome, events, session, loop>>

\* background_if_caller_gone, for every child.
Abandoned == {c \in Child : Live(c) /\ ~kid[c].handle_only /\ kid[c].reply /\ caller[c] = "gone"}
Reaped == [c \in Child |->
              IF c \notin Abandoned THEN kid[c]
              ELSE IF is_workflow(c) THEN [kid[c] EXCEPT !.reply = FALSE]
              ELSE [kid[c] EXCEPT !.reply = FALSE, !.handle_only = TRUE, !.deadline = FALSE]]
CancelAll(S) == [c \in Child |-> cancelled[c] \/ c \in S \/ (c \in Abandoned /\ is_workflow(c))]

\* The actor takes a command: abandoned callers are reaped before it.
Take(op) ==
    /\ ~Urgent /\ cmds # <<>> /\ Head(cmds).op = op
    /\ cmds' = Tail(cmds)
Target == Head(cmds).id

NeverRefused(by) == FALSE
\* The spawning child is being torn down: its late child would be orphaned.
SpawnerCancelled(by) == kid[by].st = "active" /\ CancelAll({})[by]

\* Spawn: a request of an active child becomes one of the session, unless
\* that child is being torn down.
Spawn ==
    /\ Take("Spawn")
    /\ LET c == Target
           by == kid[c].by
           nested == by # None /\ kid[by].st = "active"
           refused == by # None /\ SpawnerCancelled(by)
           request == [kid[c] EXCEPT
                          !.by = IF nested THEN None ELSE by,
                          !.surface = @ /\ ~nested,
                          !.unit = IF nested /\ @ = None THEN kid[by].unit ELSE @]
       IN \/ /\ refused
             /\ kid' = [Reaped EXCEPT ![c].st = "refused"]
             /\ caller' = [caller EXCEPT ![c] = IF @ = "waiting" THEN "answered" ELSE @]
             /\ UNCHANGED run
          \/ /\ ~refused
             /\ kid' = [Reaped EXCEPT ![c] =
                           [request EXCEPT !.st = "pending", !.reply = TRUE,
                               !.handle_only = kid[c].kind \in {"background", "nested", "loop"},
                               !.deadline = kid[c].kind = "foreground"]]
             /\ run' = [run EXCEPT ![c] = "start"]
             /\ UNCHANGED caller
    /\ cancelled' = CancelAll({})
    /\ UNCHANGED <<completed, outcome, query, buffer, envVars, told>>

cmdOnly == <<completed, run, outcome, caller, told>>

\* handle_query with block: a live child's answer waits.
handle_query ==
    /\ Take("Query")
    /\ LET w == Head(cmds).by
           blocks == Live(Target) /\ InSession(Target) /\ ~is_workflow(Target)
       IN query' = [query EXCEPT ![w].st = IF blocks THEN "blocked" ELSE "answered"]
    /\ kid' = Reaped /\ cancelled' = CancelAll({})
    /\ UNCHANGED <<cmdOnly, buffer, envVars>>

cancel_one ==
    /\ Take("CancelOne")
    /\ LET hit == {c \in Child : c = Target /\ Live(c) /\ InSession(c)}
       IN /\ kid' = [c \in Child |-> IF c \in hit THEN [Reaped[c] EXCEPT !.killed = TRUE]
                                                  ELSE Reaped[c]]
          /\ cancelled' = CancelAll(hit)
    /\ UNCHANGED <<cmdOnly, query, buffer, envVars>>

cancel_parent_prompt ==
    /\ Take("CancelPrompt")
    /\ kid' = Reaped
    /\ cancelled' = CancelAll({c \in Child : Live(c) /\ kid[c].kind \in {"foreground", "background"}})
    /\ UNCHANGED <<cmdOnly, query, buffer, envVars>>

cancel_workflow_children ==
    /\ Take("CancelWorkflow")
    /\ kid' = Reaped
    /\ cancelled' = CancelAll(workflow_outstanding)
    /\ flow' = [flow EXCEPT !.drain = IF @ = "given_up" THEN @
                                      ELSE IF workflow_outstanding = {} THEN "drained" ELSE "waiting"]
    /\ UNCHANGED <<cmdOnly, query, buffer, events, session, loop>>

\* Completions: the session's summaries leave the buffer.
Completions ==
    /\ Take("Completions")
    /\ kid' = Reaped /\ cancelled' = CancelAll({})
    /\ buffer' = Without(buffer, {c \in Child : InSession(c)})
    /\ UNCHANGED <<cmdOnly, query, envVars>>

TeardownKeepsSurface ==
    /\ Take("Teardown")
    /\ buffer' = Without(buffer, {c \in Child : InSession(c)})
    /\ kid' = Reaped
    /\ cancelled' = CancelAll({c \in Child : Live(c) /\ InSession(c)})
    /\ UNCHANGED <<cmdOnly, query, envVars>>

\* The summaries go, and the session's children neither surface nor live on.
TeardownSession ==
    /\ Take("Teardown")
    /\ buffer' = Without(buffer, {c \in Child : InSession(c)})
    /\ kid' = [c \in Child |-> IF Live(c) /\ InSession(c)
                               THEN [Reaped[c] EXCEPT !.surface = FALSE] ELSE Reaped[c]]
    /\ cancelled' = CancelAll({c \in Child : Live(c) /\ InSession(c)})
    /\ UNCHANGED <<cmdOnly, query, envVars>>

\* Outstanding, and every other read of the registry.
Outstanding ==
    /\ Take("Outstanding")
    /\ kid' = Reaped /\ cancelled' = CancelAll({})
    /\ UNCHANGED <<cmdOnly, query, buffer, envVars>>

\* handle_query without block, for the loop: the fire skips a child that
\* initialises, waits for the progress of an active one, and goes on otherwise.
LoopQuery ==
    /\ Take("LoopQuery")
    /\ kid' = Reaped /\ cancelled' = CancelAll({})
    /\ loop' = [loop EXCEPT !.pc = CASE kid[Target].st = "active" -> "progress"
                                     [] kid[Target].st = "pending" -> "idle"
                                     [] OTHER -> "queried"]
    /\ UNCHANGED <<cmdOnly, query, buffer, events, session, flow>>

LoopRootActive ==
    /\ Take("LoopUnitActive")
    /\ kid' = Reaped /\ cancelled' = CancelAll({})
    /\ loop' = [loop EXCEPT !.pc = IF Live(loop.on) THEN "idle" ELSE "clear"]
    /\ UNCHANGED <<cmdOnly, query, buffer, events, session, flow>>

\* A live child of the loop task, an iteration or what it started, skips the fire.
LoopUnitActive ==
    /\ Take("LoopUnitActive")
    /\ kid' = Reaped /\ cancelled' = CancelAll({})
    /\ loop' = [loop EXCEPT !.pc =
                   IF \E c \in Child : Live(c) /\ kid[c].unit # None THEN "idle" ELSE "clear"]
    /\ UNCHANGED <<cmdOnly, query, buffer, events, session, flow>>

\* finish_progress: what a child's control reports, or its terminal state.
finish_progress ==
    /\ ~Urgent
    /\ \/ \E w \in Waiter :
             /\ query[w].st = "progress"
             /\ query' = [query EXCEPT ![w].st = "answered"]
             /\ UNCHANGED loop
       \/ /\ loop.pc = "progress"
          /\ loop' = [loop EXCEPT !.pc = IF kid[loop.on].st = "active" THEN "idle" ELSE "queried"]
          /\ UNCHANGED query
    /\ UNCHANGED <<cmds, kid, completed, cancelled, run, outcome, caller, buffer,
                   events, session, flow, told>>

\* process_deadlines, at the deadline of a foreground child: its caller gets
\* a handle and the child keeps running.
background_at_deadline(c) ==
    /\ ~Urgent /\ cmds = <<>>
    /\ Live(c) /\ kid[c].deadline
    /\ kid' = [Reaped EXCEPT ![c] = [@ EXCEPT !.reply = FALSE, !.handle_only = TRUE,
                                              !.deadline = FALSE]]
    /\ caller' = [caller EXCEPT ![c] = IF @ = "waiting" THEN "handed_off" ELSE @]
    /\ cancelled' = CancelAll({})
    /\ UNCHANGED <<cmds, completed, run, outcome, query, buffer, envVars, told>>

\* process_deadlines, at the deadline of a blocking query.
ExpireQuery(w) ==
    /\ ~Urgent /\ cmds = <<>>
    /\ query[w].st = "blocked"
    /\ query' = [query EXCEPT ![w].st = IF kid[query[w].on].st = "active" THEN "progress"
                                                                       ELSE "answered"]
    /\ kid' = Reaped /\ cancelled' = CancelAll({})
    /\ UNCHANGED <<cmds, cmdOnly, buffer, envVars>>

-----------------------------------------------------------------------------
HandleCommand ==
    \/ Spawn \/ handle_query \/ cancel_one \/ cancel_parent_prompt \/ cancel_workflow_children
    \/ Completions \/ TeardownSession \/ Outstanding \/ LoopQuery \/ LoopUnitActive

RunStep(c) == Start(c) \/ Report(c) \/ Stop(c)

Next ==
    \/ RequestChild \/ SessionAsks
    \/ CancelFlow \/ cancel_and_drain_children \/ DrainTimeout
    \/ remove_session \/ handle_evict_sessions \/ ResumeSession
    \/ LoopFire \/ AskUnit \/ LoopTimeout \/ LoopSpawn
    \/ HandleCommand \/ finish_progress
    \/ \E c \in Child :
          \/ DropCaller(c) \/ CancelToolCall(c) \/ ClearAnchor(c)
          \/ RunStep(c) \/ EndTurn(c) \/ Started(c) \/ finish_child(c)
          \/ background_at_deadline(c)
    \/ \E w \in Waiter : AskQuery(w) \/ DropQuery(w) \/ ExpireQuery(w)

Spec == Init /\ [][Next]_vars

\* The actor runs; a child that is cancelled, or not yet live, comes to an
\* end; a deadline passes, and the channel is not kept full for ever; the
\* host of a cancelled workflow drops its callers.  A live child that nobody
\* cancelled may run for ever.
Fairness ==
    /\ WF_vars(\E c \in Child : Started(c) \/ finish_child(c))
    /\ WF_vars(HandleCommand)
    /\ WF_vars(finish_progress)
    /\ WF_vars(\E c \in Child : RunStep(c))
    /\ WF_vars(\E c \in Child : is_workflow(c) /\ flow.cancel /\ DropCaller(c))
    /\ SF_vars(\E c \in Child : background_at_deadline(c))
    /\ SF_vars(\E w \in Waiter : ExpireQuery(w))

FairSpec == Spec /\ Fairness

-----------------------------------------------------------------------------
(* Properties *)

\* A completed child that was neither cancelled nor killed, nor asked for by
\* a workflow or another child, has been handed to someone who was there to
\* take it: the caller of finish_child's reply, a blocked query, or else the
\* host, which surfaces it; and it is surfaced only when nobody else had it,
\* however its caller's departure, its await budget and the queries interleaved.
CompletionHeard ==
    \A c \in Child :
        kid[c].st = "completed" =>
            /\ "surface" \in told[c].to => told[c].to = {"surface"}
            /\ kid[c].surface /\ ~kid[c].killed /\ outcome[c] # "cancelled" => told[c].to # {}

\* No child outlives a session that was torn down: once the teardown of a
\* life has been taken from the channel (TeardownSession), no child that
\* started in that life or an earlier one, and no nested child of such a
\* child, runs uncancelled.  Late requests of children and of turns that outlive
\* their session, a resume before the teardown, a promotion that races it and an
\* idle unload in between do not break this.  Of a session that was unloaded
\* (handle_evict_sessions) it says nothing until that session's next teardown.
NoOrphan ==
    \A c \in Child :
        kid[c].st = "active" /\ ~cancelled[c] => told[c].life > session.torn \/ Teardowns # {}

\* No summary of a life that was torn down is left in the buffer for the
\* session's resumption, once that life's teardown has been taken.  A request
\* sent after the teardown is of no life: the failure to start it is buffered.
NoStaleSummary ==
    \A i \in 1..Len(buffer) :
        InSession(buffer[i]) =>
            \/ told[buffer[i]].life = None \/ told[buffer[i]].life > session.torn
            \/ Teardowns # {}

\* "Sessions with live work stay resident" (agent_ops.rs, the comment on
\* handle_evict_sessions).  Not so of background children: see the README.
LiveWorkStaysResident ==
    \A c \in Child :
        kid[c].st = "active" /\ ~cancelled[c] => session.resident \/ Teardowns # {}

\* Iterations of a loop task do not overlap: while a child of one iteration is
\* live, no child of a later one is, unless the earlier iteration itself ended
\* in an error, which clears the anchor the check depends on.
LoopUnitsApart ==
    \A c, d \in Child :
        Live(c) /\ Live(d) /\ kid[c].unit # None /\ kid[d].unit # None
            => \/ kid[c].unit = kid[d].unit
               \/ \E u \in {kid[c].unit, kid[d].unit} : outcome[u] \in {"failed", "cancelled"}

\* Everyone who waits is answered, though a child may run for ever: the
\* caller of a foreground child (a result or, at the await budget, a handle),
\* a blocking query (at its own deadline), and the host that drains a
\* cancelled workflow, also when a request of that workflow came in late and
\* when its own timeout, which may end the wait, never passes.
CallsAnswered ==
    /\ \A c \in Child : kid[c].kind = "foreground" /\ caller[c] = "waiting" ~> caller[c] # "waiting"
    /\ \A w \in Waiter : query[w].st = "sent" ~> query[w].st \in {"answered", "gone"}
    /\ flow.drain = "sent" ~> flow.drain \in {"drained", "given_up"}
=============================================================================
