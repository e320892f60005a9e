-------------------------- MODULE CredentialRefresh --------------------------
(***************************************************************************)
(* The refresh of an OIDC credential by several tasks of several processes *)
(* that share auth.json (xai-mad-shell, auth/manager.rs, auth/refresh/,    *)
(* auth/manager/sleep_gate.rs, auth/manager/enrichment.rs, auth/flow.rs):  *)
(* refresh_chain under the in-process mutex and the lock of RefreshLock,   *)
(* the exchange at the identity provider, the verdict on a rejected token, *)
(* the gate that keeps an exchange out of a system suspend, logout, the    *)
(* background profile enrichment and the expired path of run_auth_flow.    *)
(*                                                                         *)
(* A credential is its generation: the access token and the refresh token  *)
(* the provider issued together; 0 stands for none.  Expiry is a set of    *)
(* generations.  The provider (external) rotates: a refresh token is good  *)
(* for one exchange and rejected as invalid_grant afterwards.              *)
(***************************************************************************)
EXTENDS Naturals, RefreshLock

CONSTANTS
    Task,          \* asynchronous activities
    Proc,          \* operating-system processes
    ProcOf,        \* the process a task runs in
    NoTask,        \* nobody holds the mutex
    MaxGen,        \* bound on the generations the provider issues
    MaxTransient,  \* MAX_CONSECUTIVE_TRANSIENT_FAILURES
    Events         \* the events of the environment an instance includes

\* A task uses the lock for its own activity, and run_auth_flow also around auth().
Own(t) == <<t, "own">>
Outer(t) == <<t, "outer">>

ASSUME RefreshAssumption ==
    /\ ProcOf \in [Task -> Proc] /\ NoTask \notin Task
    /\ MaxGen \in Nat \ {0} /\ MaxTransient \in Nat \ {0}
    /\ Handle = Task \X {"own", "outer"}
    /\ MayBreak = ("break" \in Events)

VARIABLES
    disk,      \* the credential in auth.json
    mem,       \* process -> AuthManager.inner
    expired,   \* generations whose access token is past its early expiry
    verdict,   \* process -> AuthManager.permanent_failure
    budget,    \* process -> OidcRefresher.transient_budget
    mutex,     \* process -> the task that holds refresh_lock
    ch,        \* task -> its activity: pc, reason, and what it carries
    enrich,    \* profile enrichments spawned and not yet run
    power,     \* process -> the sleep gate, and whether the sleep was acknowledged
    inflight,  \* process -> AuthManager.refresh_in_flight
    spent,     \* generations whose refresh token was exchanged
    issued,    \* the newest generation the provider issued
    hist       \* what happened, for the properties

dataVars == <<disk, mem, expired, verdict>>
sleepVars == <<power, inflight>>
idpVars == <<spent, issued>>
vars == <<guard, dataVars, budget, sleepVars, idpVars, mutex, ch, enrich, hist>>

Gen == 1..MaxGen
NoVerdict == [key |-> 0, sticky |-> FALSE, aged |-> FALSE]
Rest == [pc |-> "idle", reason |-> "PreRequest", pre |-> 0, cred |-> 0,
         retried |-> FALSE, discard |-> {}, flow |-> 0]

PC == {"idle", "mutex", "lock", "revalidate", "relock", "claim", "gate",
       "exchange", "granted", "rejected", "failed", "refused", "apply", "denied",
       "clear",
       "logout", "enrich", "enrich_write", "flow"}
Reason == {"PreRequest", "ServerRejected"}

P(t) == ProcOf[t]

\* Type correctness of the whole state.
TypeOK ==
    /\ GuardTypeOK
    /\ disk \in 0..MaxGen
    /\ mem \in [Proc -> 0..MaxGen]
    /\ expired \subseteq Gen /\ spent \subseteq Gen /\ issued \in Gen
    /\ verdict \in [Proc -> [key : 0..MaxGen, sticky : BOOLEAN, aged : BOOLEAN]]
    /\ budget \in [Proc -> [key : 0..MaxGen, count : 0..MaxTransient]]
    /\ mutex \in [Proc -> Task \cup {NoTask}]
    /\ ch \in [Task -> [pc : PC, reason : Reason, pre : 0..MaxGen,
                        cred : 0..MaxGen, retried : BOOLEAN,
                        discard : SUBSET {"mem", "disk"}, flow : 0..MaxGen]]
    /\ enrich \subseteq [proc : Proc, gen : Gen]
    /\ power \in [Proc -> {"awake", "raised", "acked"}]
    /\ inflight \in [Proc -> {0, 1}]
    /\ hist \in [rejected : [Proc -> SUBSET Gen], lost : SUBSET Gen, unguarded : BOOLEAN]

Init ==
    /\ LockInit
    /\ disk = 1 /\ mem = [p \in Proc |-> 1]
    /\ expired = {} /\ spent = {} /\ issued = 1
    /\ verdict = [p \in Proc |-> NoVerdict]
    /\ budget = [p \in Proc |-> [key |-> 0, count |-> 0]]
    /\ mutex = [p \in Proc |-> NoTask]
    /\ ch = [t \in Task |-> Rest]
    /\ enrich = {}
    /\ power = [p \in Proc |-> "awake"]
    /\ inflight = [p \in Proc |-> 0]
    /\ hist = [rejected |-> [p \in Proc |-> {}], lost |-> {}, unguarded |-> FALSE]

-----------------------------------------------------------------------------
(***************************************************************************)
(* Reading the credential.                                                 *)
(***************************************************************************)
Usable(g) == g # 0 /\ g \notin expired
current(p) == IF Usable(mem[p]) THEN mem[p] ELSE 0
expired_auth(p) == IF mem[p] \in expired THEN mem[p] ELSE 0

\* The credential a refresh would send: disk first, then the expired one in
\* memory, then (after a 401) the current one.
resolve_refresh_credential(p, reason) ==
    CASE disk # 0 -> disk
      [] disk = 0 /\ expired_auth(p) # 0 -> expired_auth(p)
      [] OTHER -> IF reason = "ServerRejected" THEN current(p) ELSE 0

\* permanent_failure(): a verdict counts for the credential a refresh would
\* send, and a sticky one also when there is none; others age out.
permanent_failure(p) ==
    LET v == verdict[p]
        k == resolve_refresh_credential(p, "ServerRejected")
    IN  /\ v.key # 0
        /\ v.sticky \/ ~v.aged
        /\ IF k # 0 THEN k = v.key ELSE v.sticky

\* is_sleep_gated
gated(p) == power[p] # "awake"

\* try_use_disk_token: a live token on disk, after a 401 only another one.
Adoptable(p, reason) ==
    /\ Usable(disk)
    /\ reason = "ServerRejected" => disk # mem[p]

\* hot_swap of a live token: memory replaced, the verdict dropped.
Adopt(p) ==
    /\ mem' = [mem EXCEPT ![p] = disk]
    /\ verdict' = [verdict EXCEPT ![p] = NoVerdict]
    /\ UNCHANGED <<disk, expired>>

\* try_lock_auth_file_async returned a guard, still live or not.
Holds(h) == guard[h] \in {"live", "broken"}

\* refresh_token_superseded: disk holds another refresh token than the one spent.
refresh_token_superseded(g) == disk # 0 /\ disk # g

-----------------------------------------------------------------------------
(***************************************************************************)
(* The frame of a refresh_chain.                                           *)
(***************************************************************************)
\* A chain returns: the file lock, the caller's outer lock and the mutex go.
Finish(t) ==
    /\ ch' = [ch EXCEPT ![t] = Rest]
    /\ mutex' = IF mutex[P(t)] = t THEN [mutex EXCEPT ![P(t)] = NoTask] ELSE mutex
    /\ Drop({Own(t), Outer(t)})

\* A chain that run_auth_flow called fails with a transient error: the flow
\* swaps in the credential it read from disk before.
FinishTransient(t) ==
    /\ Finish(t)
    /\ \/ /\ ch[t].flow # 0
          /\ mem' = [mem EXCEPT ![P(t)] = ch[t].flow]
          /\ verdict' \in {verdict, [verdict EXCEPT ![P(t)] = NoVerdict]}
          /\ UNCHANGED <<disk, expired>>
       \/ ch[t].flow = 0 /\ UNCHANGED dataVars

FinishAdopt(t) == Adopt(P(t)) /\ Finish(t)

Move(t, pc) == ch' = [ch EXCEPT ![t].pc = pc]

-----------------------------------------------------------------------------
(***************************************************************************)
(* refresh_chain, step by step.                                            *)
(***************************************************************************)
\* Step 0: auth() finds the token expired, or a server has rejected it, which some
\* callers claim also without a credential in memory (subscription_check).  With
\* a verdict in force the caller gets the sibling's token or the error.
Begin(t, reason) ==
    /\ ch[t].pc = "idle"
    /\ reason = "PreRequest" => mem[P(t)] # 0 /\ current(P(t)) = 0
    /\ ~permanent_failure(P(t))
    /\ ch' = [ch EXCEPT ![t] = [Rest EXCEPT !.pc = "mutex", !.reason = reason,
                                            !.pre = current(P(t))]]
    /\ UNCHANGED <<guard, dataVars, budget, sleepVars, idpVars, mutex, enrich, hist>>

AdoptDespiteVerdict(t, reason) ==
    /\ ch[t].pc = "idle"
    /\ reason = "PreRequest" => current(P(t)) = 0
    /\ permanent_failure(P(t)) /\ Adoptable(P(t), reason)
    /\ Adopt(P(t))
    /\ UNCHANGED <<guard, budget, sleepVars, idpVars, mutex, ch, enrich, hist>>

\* Step 1 under refresh_lock: somebody refreshed meanwhile?
AlreadyRefreshed(t) ==
    /\ current(P(t)) # 0
    /\ ch[t].reason = "ServerRejected" => ch[t].pre # current(P(t))

TakeMutexAnyway(t) ==
    /\ ch[t].pc = "mutex" /\ ~AlreadyRefreshed(t) /\ ~permanent_failure(P(t))
    /\ mutex' = [mutex EXCEPT ![P(t)] = t]
    /\ ch' = [ch EXCEPT ![t].pc = "lock", ![t].pre = 0]
    /\ Lock(Own(t))
    /\ UNCHANGED <<dataVars, budget, sleepVars, idpVars, enrich, hist>>

\* Steps 1, 1b and the start of 2.
TakeMutex(t) ==
    /\ ch[t].pc = "mutex" /\ mutex[P(t)] = NoTask
    /\ \/ (AlreadyRefreshed(t) \/ permanent_failure(P(t))) /\ Finish(t)
       \/ /\ ~AlreadyRefreshed(t) /\ ~permanent_failure(P(t))
          /\ mutex' = [mutex EXCEPT ![P(t)] = t]
          /\ ch' = [ch EXCEPT ![t].pc = "lock", ![t].pre = 0]
          /\ Lock(Own(t))
    /\ UNCHANGED <<dataVars, budget, sleepVars, idpVars, enrich, hist>>

\* Step 2 without the lock: adopt what a sibling wrote, else give up; never go
\* on unguarded.
LockTimedOutGoesOn(t) ==
    guard[Own(t)] = "denied" /\ Move(t, "claim") /\ UNCHANGED <<guard, dataVars, mutex>>

LockTimedOut(t) ==
    /\ guard[Own(t)] = "denied"
    /\ IF Adoptable(P(t), ch[t].reason) THEN FinishAdopt(t) ELSE FinishTransient(t)

\* Steps 2, with the lock, and 3a: the gate, or a dark wake, defers the refresh.
AfterLock(t) ==
    /\ ch[t].pc = "lock"
    /\ \/ LockTimedOut(t)
       \/ /\ Holds(Own(t)) /\ Adoptable(P(t), ch[t].reason) /\ FinishAdopt(t)
       \/ /\ Holds(Own(t)) /\ ~Adoptable(P(t), ch[t].reason)
          /\ gated(P(t)) \/ "dark" \in Events
          /\ FinishTransient(t)
       \/ /\ Holds(Own(t)) /\ ~Adoptable(P(t), ch[t].reason) /\ ~gated(P(t))
          /\ Move(t, "revalidate") /\ UNCHANGED <<guard, dataVars, mutex>>
    /\ UNCHANGED <<budget, sleepVars, idpVars, enrich, hist>>

\* Step 3b: a lock that was broken under us is taken again.
Revalidate(t) ==
    /\ ch[t].pc = "revalidate"
    /\ \/ guard[Own(t)] = "live" /\ Move(t, "claim") /\ UNCHANGED guard
       \/ guard[Own(t)] = "broken" /\ Move(t, "relock") /\ Put(Own(t), "waits")
    /\ UNCHANGED <<dataVars, budget, sleepVars, idpVars, mutex, enrich, hist>>

AfterRelock(t) ==
    /\ ch[t].pc = "relock"
    /\ \/ guard[Own(t)] = "denied" /\ FinishTransient(t)
       \/ /\ Holds(Own(t))
          /\ IF Adoptable(P(t), ch[t].reason)
               THEN FinishAdopt(t)
               ELSE Move(t, "claim") /\ UNCHANGED <<guard, dataVars, mutex>>
    /\ UNCHANGED <<budget, sleepVars, idpVars, enrich, hist>>

\* Step 3c: the slot is claimed first ...
ClaimNothing(t) ==
    /\ ch[t].pc = "claim" /\ Move(t, "gate")
    /\ UNCHANGED <<guard, dataVars, budget, sleepVars, idpVars, mutex, enrich, hist>>

ClaimSlot(t) ==
    /\ ch[t].pc = "claim"
    /\ inflight' = [inflight EXCEPT ![P(t)] = @ + 1]
    /\ Move(t, "gate")
    /\ UNCHANGED <<guard, dataVars, budget, power, idpVars, mutex, enrich, hist>>

DropSlot(t) ==
    /\ inflight' = [inflight EXCEPT ![P(t)] = @ - 1]
    /\ UNCHANGED power

\* ... then the gate is read again and OidcRefresher::refresh begins: a sibling's
\* live token on disk is taken as the result, else the resolved credential is sent.
FullBudget(p) == budget' = [budget EXCEPT ![p] = [key |-> 0, count |-> 0]]

RefreshUngated(t) ==
    LET cred == resolve_refresh_credential(P(t), ch[t].reason) IN
    /\ ch[t].pc = "gate" /\ cred # 0
    /\ ch' = [ch EXCEPT ![t].pc = "exchange", ![t].cred = cred]
    /\ UNCHANGED <<guard, dataVars, budget, sleepVars, mutex, idpVars, enrich, hist>>

Refresh(t) ==
    LET sibling == Usable(disk) /\ current(P(t)) # disk
        cred == resolve_refresh_credential(P(t), ch[t].reason)
    IN
    /\ ch[t].pc = "gate"
    /\ \/ /\ gated(P(t)) \/ (~sibling /\ cred = 0)
          /\ FinishTransient(t) /\ DropSlot(t) /\ UNCHANGED budget
       \/ /\ ~gated(P(t)) /\ sibling
          /\ ch' = [ch EXCEPT ![t].pc = "apply", ![t].cred = disk]
          /\ FullBudget(P(t)) /\ DropSlot(t)
          /\ UNCHANGED <<guard, dataVars, mutex>>
       \/ /\ ~gated(P(t)) /\ ~sibling /\ cred # 0
          /\ ch' = [ch EXCEPT ![t].pc = "exchange", ![t].cred = cred]
          /\ UNCHANGED <<guard, dataVars, budget, sleepVars, mutex>>
    /\ UNCHANGED <<idpVars, enrich, hist>>

-----------------------------------------------------------------------------
(***************************************************************************)
(* The identity provider (external) and oidc_token_exchange.               *)
(***************************************************************************)
\* The provider rotates an unspent token, and the answer may be lost on the way
\* back: the request fails, or refresh_tokens posts the token again and is told that
\* it is spent.  "failed" stands for every non-terminal error.
IdpAnswer(t) ==
    /\ ch[t].pc = "exchange"
    /\ \/ ch[t].cred \in spent /\ Move(t, "rejected") /\ UNCHANGED <<idpVars, hist>>
       \/ /\ ch[t].cred \notin spent /\ issued < MaxGen
          /\ spent' = spent \cup {ch[t].cred} /\ issued' = issued + 1
          /\ \/ ch' = [ch EXCEPT ![t].pc = "granted", ![t].cred = issued + 1] /\ UNCHANGED hist
             \/ /\ "lost" \in Events /\ \E end \in {"failed", "rejected"} : Move(t, end)
                /\ hist' = [hist EXCEPT !.lost = @ \cup {issued + 1}]
       \/ /\ "failed" \in Events \/ issued = MaxGen
          /\ Move(t, "failed") /\ UNCHANGED <<idpVars, hist>>
       \/ "refused" \in Events /\ Move(t, "refused") /\ UNCHANGED <<idpVars, hist>>
    /\ UNCHANGED <<guard, dataVars, budget, sleepVars, mutex, enrich>>

ReceiveGrant(t) ==
    /\ ch[t].pc = "granted"
    /\ Move(t, "apply") /\ FullBudget(P(t)) /\ DropSlot(t)
    /\ UNCHANGED <<guard, dataVars, idpVars, mutex, enrich, hist>>

\* invalid_grant and retry_with_fresh_disk_token: a sibling's live token is the
\* result, a sibling's other refresh token is tried once.
ReceiveRejected(t) ==
    LET tried == ch[t].cred IN
    /\ ch[t].pc = "rejected"
    /\ hist' = [hist EXCEPT !.rejected[P(t)] = @ \cup {tried}]
    /\ \/ /\ ~ch[t].retried /\ Usable(disk) /\ disk # tried
          /\ ch' = [ch EXCEPT ![t].pc = "apply", ![t].cred = disk]
          /\ FullBudget(P(t)) /\ DropSlot(t)
       \/ /\ ~ch[t].retried /\ ~Usable(disk) /\ refresh_token_superseded(tried)
          /\ ch' = [ch EXCEPT ![t].pc = "exchange", ![t].cred = disk, ![t].retried = TRUE]
          /\ UNCHANGED <<budget, sleepVars>>
       \/ /\ ch[t].retried \/ ~refresh_token_superseded(tried)
          /\ Move(t, "denied") /\ DropSlot(t) /\ UNCHANGED budget
    /\ UNCHANGED <<guard, dataVars, idpVars, mutex, enrich>>

\* A verdict that keeps the credentials and ages out (Other, ClientRejected),
\* unless a sibling's token is adopted instead.
RetainAndFail(t) ==
    /\ \/ Adoptable(P(t), ch[t].reason) /\ Adopt(P(t))
       \/ /\ ~Adoptable(P(t), ch[t].reason)
          /\ verdict' = [verdict EXCEPT ![P(t)] =
                           [key |-> ch[t].cred, sticky |-> FALSE, aged |-> FALSE]]
          /\ UNCHANGED <<disk, mem, expired>>
    /\ Finish(t)

ReceiveRefused(t) ==
    /\ ch[t].pc = "refused"
    /\ RetainAndFail(t) /\ DropSlot(t)
    /\ UNCHANGED <<budget, idpVars, enrich, hist>>

\* record_transient_failure: blips are counted per credential and the last of
\* the budget escalates and leaves an empty count, whose key (the code keeps it) no
\* longer matters.  The one-shot retry does not count.
Blips(t) == IF budget[P(t)].key = ch[t].cred THEN budget[P(t)].count + 1 ELSE 1
Charge(t) == budget' = [budget EXCEPT ![P(t)] = [key |-> ch[t].cred, count |-> Blips(t)]]

ReceiveFailed(t) ==
    /\ ch[t].pc = "failed" /\ DropSlot(t)
    /\ \/ ch[t].retried /\ FinishTransient(t) /\ UNCHANGED budget
       \/ ~ch[t].retried /\ Blips(t) < MaxTransient /\ Charge(t) /\ FinishTransient(t)
       \/ ~ch[t].retried /\ Blips(t) >= MaxTransient /\ FullBudget(P(t)) /\ RetainAndFail(t)
    /\ UNCHANGED <<idpVars, enrich, hist>>

-----------------------------------------------------------------------------
(***************************************************************************)
(* apply_refresh_outcome.                                                  *)
(***************************************************************************)
\* Does write_auth_json succeed?
Written == {TRUE} \cup {ok \in {FALSE} : "write_fails" \in Events}

ApplyToMemory(t) ==
    /\ ch[t].pc = "apply"
    /\ Finish(t)
    /\ mem' = [mem EXCEPT ![P(t)] = ch[t].cred]
    /\ verdict' = [verdict EXCEPT ![P(t)] = NoVerdict]
    /\ UNCHANGED <<disk, expired, enrich, budget, sleepVars, idpVars, hist>>

\* update(): disk, then memory even when the write failed, the verdict dropped;
\* an unreadable file is left alone.  The enrichment is spawned in every case.
Apply(t) ==
    LET new == ch[t].cred IN
    /\ ch[t].pc = "apply"
    /\ Finish(t)
    /\ \/ \E ok \in Written :
            /\ disk' = IF ok THEN new ELSE disk
            /\ mem' = [mem EXCEPT ![P(t)] = IF ~ok /\ ch[t].flow # 0 THEN ch[t].flow ELSE new]
            /\ verdict' = [verdict EXCEPT ![P(t)] = NoVerdict]
       \/ /\ "read_fails" \in Events /\ UNCHANGED <<disk, verdict>>
          /\ mem' = [mem EXCEPT ![P(t)] = new]
    /\ enrich' = IF "enrich" \in Events
                   THEN enrich \cup {[proc |-> P(t), gen |-> new]} ELSE enrich
    /\ UNCHANGED <<expired, budget, sleepVars, idpVars, hist>>

DiscardedMem(t) == {"mem"}

\* What a genuine rejection discards: the side that held the rejected token.
Discarded(t) ==
    LET hit == {s \in {"mem", "disk"} :
                  IF s = "mem" THEN mem[P(t)] = ch[t].cred ELSE disk = ch[t].cred}
    IN  IF hit = {} THEN {"mem", "disk"} ELSE hit

\* RefreshTokenRejected: adopt a sibling's live token; or see that a sibling
\* rotated and call it transient; or record the sticky verdict and discard.
ApplyRejected(t) ==
    /\ ch[t].pc = "denied"
    /\ \/ Adoptable(P(t), ch[t].reason) /\ FinishAdopt(t)
       \/ /\ ~Adoptable(P(t), ch[t].reason) /\ refresh_token_superseded(ch[t].cred)
          /\ FinishTransient(t)
       \/ /\ ~Adoptable(P(t), ch[t].reason) /\ ~refresh_token_superseded(ch[t].cred)
          /\ verdict' = [verdict EXCEPT ![P(t)] =
                           [key |-> ch[t].cred, sticky |-> TRUE, aged |-> FALSE]]
          /\ ch' = [ch EXCEPT ![t].pc = "clear", ![t].discard = Discarded(t)]
          /\ UNCHANGED <<guard, disk, mem, expired, mutex>>
    /\ UNCHANGED <<budget, sleepVars, idpVars, enrich, hist>>

\* write_scope_removal removes whatever the file holds by now; then memory.
Clear(t) ==
    /\ ch[t].pc = "clear"
    /\ \E ok \in Written : disk' = IF ok /\ "disk" \in ch[t].discard THEN 0 ELSE disk
    /\ mem' = IF "mem" \in ch[t].discard THEN [mem EXCEPT ![P(t)] = 0] ELSE mem
    /\ Finish(t)
    /\ UNCHANGED <<expired, verdict, budget, sleepVars, idpVars, enrich, hist>>

-----------------------------------------------------------------------------
(***************************************************************************)
(* The other users of the credential and of the lock.                      *)
(***************************************************************************)
\* remove_scope: one non-blocking attempt at the lock, no mutex.
BeginLogout(t) ==
    /\ "logout" \in Events /\ ch[t].pc = "idle" /\ mem[P(t)] # 0
    /\ Move(t, "logout") /\ TryLock(Own(t))
    /\ UNCHANGED <<dataVars, budget, sleepVars, idpVars, mutex, enrich, hist>>

\* Without the lock the file keeps its entry and memory is cleared anyway; a write
\* that fails returns before memory is touched.
Logout(t) ==
    /\ ch[t].pc = "logout" /\ Answered(Own(t))
    /\ \E ok \in Written :
         IF Holds(Own(t)) /\ ~ok
           THEN UNCHANGED <<disk, mem, verdict>>
           ELSE /\ disk' = IF Holds(Own(t)) THEN 0 ELSE disk
                /\ mem' = [mem EXCEPT ![P(t)] = 0]
                /\ verdict' = [verdict EXCEPT ![P(t)] = NoVerdict]
    /\ hist' = [hist EXCEPT !.unguarded = TRUE]
    /\ Finish(t)
    /\ UNCHANGED <<expired, budget, sleepVars, idpVars, enrich>>

\* run_user_info_enrichment: the profile of the credential written earlier is
\* merged into the file under the lock, or without it when the wait timed out.
BeginEnrich(t) ==
    /\ ch[t].pc = "idle"
    /\ \E e \in enrich :
         /\ e.proc = P(t)
         /\ enrich' = enrich \ {e}
         /\ ch' = [ch EXCEPT ![t].pc = "enrich", ![t].cred = e.gen]
    /\ Lock(Own(t))
    /\ UNCHANGED <<dataVars, budget, sleepVars, idpVars, mutex, hist>>

EnrichRead(t) ==
    /\ ch[t].pc = "enrich" /\ Answered(Own(t))
    /\ \/ /\ disk = ch[t].cred
          /\ Move(t, "enrich_write") /\ UNCHANGED <<guard, mutex>>
       \/ disk # ch[t].cred /\ Finish(t)
    /\ UNCHANGED <<dataVars, budget, sleepVars, idpVars, enrich, hist>>

EnrichWrite(t) ==
    /\ ch[t].pc = "enrich_write"
    /\ \E ok \in Written :
         /\ disk' = IF ok THEN ch[t].cred ELSE disk
         /\ mem' = IF ok THEN [mem EXCEPT ![P(t)] = ch[t].cred] ELSE mem
    /\ hist' = [hist EXCEPT !.unguarded = @ \/ ~Holds(Own(t))]
    /\ Finish(t)
    /\ UNCHANGED <<expired, verdict, budget, sleepVars, idpVars, enrich>>

\* run_auth_flow with an expired token: it takes the lock itself ...
BeginFlow(t) ==
    /\ "flow" \in Events /\ ch[t].pc = "idle" /\ mem[P(t)] \in expired
    /\ Move(t, "flow") /\ Lock(Outer(t))
    /\ UNCHANGED <<dataVars, budget, sleepVars, idpVars, mutex, enrich, hist>>

\* ... uses a live token on disk, and otherwise calls auth() with the lock held.
FlowLocked(t) ==
    /\ ch[t].pc = "flow" /\ Answered(Outer(t))
    /\ \/ Usable(disk) /\ FinishAdopt(t)
       \/ /\ ~Usable(disk)
          /\ mem[P(t)] \notin expired \/ permanent_failure(P(t))
          /\ Finish(t) /\ UNCHANGED dataVars
       \/ /\ ~Usable(disk) /\ mem[P(t)] \in expired /\ ~permanent_failure(P(t))
          /\ ch' = [ch EXCEPT ![t] = [Rest EXCEPT !.pc = "mutex", !.flow = disk]]
          /\ UNCHANGED <<guard, dataVars, mutex>>
    /\ UNCHANGED <<budget, sleepVars, idpVars, enrich, hist>>

\* force_reload_from_disk, and pick_up_sibling_token for a live token: the entry
\* replaces memory; a missing entry is a logout.  (A missing file changes nothing
\* unless the token is known to be dead.)
Reload(p) ==
    /\ "reload" \in Events
    /\ \/ disk # 0 /\ mem' = [mem EXCEPT ![p] = disk] /\ UNCHANGED verdict
       \/ /\ disk = 0
          /\ mem' = [mem EXCEPT ![p] = 0]
          /\ verdict' = [verdict EXCEPT ![p] = NoVerdict]
    /\ UNCHANGED <<guard, disk, expired, budget, sleepVars, idpVars, mutex, ch,
                   enrich, hist>>

-----------------------------------------------------------------------------
(***************************************************************************)
(* Suspend: the power listener of each process, and time.                  *)
(***************************************************************************)
\* set_system_sleep_imminent(true): raise the gate ...
WillSleep(p) ==
    /\ "sleep" \in Events /\ power[p] = "awake"
    /\ power' = [power EXCEPT ![p] = "raised"]
    /\ UNCHANGED <<guard, dataVars, budget, idpVars, mutex, ch, enrich, inflight, hist>>

\* ... and acknowledge once the exchange in flight has drained.
HoldAck(p) ==
    /\ power[p] = "raised" /\ inflight[p] = 0
    /\ power' = [power EXCEPT ![p] = "acked"]
    /\ UNCHANGED <<guard, dataVars, budget, idpVars, mutex, ch, enrich, inflight, hist>>

\* The wake event, or SLEEP_GATE_MAX after a missed one, lowers the gate, also when
\* the system slept without the acknowledgement, after SLEEP_ACK_MAX_WAIT.
DidWake(p) ==
    /\ power[p] # "awake"
    /\ power' = [power EXCEPT ![p] = "awake"]
    /\ UNCHANGED <<guard, dataVars, budget, idpVars, mutex, ch, enrich, inflight, hist>>

\* An access token comes within the early-invalidation margin of its expiry.
Expire(g) ==
    /\ g <= issued /\ g \notin expired
    /\ expired' = expired \cup {g}
    /\ UNCHANGED <<guard, disk, mem, verdict, budget, sleepVars, idpVars, mutex, ch,
                   enrich, hist>>

\* PERMANENT_FAILURE_TTL passes.
VerdictAges(p) ==
    /\ verdict[p].key # 0 /\ ~verdict[p].sticky /\ ~verdict[p].aged
    /\ verdict' = [verdict EXCEPT ![p].aged = TRUE]
    /\ UNCHANGED <<guard, disk, mem, expired, budget, sleepVars, idpVars, mutex, ch,
                   enrich, hist>>

\* The lock answers a request of a task.
LockAnswers(t) ==
    /\ \E h \in {Own(t), Outer(t)} : Grant(h) \/ GrantUnlinked(h) \/ Deny(h)
    /\ UNCHANGED <<dataVars, budget, sleepVars, idpVars, mutex, ch, enrich, hist>>

\* A waiter of some process breaks the lock of a holder.
LockBreaks ==
    /\ \E h \in Handle : Break(h)
    /\ UNCHANGED <<dataVars, budget, sleepVars, idpVars, mutex, ch, enrich, hist>>

TaskStep(t) ==
    \/ LockAnswers(t) \/ TakeMutex(t) \/ AfterLock(t) \/ Revalidate(t) \/ AfterRelock(t)
    \/ ClaimSlot(t) \/ Refresh(t) \/ IdpAnswer(t) \/ ReceiveGrant(t) \/ ReceiveRejected(t)
    \/ ReceiveRefused(t) \/ ReceiveFailed(t) \/ Apply(t) \/ ApplyRejected(t) \/ Clear(t)
    \/ Logout(t) \/ EnrichRead(t) \/ EnrichWrite(t) \/ FlowLocked(t)

Next ==
    \/ \E t \in Task :
         \/ TaskStep(t)
         \/ \E r \in Reason : Begin(t, r) \/ AdoptDespiteVerdict(t, r)
         \/ BeginLogout(t) \/ BeginEnrich(t) \/ BeginFlow(t)
    \/ LockBreaks
    \/ \E p \in Proc : Reload(p) \/ WillSleep(p) \/ HoldAck(p) \/ DidWake(p)
                         \/ VerdictAges(p)
    \/ \E g \in Gen : Expire(g)

Spec == Init /\ [][Next]_vars

\* The runtime polls every task, the provider answers or the request times out, the
\* lock answers by its deadline, and tokio's mutex is first come, first served.
Fairness == \A t \in Task : WF_vars(TaskStep(t)) /\ SF_vars(TakeMutex(t))

FairSpec == Spec /\ Fairness

-----------------------------------------------------------------------------
(***************************************************************************)
(* Properties.                                                             *)
(***************************************************************************)
\* From the request of oidc_token_exchange until its answer is handled.
Exchanging(t) == ch[t].pc \in {"exchange", "granted", "rejected", "failed", "refused"}

\* "Only one participant ever spends a given refresh token": as long as no lock
\* is broken across processes, no two refresh_chains of any processes are at the
\* provider together, since a rotated token presented twice revokes the family.
OneSpender ==
    \A t, u \in Task : t # u => ~(Exchanging(t) /\ Exchanging(u))

\* Once hold_sleep_ack has let the system suspend because nothing was in flight,
\* no exchange of that process is or gets under way until it wakes, whichever
\* way ClaimSlot, the gate and the power listener interleave.
NoExchangeIntoSuspend ==
    \A p \in Proc : power[p] = "acked" => \A t \in Task : P(t) = p => ~Exchanging(t)

InHand == {ch[t].cred : t \in {u \in Task : ch[u].pc \in {"granted", "apply"}}}
Held == {disk} \cup {mem[p] : p \in Proc} \cup InHand

\* A refresh token the provider issued, that reached a process and was not
\* exchanged yet, is never thrown away while nobody logs out and no enrichment
\* writes without the lock: not by the rejection of its predecessor in a slower
\* process, not by adopting what is on disk.  It takes an auth.json that can be
\* written and read and a lock that no waiter breaks.
SuccessorRetained ==
    \A g \in Gen : g <= issued /\ g \notin spent \cup hist.lost /\ ~hist.unguarded => g \in Held

\* A process that was told invalid_grant for a token never sends it again while
\* nobody logs out and no enrichment writes without the lock: the sticky verdict,
\* the discarded copies and the adoption rules together leave no way back to it
\* but the expired path of run_auth_flow, which may swap a credential back in
\* that it remembered before a sibling task had it rejected.
NoRetryOfRejected ==
    \A t \in Task :
      ch[t].pc = "exchange" /\ ~hist.unguarded => ch[t].cred \notin hist.rejected[P(t)]

\* Every refresh, logout, enrichment and login flow comes to an end, also the
\* flow that calls auth() while it holds the very lock refresh_chain waits for.
ActivityEnds ==
    \A t \in Task : ch[t].pc # "idle" ~> ch[t].pc = "idle"
=============================================================================
