----------------------------- MODULE Relocation -----------------------------
(***************************************************************************)
(* Relocation of one dormant session directory from one working directory  *)
(* to another (session/storage/relocation).  The lease holder runs one     *)
(* operation at a time: stage_and_publish, mark_ready_and_commit,          *)
(* rollback, recover or finalize_terminal; every file-system effect, every *)
(* fsync barrier and every failure of either is a step.  A process crash   *)
(* keeps what the kernel has; a power failure keeps, for each directory,   *)
(* some state it had since its last successful fsync.                      *)
(***************************************************************************)
EXTENDS Naturals, FiniteSets

CONSTANTS
    Cwds,       \* working directories a session can live under
    NoCwd,      \* the previous_cwd of a session that was never moved
    RetryCommits, \* whether a caller may commit what it failed to roll back
    MaxNonce    \* bound: relocations started

ASSUME RelocationAssumption ==
    /\ IsFiniteSet(Cwds) /\ NoCwd \notin Cwds
    /\ RetryCommits \in BOOLEAN
    /\ MaxNonce \in Nat

VARIABLES
    main,       \* sessions/<cwd>/<id>, per cwd
    staging,    \* sessions/<cwd>/.<id>.relocating-<nonce>, per cwd
    journal,    \* the journal file as the kernel sees it
    mayMain,    \* per cwd: <<main, staging>> pairs a power failure may leave
    mayJournal, \* journals a power failure may leave
    pc,         \* where the lease holder is
    mem,        \* its in-memory RelocationJournal
    txn,        \* the StagedRelocation it holds
    proof,      \* the TerminalRelocation it holds
    nonce       \* relocations started

disk == <<main, staging, journal, mayMain, mayJournal>>
holder == <<pc, mem, txn, proof, nonce>>
vars == <<disk, holder>>

-----------------------------------------------------------------------------
(* What a path can hold.  A "partial" directory has no readable summary.   *)

Absent  == [kind |-> "absent"]
Partial == [kind |-> "partial"]
Foreign == [kind |-> "foreign"]   \* someone else's directory, or what is left of it
Session(cwd, gen, prev, whole) ==
    [kind |-> "session", cwd |-> cwd, gen |-> gen, prev |-> prev, whole |-> whole]

NoJournal == [phase |-> "None"]
None == 0
Phases == {"Prepared", "Staged", "TargetPublished", "Ready", "Committed", "RolledBack"}
has_target_authority(phase) == phase \in {"Ready", "Committed"}
Authority(j) == IF has_target_authority(j.phase) THEN j.tgt ELSE j.src

\* The file system an operation acts on, and the barriers it issues.
SetPath(c, m, s) ==
    /\ main' = [main EXCEPT ![c] = m]
    /\ staging' = [staging EXCEPT ![c] = s]
    /\ mayMain' = [mayMain EXCEPT ![c] = @ \cup {<<m, s>>}]
SetPathDurably(c, m, s) ==
    /\ main' = [main EXCEPT ![c] = m]
    /\ staging' = [staging EXCEPT ![c] = s]
    /\ mayMain' = [mayMain EXCEPT ![c] = {<<m, s>>}]
SyncParent(c) == mayMain' = [mayMain EXCEPT ![c] = {<<main[c], staging[c]>>}]
SyncNamespace == mayJournal' = {journal}

-----------------------------------------------------------------------------
(* validate_source_summary and validate_target                             *)

SourceValid(j) ==
    /\ main[j.src].kind = "session"
    /\ main[j.src].cwd = j.src
    /\ main[j.src].gen + 1 = j.gen

TargetValid(j) ==
    /\ main[j.tgt].kind = "session"
    /\ main[j.tgt].cwd = j.tgt
    /\ main[j.tgt].gen = j.gen
    /\ main[j.tgt].prev = j.src

-----------------------------------------------------------------------------
Init ==
    \E c \in Cwds :
        LET home == Session(c, 0, NoCwd, TRUE) IN
        /\ main = [d \in Cwds |-> IF d = c THEN home ELSE Absent]
        /\ staging = [d \in Cwds |-> Absent]
        /\ mayMain = [d \in Cwds |-> {<<IF d = c THEN home ELSE Absent, Absent>>}]
        /\ journal = NoJournal /\ mayJournal = {NoJournal}
        /\ pc = "free" /\ mem = NoJournal /\ txn = None /\ proof = NoJournal
        /\ nonce = 0

At(l) == pc = l
Goto(l) == pc' = l

\* An operation returns to the caller, with an error or without.
Return ==
    /\ pc' = "held"
    /\ mem' = NoJournal
Fail == Return /\ UNCHANGED <<txn, proof, nonce>>
Step(l) == Goto(l) /\ UNCHANGED <<mem, txn, proof, nonce>>

Acquire ==
    /\ At("free")
    /\ Step("held")
    /\ UNCHANGED disk

\* Mutant: the transaction outlives the lease.
ReleaseKeepsTransaction ==
    /\ At("held")
    /\ Goto("free")
    /\ UNCHANGED <<disk, mem, txn, proof, nonce>>

\* The lease is dropped; its transaction and proof go with the caller.
Release ==
    /\ At("held")
    /\ Goto("free")
    /\ txn' = None /\ proof' = NoJournal
    /\ UNCHANGED <<disk, mem, nonce>>

-----------------------------------------------------------------------------
(* stage_and_publish                                                       *)

\* Validation, the journal must be missing, target and staging must be free.
StageBegin(src, tgt) ==
    LET j == [src |-> src, tgt |-> tgt, gen |-> main[src].gen + 1,
              nonce |-> nonce + 1, phase |-> "Prepared"]
    IN  /\ At("held")
        /\ nonce < MaxNonce
        /\ src # tgt
        /\ main[src].kind = "session" /\ main[src].cwd = src
        /\ journal = NoJournal
        /\ main[tgt] = Absent /\ staging[tgt] = Absent
        /\ mem' = j
        /\ nonce' = nonce + 1
        /\ Goto("write")
        /\ UNCHANGED <<disk, txn, proof>>

CopyStart ==
    /\ At("copy")
    /\ staging[mem.tgt] = Absent
    /\ SetPath(mem.tgt, main[mem.tgt], Partial)
    /\ Step("copying")
    /\ UNCHANGED <<journal, mayJournal>>

\* Every file and directory of the copy is synced before it counts.
CopyFinish ==
    /\ At("copying")
    /\ SetPathDurably(mem.tgt, main[mem.tgt], main[mem.src])
    /\ Step("rewrite")
    /\ UNCHANGED <<journal, mayJournal>>

RewriteSummary ==
    /\ At("rewrite")
    /\ staging[mem.tgt].kind = "session"
    /\ staging[mem.tgt].cwd = mem.src
    /\ staging[mem.tgt].gen + 1 = mem.gen
    /\ SetPath(mem.tgt, main[mem.tgt],
               Session(mem.tgt, mem.gen, mem.src, staging[mem.tgt].whole))
    /\ Step("stage_sync")
    /\ UNCHANGED <<journal, mayJournal>>

StageSync ==
    /\ At("stage_sync")
    /\ SyncParent(mem.tgt)
    /\ mem' = [mem EXCEPT !.phase = "Staged"]
    /\ Goto("write")
    /\ UNCHANGED <<main, staging, journal, mayJournal, txn, proof, nonce>>

\* Any of these may fail; the stage is then rolled back at once.
StageFails ==
    /\ pc \in {"copy", "copying", "rewrite", "stage_sync"}
    /\ Step("rb_source")
    /\ UNCHANGED disk

\* rename_no_replace
Publish ==
    /\ At("publish")
    /\ main[mem.tgt] = Absent
    /\ SetPath(mem.tgt, staging[mem.tgt], Absent)
    /\ Step("publish_sync")
    /\ UNCHANGED <<journal, mayJournal>>

PublishFails ==
    /\ At("publish")
    /\ Step("rb_source")
    /\ UNCHANGED disk

\* Mutant: the rename is not made durable before TargetPublished.
PublishNoSync ==
    /\ At("publish_sync")
    /\ mem' = [mem EXCEPT !.phase = "TargetPublished"]
    /\ Goto("write")
    /\ UNCHANGED <<disk, txn, proof, nonce>>

PublishSync ==
    /\ At("publish_sync")
    /\ SyncParent(mem.tgt)
    /\ mem' = [mem EXCEPT !.phase = "TargetPublished"]
    /\ Goto("write")
    /\ UNCHANGED <<main, staging, journal, mayJournal, txn, proof, nonce>>

-----------------------------------------------------------------------------
(* write_journal: temporary file, rename, fsync of the namespace.          *)

\* NotCommitted: the old journal is still there.
WriteNotCommitted ==
    /\ At("write")
    /\ IF mem.phase = "Staged"
       THEN /\ mem' = [mem EXCEPT !.phase = "Prepared"]
            /\ Goto("rb_source")
            /\ UNCHANGED <<txn, proof, nonce>>
       ELSE Fail
    /\ UNCHANGED disk

WriteRename ==
    /\ At("write")
    /\ journal' = mem
    /\ mayJournal' = mayJournal \cup {mem}
    /\ Step("write_sync")
    /\ UNCHANGED <<main, staging, mayMain>>

\* Where the operation goes once its journal phase is durable.
WriteSync ==
    /\ At("write_sync")
    /\ SyncNamespace
    /\ \/ /\ mem.phase \in {"Prepared", "Staged", "Ready"}
          /\ Step([Prepared |-> "copy", Staged |-> "publish",
                   Ready |-> "commit_sync"][mem.phase])
       \/ /\ mem.phase = "TargetPublished"
          /\ txn' = mem.nonce
          /\ Return /\ UNCHANGED <<proof, nonce>>
       \/ /\ mem.phase \in {"Committed", "RolledBack"}
          /\ proof' = mem
          /\ Return /\ UNCHANGED <<txn, nonce>>
    /\ UNCHANGED <<main, staging, mayMain, journal>>

\* A barrier failed: RecoveryRequired, nothing is undone.
BarrierFails ==
    /\ pc \in {"write_sync", "publish_sync", "commit_sync", "recover_sync", "fin_sync",
               "rm_source_sync", "rm_staging_sync", "rm_target_sync"}
    /\ Fail
    /\ UNCHANGED disk

-----------------------------------------------------------------------------
(* mark_ready_and_commit, rollback, recover                                *)

LoadTransaction == At("held") /\ journal # NoJournal /\ txn = journal.nonce

MarkReady ==
    /\ LoadTransaction
    /\ journal.phase = "TargetPublished"
    /\ TargetValid(journal)
    /\ mem' = [journal EXCEPT !.phase = "Ready"]
    /\ Goto("write")
    /\ UNCHANGED <<disk, txn, proof, nonce>>

CommitAgain ==
    /\ LoadTransaction
    /\ has_target_authority(journal.phase)
    /\ mem' = journal
    /\ Goto("commit_sync")
    /\ UNCHANGED <<disk, txn, proof, nonce>>

\* A caller that has begun to undo a transaction keeps or forgets it.
Keeps == txn' = IF RetryCommits THEN txn ELSE None

Rollback ==
    /\ LoadTransaction
    /\ ~has_target_authority(journal.phase)
    /\ mem' = journal
    /\ Goto("rb_source")
    /\ Keeps
    /\ UNCHANGED <<disk, proof, nonce>>

Recover ==
    /\ At("held")
    /\ journal # NoJournal
    /\ mem' = journal
    /\ Goto("recover_sync")
    /\ Keeps
    /\ UNCHANGED <<disk, proof, nonce>>

\* recover() makes the journal it read durable before it acts on it.
RecoverSync ==
    /\ At("recover_sync")
    /\ SyncNamespace
    /\ Step(IF has_target_authority(mem.phase) THEN "commit_sync" ELSE "rb_source")
    /\ UNCHANGED <<main, staging, mayMain, journal>>

-----------------------------------------------------------------------------
(* remove_transaction_directory: remove_dir_all, then fsync of the parent. *)

\* One entry after another goes, or none; the summary may go first or last.
Erode(x) == IF x.kind = "session"
            THEN {x, Session(x.cwd, x.gen, x.prev, FALSE), Partial}
            ELSE {x}

RemoveSome(label, c, isStaging) ==
    /\ At(label)
    /\ IF isStaging
       THEN \E x \in Erode(staging[c]) : SetPath(c, main[c], x)
       ELSE \E x \in Erode(main[c]) : SetPath(c, x, staging[c])
    /\ \/ Step(label)
       \/ Fail
    /\ UNCHANGED <<journal, mayJournal>>

RemoveAll(label, c, isStaging, next) ==
    /\ At(label)
    /\ IF isStaging THEN SetPath(c, main[c], Absent) ELSE SetPath(c, Absent, staging[c])
    /\ Step(next)
    /\ UNCHANGED <<journal, mayJournal>>

RemoveSync(label, c, next) ==
    /\ At(label)
    /\ SyncParent(c)
    /\ Step(next)
    /\ UNCHANGED <<main, staging, journal, mayJournal>>

RemoveSource ==
    \/ RemoveSome("rm_source", mem.src, FALSE)
    \/ RemoveAll("rm_source", mem.src, FALSE, "rm_source_sync")
    \/ RemoveSync("rm_source_sync", mem.src, "rm_staging")

RemoveStaging ==
    \/ RemoveSome("rm_staging", mem.tgt, TRUE)
    \/ RemoveAll("rm_staging", mem.tgt, TRUE, "rm_staging_sync")
    \/ RemoveSync("rm_staging_sync", mem.tgt,
                  IF has_target_authority(mem.phase) THEN "finish" ELSE "rb_target")

\* Mutant: the removal is not made durable before RolledBack.
RemoveTargetNoSync ==
    \/ RemoveSome("rm_target", mem.tgt, FALSE)
    \/ RemoveAll("rm_target", mem.tgt, FALSE, "finish")

RemoveTarget ==
    \/ RemoveSome("rm_target", mem.tgt, FALSE)
    \/ RemoveAll("rm_target", mem.tgt, FALSE, "rm_target_sync")
    \/ RemoveSync("rm_target_sync", mem.tgt, "finish")

-----------------------------------------------------------------------------
(* finish_commit and finish_rollback                                       *)

\* Mutant: a retried commit trusts the Ready it reads.
CommitNoSync ==
    /\ At("commit_sync")
    /\ IF TargetValid(mem) THEN Step("rm_source") ELSE Fail
    /\ UNCHANGED disk

CommitSync ==
    /\ At("commit_sync")
    /\ SyncNamespace
    /\ IF TargetValid(mem) THEN Step("rm_source") ELSE Fail
    /\ UNCHANGED <<main, staging, mayMain, journal>>

\* Mutant: the staging directory is forgotten.
RollbackSkipsStaging ==
    /\ At("rb_source")
    /\ IF SourceValid(mem) THEN Step("rb_target") ELSE Fail
    /\ UNCHANGED disk

RollbackSource ==
    /\ At("rb_source")
    /\ IF SourceValid(mem) THEN Step("rm_staging") ELSE Fail
    /\ UNCHANGED disk

\* Mutant: whatever sits at the target is removed.
RollbackTargetUnchecked ==
    /\ At("rb_target")
    /\ Step("rm_target")
    /\ UNCHANGED disk

\* if target.exists() { validate_target }
RollbackTarget ==
    /\ At("rb_target")
    /\ IF main[mem.tgt] # Absent /\ ~TargetValid(mem) THEN Fail ELSE Step("rm_target")
    /\ UNCHANGED disk

\* A terminal phase is written once; a verified one yields the proof again.
Finish ==
    LET terminal == IF has_target_authority(mem.phase) THEN "Committed" ELSE "RolledBack"
    IN  /\ At("finish")
        /\ IF mem.phase = terminal
           THEN proof' = mem /\ Return /\ UNCHANGED <<txn, nonce>>
           ELSE /\ mem' = [mem EXCEPT !.phase = terminal]
                /\ Goto("write")
                /\ UNCHANGED <<txn, proof, nonce>>
        /\ UNCHANGED disk

-----------------------------------------------------------------------------
(* finalize_terminal                                                       *)

FinalizeRemove ==
    /\ At("held")
    /\ proof # NoJournal
    /\ journal = proof
    /\ journal' = NoJournal
    /\ mayJournal' = mayJournal \cup {NoJournal}
    /\ Step("fin_sync")
    /\ UNCHANGED <<main, staging, mayMain>>

FinalizeAgain ==
    /\ At("held")
    /\ proof # NoJournal
    /\ journal = NoJournal
    /\ Step("fin_sync")
    /\ UNCHANGED disk

FinalizeSync ==
    /\ At("fin_sync")
    /\ SyncNamespace
    /\ Fail
    /\ UNCHANGED <<main, staging, mayMain, journal>>

-----------------------------------------------------------------------------
(* Faults and other programs.                                              *)

\* The process dies: its memory and the lease go, the kernel's view stays.
Crash ==
    /\ pc # "free"
    /\ pc' = "free" /\ mem' = NoJournal /\ txn' = None /\ proof' = NoJournal
    /\ UNCHANGED <<disk, nonce>>

\* Each directory comes back in some state it had since its last barrier.
PowerFail ==
    /\ \E picked \in [Cwds -> UNION {mayMain[c] : c \in Cwds}] :
        /\ \A c \in Cwds : picked[c] \in mayMain[c]
        /\ main' = [c \in Cwds |-> picked[c][1]]
        /\ staging' = [c \in Cwds |-> picked[c][2]]
        /\ mayMain' = [c \in Cwds |-> {picked[c]}]
    /\ \E j \in mayJournal : journal' = j /\ mayJournal' = {j}
    /\ pc' = "free" /\ mem' = NoJournal /\ txn' = None /\ proof' = NoJournal
    /\ UNCHANGED nonce

\* Another program creates a directory at a free path, at any moment: also
\* between a check of that path and what is done on the strength of it.
ForeignAppears(c) ==
    /\ main[c] = Absent
    /\ SetPath(c, Foreign, staging[c])
    /\ UNCHANGED <<journal, mayJournal, holder>>

Next ==
    \/ Acquire \/ Release
    \/ \E src, tgt \in Cwds : StageBegin(src, tgt)
    \/ CopyStart \/ CopyFinish \/ RewriteSummary \/ StageSync \/ StageFails
    \/ Publish \/ PublishFails \/ PublishSync
    \/ WriteNotCommitted \/ WriteRename \/ WriteSync \/ BarrierFails
    \/ MarkReady \/ CommitAgain \/ Rollback \/ Recover \/ RecoverSync
    \/ RemoveSource \/ RemoveStaging \/ RemoveTarget
    \/ CommitSync \/ RollbackSource \/ RollbackTarget \/ Finish
    \/ FinalizeRemove \/ FinalizeAgain \/ FinalizeSync
    \/ Crash \/ PowerFail
    \/ \E c \in Cwds : ForeignAppears(c)

Spec == Init /\ [][Next]_vars

-----------------------------------------------------------------------------
(* Properties.                                                             *)

Contents ==
    {Absent, Partial, Foreign} \cup
    {Session(c, g, p, w) : c \in Cwds, g \in 0..MaxNonce, p \in Cwds \cup {NoCwd}, w \in BOOLEAN}
Journals ==
    {NoJournal} \cup [src : Cwds, tgt : Cwds, gen : 1..MaxNonce, nonce : 1..MaxNonce, phase : Phases]
Labels == {"free", "held", "write", "write_sync", "copy", "copying", "rewrite", "stage_sync",
           "publish", "publish_sync", "commit_sync", "recover_sync", "fin_sync", "rm_source",
           "rm_source_sync", "rm_staging", "rm_staging_sync", "rm_target", "rm_target_sync",
           "rb_source", "rb_target", "finish"}

TypeOK ==
    /\ main \in [Cwds -> Contents] /\ staging \in [Cwds -> Contents]
    /\ journal \in Journals /\ mem \in Journals /\ proof \in Journals
    /\ mayMain \in [Cwds -> SUBSET (Contents \X Contents)]
    /\ mayJournal \in SUBSET Journals
    /\ txn \in 0..MaxNonce /\ nonce \in 0..MaxNonce
    /\ pc \in Labels
    /\ pc \in {"free", "held", "fin_sync"} <=> mem = NoJournal
    /\ pc = "free" => txn = None /\ proof = NoJournal

Intact(c) == main[c].kind = "session" /\ main[c].cwd = c /\ main[c].whole

(* The module's header: "source wins through `TargetPublished`; target     *)
(* wins from `Ready` onward".  Whatever failed, crashed or lost power, the *)
(* directory the journal makes authoritative is complete and passes its    *)
(* validation; without a journal the session is complete somewhere.        *)
AuthorityIntact ==
    IF journal = NoJournal THEN \E c \in Cwds : Intact(c)
    ELSE /\ Intact(Authority(journal))
         /\ IF has_target_authority(journal.phase)
            THEN TargetValid(journal) ELSE SourceValid(journal)

(* RelocationView::select returns a session without a journal only if one  *)
(* candidate exists: finalized and never-started relocations leave exactly *)
(* one directory, and no half-removed one.                                 *)
OneCopyAtRest ==
    journal = NoJournal =>
        /\ Cardinality({c \in Cwds : main[c].kind = "session"}) = 1
        /\ \A c \in Cwds : main[c] # Partial

(* A staging directory is always named by a journal, so that recovery      *)
(* finds and removes it.                                                   *)
NoOrphanStaging ==
    \A c \in Cwds : staging[c] # Absent =>
        journal # NoJournal /\ journal.tgt = c /\ ~(journal.phase \in {"Committed", "RolledBack"})

(* A rollback never begins to remove a directory that the transaction did  *)
(* not create, and no step removes one, but for two windows that the code  *)
(* leaves open: one that takes the place of the target after the check of  *)
(* finish_rollback (mod.rs:440) and before its removal (mod.rs:443) is     *)
(* over, and one that takes the place of the source after a commit began   *)
(* to remove it (mod.rs:420), go with them.                                *)
ForeignKept ==
    [][/\ pc # "rm_target" /\ pc' = "rm_target" => main'[journal.tgt] # Foreign
       /\ \A c \in Cwds : main[c] = Foreign /\ main'[c] # Foreign =>
            \/ PowerFail
            \/ pc = "rm_target" /\ c = journal.tgt
            \/ has_target_authority(journal.phase) /\ c = journal.src]_vars

(* tests.rs, recover_all_finalizes_every_phase: recovery finishes from     *)
(* every phase.  Foreign directories apart, no crash leaves a journal      *)
(* whose recovery is refused by its own validation.                        *)
Recoverable ==
    pc = "free" /\ journal # NoJournal =>
        IF has_target_authority(journal.phase) THEN TargetValid(journal)
        ELSE /\ SourceValid(journal)
             /\ main[journal.tgt] \in {Absent, Foreign} \/ TargetValid(journal)

(* The header's "Durable, source-retaining relocation": the last complete  *)
(* copy of the session is never removed.                                   *)
CopyRetained == \E c \in Cwds : Intact(c)

-----------------------------------------------------------------------------
(* Refinement: the session's home is where the journal puts it.            *)

Home == IF journal = NoJournal THEN CHOOSE c \in Cwds : Intact(c) ELSE Authority(journal)
Stable == {Home} \cup {Authority(j) : j \in mayJournal \ {NoJournal}}

Move == INSTANCE AtomicMove WITH
            home <- Home, stable <- Stable, intact <- {c \in Cwds : Intact(c)}

(* A relocation, with all its steps, failures, crashes and power failures, *)
(* is one atomic move: no complete copy goes while the journal, as a power *)
(* failure may leave it, can still name it.                                *)
RelocationIsAtomic == Move!Spec
=============================================================================
