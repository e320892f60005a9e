-------------------------- MODULE RelocationProofs --------------------------
(***************************************************************************)
(* Proofs about Relocation for every set of working directories and every  *)
(* number of relocations, with every failure, crash and power failure: the *)
(* types, the safety invariants and the refinement of AtomicMove.          *)
(***************************************************************************)
EXTENDS RelocationView, TLAPS, FiniteSetTheorems

-----------------------------------------------------------------------------
(* The inductive invariant.  A power failure picks a journal and, for each *)
(* directory apart, a state of it: so the invariant says that EVERY journal *)
(* it may pick fits EVERY state it may pick, and the rest is what the lease *)
(* holder knows at each step.  dirs stands for mayMain.                     *)

Free(m) == m \in {Absent, Foreign}
Whole(c, m) == m.kind = "session" /\ m.cwd = c /\ m.whole
Goal(j) == Session(j.tgt, j.gen, j.src, TRUE)
Hollow(j) == Session(j.tgt, j.gen, j.src, FALSE)
Terminal == {"Committed", "RolledBack"}

\* What the directory of the source, and of the target, can be under a journal.
SourceFits(j, m) ==
    /\ ~has_target_authority(j.phase) => Whole(j.src, m) /\ m.gen + 1 = j.gen
    /\ j.phase = "Committed" => Free(m)
TargetFits(j, m) ==
    /\ has_target_authority(j.phase) => m = Goal(j)
    /\ j.phase \in {"Staged", "TargetPublished"} => Free(m) \/ m \in {Goal(j), Hollow(j), Partial}
    /\ j.phase \in {"Prepared", "RolledBack"} => Free(m)

Allows(j, c, p) ==
    /\ p[2] = Absent \/ (c = j.tgt /\ j.phase \in {"Prepared", "Staged"})
    /\ c = j.src => SourceFits(j, p[1])
    /\ c = j.tgt => TargetFits(j, p[1])
    /\ c \notin {j.src, j.tgt} => Free(p[1])
Fits(dirs, j) == j.src # j.tgt /\ \A c \in Cwds : \A p \in dirs[c] : Allows(j, c, p)

\* Without a journal: one complete copy, and nothing of the session elsewhere.
RestsAs(h, g, c, p) ==
    p[2] = Absent /\ IF c = h THEN Whole(c, p[1]) /\ p[1].gen = g ELSE Free(p[1])
Rests(dirs, h, g) == \A c \in Cwds : \A p \in dirs[c] : RestsAs(h, g, c, p)

StagedIn(dirs, j) == \A p \in dirs[j.tgt] : Free(p[1]) /\ p[2] = Goal(j)
PublishedIn(dirs, j) == \A p \in dirs[j.tgt] : p[1] = Goal(j) /\ p[2] = Absent
SourceGone(dirs, j) == \A p \in dirs[j.src] : Free(p[1])
StagingGone(dirs, j) == \A p \in dirs[j.tgt] : p[2] = Absent
TargetGone(dirs, j) == \A p \in dirs[j.tgt] : Free(p[1])

DiskInv ==
    /\ journal \in mayJournal
    /\ \A c \in Cwds : <<main[c], staging[c]>> \in mayMain[c]
    /\ NoJournal \in mayJournal => \E h \in Cwds, g \in 0..MaxNonce : Rests(mayMain, h, g)
    /\ \A j \in mayJournal : j # NoJournal => Fits(mayMain, j)

\* Generations and nonces do not exceed the relocations started.
BoundsInv ==
    /\ \A c \in Cwds : \A p \in mayMain[c] : \A i \in {1, 2} :
          p[i].kind = "session" => p[i].gen <= nonce
    /\ \A j \in mayJournal \cup {mem, proof} : j # NoJournal => j.gen <= nonce /\ j.nonce <= nonce
    /\ txn <= nonce

\* A transaction that was not begun to be undone has its published target.
TxnInv ==
    journal # NoJournal /\ txn = journal.nonce =>
        /\ journal.phase \in {"TargetPublished", "Ready", "Committed"}
        /\ journal.phase = "TargetPublished" =>
              mayJournal = {journal} /\ PublishedIn(mayMain, journal)

\* A proof is of a terminal phase that is durable as long as the journal is there.
ProofInv ==
    proof # NoJournal =>
        /\ proof.phase \in Terminal
        /\ journal # NoJournal /\ proof.nonce = journal.nonce =>
              proof = journal /\ mayJournal = {journal}

Alone == journal = mem /\ mayJournal = {mem}
Undoes == ~has_target_authority(mem.phase) /\ txn # mem.nonce

\* The journal that write_journal replaces.
Follows(old, new) ==
    \/ old = "Prepared" /\ new = "Staged"
    \/ old = "Staged" /\ new = "TargetPublished"
    \/ old = "TargetPublished" /\ new = "Ready"
    \/ old = "Ready" /\ new = "Committed"
    \/ old \in {"Prepared", "Staged", "TargetPublished"} /\ new = "RolledBack"

WriteInv ==
    pc = "write" =>
        /\ Fits(mayMain, mem)
        /\ mem.phase = "Prepared" =>
              /\ journal = NoJournal /\ txn < mem.nonce
              /\ proof # NoJournal => proof.nonce < mem.nonce
        /\ mem.phase # "Prepared" =>
              /\ journal # NoJournal /\ mayJournal = {journal}
              /\ mem = [journal EXCEPT !.phase = mem.phase]
              /\ Follows(journal.phase, mem.phase)
        /\ mem.phase = "Staged" => StagedIn(mayMain, mem)
        /\ mem.phase = "TargetPublished" => PublishedIn(mayMain, mem)
        /\ mem.phase = "RolledBack" => txn # mem.nonce

WriteSyncInv ==
    pc = "write_sync" =>
        /\ journal = mem
        /\ mem.phase = "Staged" => StagedIn(mayMain, mem)
        /\ mem.phase = "TargetPublished" => PublishedIn(mayMain, mem)

StageInv ==
    /\ pc \in {"copy", "copying", "rewrite", "stage_sync"} => Alone /\ mem.phase = "Prepared"
    /\ pc \in {"publish", "publish_sync"} => Alone /\ mem.phase = "Staged"
    /\ pc = "rewrite" => staging[mem.tgt] = main[mem.src]
    /\ pc = "stage_sync" => staging[mem.tgt] = Goal(mem)
    /\ pc = "publish" => StagedIn(mayMain, mem)
    /\ pc = "publish_sync" => main[mem.tgt] = Goal(mem) /\ staging[mem.tgt] = Absent

CommitInv ==
    /\ pc = "fin_sync" => journal = NoJournal
    /\ pc = "recover_sync" => journal = mem /\ txn # mem.nonce
    /\ pc = "commit_sync" => journal = mem /\ has_target_authority(mem.phase)
    /\ pc \in {"rm_source", "rm_source_sync"} => Alone /\ has_target_authority(mem.phase)
    /\ pc = "rm_source_sync" => Free(main[mem.src])

CleanInv ==
    /\ pc \in {"rm_staging", "rm_staging_sync", "finish"} =>
          Alone /\ IF has_target_authority(mem.phase) THEN SourceGone(mayMain, mem) ELSE Undoes
    /\ pc = "rm_staging_sync" => staging[mem.tgt] = Absent
    /\ pc = "finish" /\ ~has_target_authority(mem.phase) =>
          StagingGone(mayMain, mem) /\ TargetGone(mayMain, mem)

UndoInv ==
    /\ pc \in {"rb_source", "rb_target", "rm_target", "rm_target_sync"} => Alone /\ Undoes
    /\ pc \in {"rb_target", "rm_target", "rm_target_sync"} => StagingGone(mayMain, mem)
    /\ pc = "rm_target_sync" => Free(main[mem.tgt])

HolderInv == WriteInv /\ WriteSyncInv /\ StageInv /\ CommitInv /\ CleanInv /\ UndoInv

RelocInv == TypeOK /\ BoundsInv /\ DiskInv /\ TxnInv /\ ProofInv /\ HolderInv

-----------------------------------------------------------------------------
(* What the contents of a path and the journals are made of.               *)

LEMMA Contained ==
    /\ {Absent, Partial, Foreign} \subseteq Contents
    /\ Absent.kind = "absent" /\ Partial.kind = "partial" /\ Foreign.kind = "foreign"
    /\ Absent # Partial /\ Absent # Foreign /\ Partial # Foreign
  BY DEF Contents, Absent, Partial, Foreign

LEMMA SessionFields ==
    ASSUME NEW c, NEW g, NEW p, NEW w
    PROVE  /\ Session(c, g, p, w).kind = "session" /\ Session(c, g, p, w).cwd = c
           /\ Session(c, g, p, w).gen = g /\ Session(c, g, p, w).prev = p
           /\ Session(c, g, p, w).whole = w
  BY DEF Session

LEMMA SessionContained ==
    ASSUME NEW c \in Cwds, NEW g \in 0..MaxNonce, NEW p \in Cwds \cup {NoCwd}, NEW w \in BOOLEAN
    PROVE  Session(c, g, p, w) \in Contents
  BY DEF Contents

LEMMA SessionParts ==
    ASSUME NEW x \in Contents, x.kind = "session"
    PROVE  /\ x.cwd \in Cwds /\ x.gen \in 0..MaxNonce /\ x.prev \in Cwds \cup {NoCwd}
           /\ x.whole \in BOOLEAN /\ x = Session(x.cwd, x.gen, x.prev, x.whole)
  <1>1. PICK c \in Cwds, g \in 0..MaxNonce, p \in Cwds \cup {NoCwd}, w \in BOOLEAN :
            x = Session(c, g, p, w)
    BY Contained DEF Contents
  <1> QED BY <1>1, SessionFields

LEMMA JournalFields ==
    ASSUME NEW j \in Journals, j # NoJournal
    PROVE  /\ j.src \in Cwds /\ j.tgt \in Cwds /\ j.gen \in 1..MaxNonce /\ j.nonce \in 1..MaxNonce
           /\ j.phase \in Phases
  BY DEF Journals

LEMMA NoJournalPhase == NoJournal.phase = "None" /\ NoJournal \in Journals
  BY DEF NoJournal, Journals

LEMMA NewJournal ==
    ASSUME NEW s \in Cwds, NEW t \in Cwds, NEW g \in 1..MaxNonce, NEW n \in 1..MaxNonce,
           NEW q \in Phases, NEW j, j = [src |-> s, tgt |-> t, gen |-> g, nonce |-> n, phase |-> q]
    PROVE  /\ j \in Journals /\ j # NoJournal
           /\ j.src = s /\ j.tgt = t /\ j.gen = g /\ j.nonce = n /\ j.phase = q
  <1>1. j \in Journals /\ j.src = s /\ j.tgt = t /\ j.gen = g /\ j.nonce = n /\ j.phase = q
    BY DEF Journals
  <1>2. j # NoJournal
    BY <1>1, NoJournalPhase DEF Phases
  <1> QED BY <1>1, <1>2

LEMMA NextPhase ==
    ASSUME NEW j \in Journals, j # NoJournal, NEW q \in Phases,
           NEW k, k = [j EXCEPT !.phase = q]
    PROVE  /\ k \in Journals /\ k # NoJournal
           /\ k.src = j.src /\ k.tgt = j.tgt /\ k.gen = j.gen /\ k.nonce = j.nonce /\ k.phase = q
           /\ [k EXCEPT !.phase = j.phase] = j
  <1>0. j \in [src : Cwds, tgt : Cwds, gen : 1..MaxNonce, nonce : 1..MaxNonce, phase : Phases]
    BY DEF Journals
  <1>1. /\ k \in [src : Cwds, tgt : Cwds, gen : 1..MaxNonce, nonce : 1..MaxNonce, phase : Phases]
        /\ k.src = j.src /\ k.tgt = j.tgt /\ k.gen = j.gen /\ k.nonce = j.nonce /\ k.phase = q
    BY <1>0
  <1>2. k # NoJournal
    BY <1>1, NoJournalPhase DEF Phases
  <1>3. [k EXCEPT !.phase = j.phase] = j
    BY <1>0, <1>1
  <1> QED BY <1>1, <1>2, <1>3 DEF Journals

-----------------------------------------------------------------------------
(* The predicates on dirs: they survive a barrier or a power failure, which *)
(* only leave fewer states, and one more state that they allow.             *)

Fewer(new, old) == \A c \in Cwds : new[c] \subseteq old[c]
More(new, old, c, p) == \A d \in Cwds : new[d] \subseteq IF d = c THEN old[d] \cup {p} ELSE old[d]

LEMMA FewerFits ==
    ASSUME NEW old, NEW new, NEW j, Fewer(new, old), Fits(old, j)
    PROVE  Fits(new, j)
  BY DEF Fewer, Fits

LEMMA FewerRests ==
    ASSUME NEW old, NEW new, NEW h, NEW g, Fewer(new, old), Rests(old, h, g)
    PROVE  Rests(new, h, g)
  BY DEF Fewer, Rests

LEMMA MoreFits ==
    ASSUME NEW old, NEW new, NEW c \in Cwds, NEW p, NEW j, More(new, old, c, p),
           Fits(old, j), Allows(j, c, p)
    PROVE  Fits(new, j)
  <1>1. SUFFICES ASSUME NEW d \in Cwds, NEW x \in new[d] PROVE Allows(j, d, x)
    BY DEF Fits
  <1>2. x \in old[d] \/ (d = c /\ x = p)
    BY <1>1 DEF More
  <1> QED BY <1>2 DEF Fits

LEMMA MoreRests ==
    ASSUME NEW old, NEW new, NEW c \in Cwds, NEW p, NEW h, NEW g, More(new, old, c, p),
           Rests(old, h, g), RestsAs(h, g, c, p)
    PROVE  Rests(new, h, g)
  <1>1. SUFFICES ASSUME NEW d \in Cwds, NEW x \in new[d] PROVE RestsAs(h, g, d, x)
    BY DEF Rests
  <1>2. x \in old[d] \/ (d = c /\ x = p)
    BY <1>1 DEF More
  <1> QED BY <1>2 DEF Rests

LEMMA GoalFields ==
    ASSUME NEW j
    PROVE  /\ Goal(j).kind = "session" /\ Goal(j).cwd = j.tgt /\ Goal(j).gen = j.gen
           /\ Goal(j).prev = j.src /\ Goal(j).whole
           /\ Goal(j) # Absent /\ Goal(j) # Partial /\ Goal(j) # Foreign
           /\ Hollow(j).kind = "session" /\ Hollow(j).cwd = j.tgt /\ Hollow(j).gen = j.gen
           /\ Hollow(j).prev = j.src
  <1>1. /\ Goal(j).kind = "session" /\ Goal(j).cwd = j.tgt /\ Goal(j).gen = j.gen
        /\ Goal(j).prev = j.src /\ Goal(j).whole
        /\ Hollow(j).kind = "session" /\ Hollow(j).cwd = j.tgt /\ Hollow(j).gen = j.gen
        /\ Hollow(j).prev = j.src
    BY DEF Goal, Hollow, Session
  <1>2. Goal(j) # Absent /\ Goal(j) # Partial /\ Goal(j) # Foreign
    BY <1>1, Contained
  <1> QED BY <1>1, <1>2

LEMMA FreeIsNotWhole ==
    ASSUME NEW c, NEW m, Free(m)
    PROVE  ~Whole(c, m) /\ m.kind # "session" /\ m # Partial
  <1>1. m.kind \in {"absent", "foreign"} /\ m # Partial
    BY Contained DEF Free
  <1> QED BY <1>1 DEF Whole

\* A directory that appears at a free path changes nothing that they say.
LEMMA ForeignAllowed ==
    ASSUME NEW j, NEW c, NEW s, Allows(j, c, <<Absent, s>>)
    PROVE  Allows(j, c, <<Foreign, s>>)
  <1>1. Free(Absent) /\ Free(Foreign)
    BY DEF Free
  <1>2. ~Whole(j.src, Absent)
    BY <1>1, FreeIsNotWhole
  <1>3. SourceFits(j, Absent) => SourceFits(j, Foreign)
    BY <1>1, <1>2 DEF SourceFits
  <1>4. TargetFits(j, Absent) => TargetFits(j, Foreign)
    BY <1>1, GoalFields DEF TargetFits
  <1> QED BY <1>1, <1>3, <1>4 DEF Allows

-----------------------------------------------------------------------------
(* The steps that leave the disk alone.                                    *)

USE DEF At, Goto, Return, Fail, Step, None, disk

\* The journal a running operation holds in memory.
LEMMA Busy ==
    ASSUME TypeOK, pc \notin {"free", "held", "fin_sync"}
    PROVE  /\ mem # NoJournal /\ mem.src \in Cwds /\ mem.tgt \in Cwds
           /\ mem.gen \in 1..MaxNonce /\ mem.nonce \in 1..MaxNonce /\ mem.phase \in Phases
  BY JournalFields DEF TypeOK

LEMMA DiskKept ==
    ASSUME DiskInv, UNCHANGED disk
    PROVE  DiskInv'
  BY DEF DiskInv

LEMMA AcquireStep ==
    ASSUME RelocInv, Acquire
    PROVE  RelocInv'
  <1>1. TypeOK'
    BY RelocationAssumption, Busy, NoJournalPhase, JournalFields, NextPhase
    DEF RelocInv, TypeOK, Acquire, Labels, Phases
  <1>2. BoundsInv'
    BY Busy, NoJournalPhase, JournalFields DEF RelocInv, TypeOK, BoundsInv, DiskInv, Acquire
  <1>3. DiskInv'
    BY DiskKept DEF RelocInv, Acquire
  <1>4. TxnInv' /\ ProofInv'
    BY JournalFields DEF RelocInv, TypeOK, TxnInv, ProofInv, Acquire
  <1>5. HolderInv'
    BY Busy, NextPhase DEF RelocInv, TypeOK, TxnInv, HolderInv, WriteInv, WriteSyncInv, StageInv, CommitInv,
       CleanInv, UndoInv, Alone, Undoes, Follows, has_target_authority, Acquire, Phases
  <1> QED BY <1>1, <1>2, <1>3, <1>4, <1>5 DEF RelocInv

LEMMA ReleaseStep ==
    ASSUME RelocInv, Release
    PROVE  RelocInv'
  <1>1. TypeOK'
    BY RelocationAssumption, Busy, NoJournalPhase, JournalFields, NextPhase
    DEF RelocInv, TypeOK, Release, Labels, Phases
  <1>2. BoundsInv'
    BY Busy, NoJournalPhase, JournalFields DEF RelocInv, TypeOK, BoundsInv, DiskInv, Release
  <1>3. DiskInv'
    BY DiskKept DEF RelocInv, Release
  <1>4. TxnInv' /\ ProofInv'
    BY JournalFields DEF RelocInv, TypeOK, TxnInv, ProofInv, Release
  <1>5. HolderInv'
    BY Busy, NextPhase DEF RelocInv, TypeOK, TxnInv, HolderInv, WriteInv, WriteSyncInv, StageInv, CommitInv,
       CleanInv, UndoInv, Alone, Undoes, Follows, has_target_authority, Release, Phases
  <1> QED BY <1>1, <1>2, <1>3, <1>4, <1>5 DEF RelocInv

LEMMA StageFailsStep ==
    ASSUME RelocInv, StageFails
    PROVE  RelocInv'
  <1>1. TypeOK'
    BY RelocationAssumption, Busy, NoJournalPhase, JournalFields, NextPhase
    DEF RelocInv, TypeOK, StageFails, Labels, Phases
  <1>2. BoundsInv'
    BY Busy, NoJournalPhase, JournalFields DEF RelocInv, TypeOK, BoundsInv, DiskInv, StageFails
  <1>3. DiskInv'
    BY DiskKept DEF RelocInv, StageFails
  <1>4. TxnInv' /\ ProofInv'
    BY JournalFields DEF RelocInv, TypeOK, TxnInv, ProofInv, StageFails
  <1>5. HolderInv'
    BY Busy, NextPhase DEF RelocInv, TypeOK, TxnInv, HolderInv, WriteInv, WriteSyncInv, StageInv, CommitInv,
       CleanInv, UndoInv, Alone, Undoes, Follows, has_target_authority, StageFails, Phases
  <1> QED BY <1>1, <1>2, <1>3, <1>4, <1>5 DEF RelocInv

LEMMA PublishFailsStep ==
    ASSUME RelocInv, PublishFails
    PROVE  RelocInv'
  <1>1. TypeOK'
    BY RelocationAssumption, Busy, NoJournalPhase, JournalFields, NextPhase
    DEF RelocInv, TypeOK, PublishFails, Labels, Phases
  <1>2. BoundsInv'
    BY Busy, NoJournalPhase, JournalFields DEF RelocInv, TypeOK, BoundsInv, DiskInv, PublishFails
  <1>3. DiskInv'
    BY DiskKept DEF RelocInv, PublishFails
  <1>4. TxnInv' /\ ProofInv'
    BY JournalFields DEF RelocInv, TypeOK, TxnInv, ProofInv, PublishFails
  <1>5. HolderInv'
    BY Busy, NextPhase DEF RelocInv, TypeOK, TxnInv, HolderInv, WriteInv, WriteSyncInv, StageInv, CommitInv,
       CleanInv, UndoInv, Alone, Undoes, Follows, has_target_authority, PublishFails, Phases
  <1> QED BY <1>1, <1>2, <1>3, <1>4, <1>5 DEF RelocInv

LEMMA WriteNotCommittedStep ==
    ASSUME RelocInv, WriteNotCommitted
    PROVE  RelocInv'
  <1>1. TypeOK'
    BY RelocationAssumption, Busy, NoJournalPhase, JournalFields, NextPhase
    DEF RelocInv, TypeOK, WriteNotCommitted, Labels, Phases
  <1>2. BoundsInv'
    <2>1. mem' = NoJournal \/ (mem'.gen = mem.gen /\ mem'.nonce = mem.nonce)
      BY Busy, NextPhase DEF RelocInv, TypeOK, WriteNotCommitted, Phases
    <2> QED BY <2>1, Busy DEF RelocInv, BoundsInv, WriteNotCommitted
  <1>3. DiskInv'
    BY DiskKept DEF RelocInv, WriteNotCommitted
  <1>4. TxnInv' /\ ProofInv'
    BY JournalFields DEF RelocInv, TypeOK, TxnInv, ProofInv, WriteNotCommitted
  <1>5. HolderInv'
    BY Busy, NextPhase DEF RelocInv, TypeOK, TxnInv, HolderInv, WriteInv, WriteSyncInv, StageInv, CommitInv,
       CleanInv, UndoInv, Alone, Undoes, Follows, has_target_authority, WriteNotCommitted, Phases
  <1> QED BY <1>1, <1>2, <1>3, <1>4, <1>5 DEF RelocInv

LEMMA BarrierFailsStep ==
    ASSUME RelocInv, BarrierFails
    PROVE  RelocInv'
  <1>1. TypeOK'
    BY RelocationAssumption, Busy, NoJournalPhase, JournalFields, NextPhase
    DEF RelocInv, TypeOK, BarrierFails, Labels, Phases
  <1>2. BoundsInv'
    BY Busy, NoJournalPhase, JournalFields DEF RelocInv, TypeOK, BoundsInv, DiskInv, BarrierFails
  <1>3. DiskInv'
    BY DiskKept DEF RelocInv, BarrierFails
  <1>4. TxnInv' /\ ProofInv'
    BY JournalFields DEF RelocInv, TypeOK, TxnInv, ProofInv, BarrierFails
  <1>5. HolderInv'
    BY Busy, NextPhase DEF RelocInv, TypeOK, TxnInv, HolderInv, WriteInv, WriteSyncInv, StageInv, CommitInv,
       CleanInv, UndoInv, Alone, Undoes, Follows, has_target_authority, BarrierFails, Phases
  <1> QED BY <1>1, <1>2, <1>3, <1>4, <1>5 DEF RelocInv

LEMMA CommitAgainStep ==
    ASSUME RelocInv, CommitAgain
    PROVE  RelocInv'
  <1>1. TypeOK'
    BY RelocationAssumption, Busy, NoJournalPhase, JournalFields, NextPhase
    DEF RelocInv, TypeOK, CommitAgain, LoadTransaction, Labels, Phases
  <1>2. BoundsInv'
    BY Busy, NoJournalPhase, JournalFields DEF RelocInv, TypeOK, BoundsInv, DiskInv, CommitAgain, LoadTransaction
  <1>3. DiskInv'
    BY DiskKept DEF RelocInv, CommitAgain
  <1>4. TxnInv' /\ ProofInv'
    BY JournalFields DEF RelocInv, TypeOK, TxnInv, ProofInv, CommitAgain, LoadTransaction
  <1>5. HolderInv'
    BY Busy, NextPhase DEF RelocInv, TypeOK, TxnInv, HolderInv, WriteInv, WriteSyncInv, StageInv, CommitInv,
       CleanInv, UndoInv, Alone, Undoes, Follows, has_target_authority, CommitAgain, LoadTransaction, Phases
  <1> QED BY <1>1, <1>2, <1>3, <1>4, <1>5 DEF RelocInv

LEMMA RollbackStep ==
    ASSUME RelocInv, ~RetryCommits, Rollback
    PROVE  RelocInv'
  <1>1. TypeOK'
    BY RelocationAssumption, Busy, NoJournalPhase, JournalFields, NextPhase
    DEF RelocInv, TypeOK, Rollback, Keeps, LoadTransaction, Labels, Phases
  <1>2. BoundsInv'
    BY Busy, NoJournalPhase, JournalFields DEF RelocInv, TypeOK, BoundsInv, DiskInv, Rollback, Keeps, LoadTransaction
  <1>3. DiskInv'
    BY DiskKept DEF RelocInv, Rollback
  <1>4. TxnInv' /\ ProofInv'
    BY JournalFields DEF RelocInv, TypeOK, TxnInv, ProofInv, Rollback, Keeps, LoadTransaction
  <1>5. HolderInv'
    BY Busy, JournalFields, NextPhase DEF RelocInv, TypeOK, TxnInv, HolderInv, WriteInv, WriteSyncInv, StageInv, CommitInv,
       CleanInv, UndoInv, Alone, Undoes, Follows, has_target_authority, Rollback, Keeps, LoadTransaction, Phases
  <1> QED BY <1>1, <1>2, <1>3, <1>4, <1>5 DEF RelocInv

LEMMA RecoverStep ==
    ASSUME RelocInv, ~RetryCommits, Recover
    PROVE  RelocInv'
  <1>1. TypeOK'
    BY RelocationAssumption, Busy, NoJournalPhase, JournalFields, NextPhase
    DEF RelocInv, TypeOK, Recover, Keeps, Labels, Phases
  <1>2. BoundsInv'
    BY Busy, NoJournalPhase, JournalFields DEF RelocInv, TypeOK, BoundsInv, DiskInv, Recover, Keeps
  <1>3. DiskInv'
    BY DiskKept DEF RelocInv, Recover
  <1>4. TxnInv' /\ ProofInv'
    BY JournalFields DEF RelocInv, TypeOK, TxnInv, ProofInv, Recover, Keeps
  <1>5. HolderInv'
    BY Busy, JournalFields, NextPhase DEF RelocInv, TypeOK, TxnInv, HolderInv, WriteInv, WriteSyncInv, StageInv, CommitInv,
       CleanInv, UndoInv, Alone, Undoes, Follows, has_target_authority, Recover, Keeps, Phases
  <1> QED BY <1>1, <1>2, <1>3, <1>4, <1>5 DEF RelocInv

LEMMA RollbackSourceStep ==
    ASSUME RelocInv, RollbackSource
    PROVE  RelocInv'
  <1>1. TypeOK'
    BY RelocationAssumption, Busy, NoJournalPhase, JournalFields, NextPhase
    DEF RelocInv, TypeOK, RollbackSource, Labels, Phases
  <1>2. BoundsInv'
    BY Busy, NoJournalPhase, JournalFields DEF RelocInv, TypeOK, BoundsInv, DiskInv, RollbackSource
  <1>3. DiskInv'
    BY DiskKept DEF RelocInv, RollbackSource
  <1>4. TxnInv' /\ ProofInv'
    BY JournalFields DEF RelocInv, TypeOK, TxnInv, ProofInv, RollbackSource
  <1>5. HolderInv'
    BY Busy, NextPhase DEF RelocInv, TypeOK, TxnInv, HolderInv, WriteInv, WriteSyncInv, StageInv, CommitInv,
       CleanInv, UndoInv, Alone, Undoes, Follows, has_target_authority, RollbackSource, Phases
  <1> QED BY <1>1, <1>2, <1>3, <1>4, <1>5 DEF RelocInv

LEMMA RollbackTargetStep ==
    ASSUME RelocInv, RollbackTarget
    PROVE  RelocInv'
  <1>1. TypeOK'
    BY RelocationAssumption, Busy, NoJournalPhase, JournalFields, NextPhase
    DEF RelocInv, TypeOK, RollbackTarget, TargetValid, Labels, Phases
  <1>2. BoundsInv'
    BY Busy, NoJournalPhase, JournalFields DEF RelocInv, TypeOK, BoundsInv, DiskInv, RollbackTarget
  <1>3. DiskInv'
    BY DiskKept DEF RelocInv, RollbackTarget
  <1>4. TxnInv' /\ ProofInv'
    BY JournalFields DEF RelocInv, TypeOK, TxnInv, ProofInv, RollbackTarget, TargetValid
  <1>5. HolderInv'
    BY Busy, Contained, NextPhase DEF RelocInv, TypeOK, TxnInv, HolderInv, WriteInv, WriteSyncInv, StageInv, CommitInv,
       CleanInv, UndoInv, Alone, Undoes, Follows, has_target_authority, RollbackTarget, TargetValid, Phases
  <1> QED BY <1>1, <1>2, <1>3, <1>4, <1>5 DEF RelocInv

LEMMA FinalizeAgainStep ==
    ASSUME RelocInv, FinalizeAgain
    PROVE  RelocInv'
  <1>1. TypeOK'
    BY RelocationAssumption, Busy, NoJournalPhase, JournalFields, NextPhase
    DEF RelocInv, TypeOK, FinalizeAgain, Labels, Phases
  <1>2. BoundsInv'
    BY Busy, NoJournalPhase, JournalFields DEF RelocInv, TypeOK, BoundsInv, DiskInv, FinalizeAgain
  <1>3. DiskInv'
    BY DiskKept DEF RelocInv, FinalizeAgain
  <1>4. TxnInv' /\ ProofInv'
    BY JournalFields DEF RelocInv, TypeOK, TxnInv, ProofInv, FinalizeAgain
  <1>5. HolderInv'
    BY Busy, NextPhase DEF RelocInv, TypeOK, TxnInv, HolderInv, WriteInv, WriteSyncInv, StageInv, CommitInv,
       CleanInv, UndoInv, Alone, Undoes, Follows, has_target_authority, FinalizeAgain, Phases
  <1> QED BY <1>1, <1>2, <1>3, <1>4, <1>5 DEF RelocInv

LEMMA CrashStep ==
    ASSUME RelocInv, Crash
    PROVE  RelocInv'
  <1>1. TypeOK'
    BY RelocationAssumption, Busy, NoJournalPhase, JournalFields, NextPhase
    DEF RelocInv, TypeOK, Crash, Labels, Phases
  <1>2. BoundsInv'
    BY Busy, NoJournalPhase, JournalFields DEF RelocInv, TypeOK, BoundsInv, DiskInv, Crash
  <1>3. DiskInv'
    BY DiskKept DEF RelocInv, Crash
  <1>4. TxnInv' /\ ProofInv'
    BY JournalFields DEF RelocInv, TypeOK, TxnInv, ProofInv, Crash
  <1>5. HolderInv'
    BY Busy, NextPhase DEF RelocInv, TypeOK, TxnInv, HolderInv, WriteInv, WriteSyncInv, StageInv, CommitInv,
       CleanInv, UndoInv, Alone, Undoes, Follows, has_target_authority, Crash, Phases
  <1> QED BY <1>1, <1>2, <1>3, <1>4, <1>5 DEF RelocInv

\* Without a journal, the directory that has a session is the one that rests.
LEMMA RestingPlace ==
    ASSUME DiskInv, NEW h \in Cwds, NEW g, Rests(mayMain, h, g), NEW c \in Cwds
    PROVE  /\ staging[c] = Absent
           /\ main[c].kind = "session" <=> c = h
           /\ c = h => Whole(h, main[h]) /\ main[h].gen = g
           /\ c # h => Free(main[c])
  <1>1. RestsAs(h, g, c, <<main[c], staging[c]>>)
    BY DEF DiskInv, Rests
  <1>2. staging[c] = Absent /\ IF c = h THEN Whole(c, main[c]) /\ main[c].gen = g ELSE Free(main[c])
    BY <1>1 DEF RestsAs
  <1>3. c # h => main[c].kind # "session"
    BY <1>2, FreeIsNotWhole
  <1> QED BY <1>2, <1>3 DEF Whole

\* A relocation that starts from rest.
LEMMA PreparedFits ==
    ASSUME NEW dirs, NEW h \in Cwds, NEW g \in Nat, Rests(dirs, h, g), NEW j,
           j.phase = "Prepared", j.src = h, j.tgt # h, j.gen = g + 1
    PROVE  Fits(dirs, j)
  <1>1. SUFFICES ASSUME NEW c \in Cwds, NEW p \in dirs[c] PROVE Allows(j, c, p)
    BY DEF Fits
  <1>2. RestsAs(h, g, c, p)
    BY DEF Rests
  <1> QED BY <1>2 DEF RestsAs, Allows, SourceFits, TargetFits, has_target_authority

LEMMA StageBeginStep ==
    ASSUME RelocInv, NEW src \in Cwds, NEW tgt \in Cwds, StageBegin(src, tgt)
    PROVE  RelocInv'
  <1>1. PICK h \in Cwds, g \in 0..MaxNonce : Rests(mayMain, h, g)
    BY DEF RelocInv, DiskInv, StageBegin
  <1>2. src = h /\ main[src].gen = g /\ tgt # src
    BY <1>1, RestingPlace DEF RelocInv, StageBegin
  <1>3. g <= nonce
    BY <1>2 DEF RelocInv, DiskInv, BoundsInv, StageBegin
  <1>4. nonce \in Nat /\ MaxNonce \in Nat /\ nonce < MaxNonce /\ g \in Nat
    BY <1>1, RelocationAssumption DEF RelocInv, TypeOK, StageBegin
  <1>5. /\ mem' = [src |-> src, tgt |-> tgt, gen |-> g + 1, nonce |-> nonce + 1, phase |-> "Prepared"]
        /\ nonce' = nonce + 1 /\ pc = "held" /\ pc' = "write" /\ journal = NoJournal
        /\ UNCHANGED <<disk, txn, proof>>
    BY <1>2 DEF StageBegin
  <1>6. /\ mem' \in Journals /\ mem' # NoJournal /\ mem'.src = src /\ mem'.tgt = tgt
        /\ mem'.gen = g + 1 /\ mem'.nonce = nonce + 1 /\ mem'.phase = "Prepared"
    BY <1>3, <1>4, <1>5, NewJournal DEF Phases
  <1>7. TypeOK'
    BY <1>4, <1>5, <1>6 DEF RelocInv, TypeOK, Labels
  <1>8. BoundsInv'
    <2>1. \A c \in Cwds : \A p \in mayMain[c] : \A i \in {1, 2} :
             p[i].kind = "session" => p[i].gen \in Nat
      <3>1. SUFFICES ASSUME NEW c \in Cwds, NEW p \in mayMain[c], NEW i \in {1, 2},
                            p[i].kind = "session"
                     PROVE  p[i].gen \in Nat
        OBVIOUS
      <3>2. p \in Contents \X Contents
        BY DEF RelocInv, TypeOK
      <3>3. p[i] \in Contents
        BY <3>2
      <3> QED BY <3>1, <3>3, SessionParts
    <2>2. \A c \in Cwds : \A p \in mayMain'[c] : \A i \in {1, 2} :
             p[i].kind = "session" => p[i].gen <= nonce'
      BY <1>4, <1>5, <2>1 DEF RelocInv, BoundsInv
    <2>3. \A j \in mayJournal' \cup {mem', proof'} :
             j # NoJournal => j.gen <= nonce' /\ j.nonce <= nonce'
      <3>1. SUFFICES ASSUME NEW j \in mayJournal \cup {proof}, j # NoJournal
                     PROVE  j.gen <= nonce + 1 /\ j.nonce <= nonce + 1
        BY <1>3, <1>4, <1>5, <1>6
      <3>2. j.gen <= nonce /\ j.nonce <= nonce /\ j \in Journals
        BY <3>1 DEF RelocInv, TypeOK, BoundsInv
      <3> QED BY <1>4, <3>1, <3>2, JournalFields
    <2> QED BY <1>4, <1>5, <2>2, <2>3 DEF RelocInv, TypeOK, BoundsInv
  <1>9. DiskInv'
    BY <1>5, DiskKept DEF RelocInv
  <1>10. TxnInv' /\ ProofInv'
    BY <1>5 DEF RelocInv, TxnInv, ProofInv
  <1>11. Fits(mayMain, mem')
    BY <1>1, <1>2, <1>4, <1>6, PreparedFits
  <1>12. txn < mem'.nonce /\ (proof # NoJournal => proof.nonce < mem'.nonce)
    BY <1>4, <1>6, JournalFields DEF RelocInv, TypeOK, BoundsInv
  <1>13. WriteInv'
    BY <1>5, <1>6, <1>11, <1>12 DEF WriteInv
  <1>14. WriteSyncInv' /\ StageInv' /\ CommitInv' /\ CleanInv' /\ UndoInv'
    BY <1>5 DEF WriteSyncInv, StageInv, CommitInv, CleanInv, UndoInv
  <1> QED BY <1>7, <1>8, <1>9, <1>10, <1>13, <1>14 DEF RelocInv, HolderInv

\* The other states a target can be in: what the next phase requires.
LEMMA ReadyFits ==
    ASSUME NEW dirs, NEW j \in Journals, j # NoJournal, j.phase = "TargetPublished", Fits(dirs, j),
           PublishedIn(dirs, j), NEW k, k = [j EXCEPT !.phase = "Ready"]
    PROVE  Fits(dirs, k)
  <1>1. k.src = j.src /\ k.tgt = j.tgt /\ k.gen = j.gen /\ k.phase = "Ready"
    BY NextPhase DEF Phases
  <1>2. SUFFICES ASSUME NEW c \in Cwds, NEW p \in dirs[c] PROVE Allows(k, c, p)
    BY <1>1 DEF Fits
  <1>3. Allows(j, c, p) /\ j.src # j.tgt
    BY DEF Fits
  <1>4. c = j.tgt => p[1] = Goal(j) /\ p[2] = Absent
    BY DEF PublishedIn
  <1> QED BY <1>1, <1>3, <1>4 DEF Allows, SourceFits, TargetFits, Goal, has_target_authority

LEMMA MarkReadyStep ==
    ASSUME RelocInv, MarkReady
    PROVE  RelocInv'
  <1>1. /\ pc = "held" /\ pc' = "write" /\ UNCHANGED <<disk, txn, proof, nonce>>
        /\ journal # NoJournal /\ txn = journal.nonce /\ journal.phase = "TargetPublished"
        /\ mem' = [journal EXCEPT !.phase = "Ready"] /\ journal \in Journals
        /\ mayJournal = {journal} /\ PublishedIn(mayMain, journal)
    BY DEF MarkReady, LoadTransaction, RelocInv, TypeOK, TxnInv
  <1>2. /\ mem' \in Journals /\ mem' # NoJournal /\ mem'.phase = "Ready"
        /\ mem'.gen = journal.gen /\ mem'.nonce = journal.nonce
    BY <1>1, NextPhase DEF Phases
  <1>3. Fits(mayMain, mem')
    BY <1>1, ReadyFits DEF RelocInv, DiskInv
  <1>4. TypeOK'
    BY <1>1, <1>2 DEF RelocInv, TypeOK, Labels
  <1>5. BoundsInv'
    BY <1>1, <1>2 DEF RelocInv, BoundsInv
  <1>6. DiskInv' /\ TxnInv' /\ ProofInv'
    BY <1>1, DiskKept DEF RelocInv, TxnInv, ProofInv
  <1>7. mem' = [journal EXCEPT !.phase = mem'.phase]
    BY <1>1, <1>2
  <1>8. HolderInv'
    BY <1>1, <1>2, <1>3, <1>7 DEF HolderInv, WriteInv, WriteSyncInv, StageInv, CommitInv, CleanInv,
       UndoInv, Follows
  <1> QED BY <1>4, <1>5, <1>6, <1>8 DEF RelocInv

LEMMA CommittedFits ==
    ASSUME NEW dirs, NEW j \in Journals, j # NoJournal, j.phase = "Ready", Fits(dirs, j),
           SourceGone(dirs, j), NEW k, k = [j EXCEPT !.phase = "Committed"]
    PROVE  Fits(dirs, k)
  <1>1. k.src = j.src /\ k.tgt = j.tgt /\ k.gen = j.gen /\ k.phase = "Committed"
    BY NextPhase DEF Phases
  <1>2. SUFFICES ASSUME NEW c \in Cwds, NEW p \in dirs[c] PROVE Allows(k, c, p)
    BY <1>1 DEF Fits
  <1>3. Allows(j, c, p) /\ (c = j.src => Free(p[1]))
    BY DEF Fits, SourceGone
  <1> QED BY <1>1, <1>3 DEF Allows, SourceFits, TargetFits, Goal, has_target_authority

LEMMA RolledBackFits ==
    ASSUME NEW dirs, NEW j \in Journals, j # NoJournal, ~has_target_authority(j.phase), Fits(dirs, j),
           StagingGone(dirs, j), TargetGone(dirs, j), NEW k, k = [j EXCEPT !.phase = "RolledBack"]
    PROVE  Fits(dirs, k)
  <1>1. k.src = j.src /\ k.tgt = j.tgt /\ k.gen = j.gen /\ k.phase = "RolledBack"
    BY NextPhase DEF Phases
  <1>2. SUFFICES ASSUME NEW c \in Cwds, NEW p \in dirs[c] PROVE Allows(k, c, p)
    BY <1>1 DEF Fits
  <1>3. Allows(j, c, p) /\ (c = j.tgt => Free(p[1]) /\ p[2] = Absent)
    BY DEF Fits, StagingGone, TargetGone
  <1> QED BY <1>1, <1>3 DEF Allows, SourceFits, TargetFits, has_target_authority

LEMMA FinishStep ==
    ASSUME RelocInv, Finish
    PROVE  RelocInv'
  <1> DEFINE terminal == IF has_target_authority(mem.phase) THEN "Committed" ELSE "RolledBack"
  <1>1. /\ pc = "finish" /\ UNCHANGED disk /\ mem \in Journals /\ mem # NoJournal /\ mem.phase \in Phases
        /\ journal = mem /\ mayJournal = {mem} /\ Fits(mayMain, mem) /\ terminal \in Phases
    BY Busy DEF Finish, RelocInv, TypeOK, DiskInv, HolderInv, CleanInv, Alone, Phases
  <1>2. CASE mem.phase = terminal
    <2>1. pc' = "held" /\ mem' = NoJournal /\ proof' = mem /\ UNCHANGED <<txn, nonce>>
      BY <1>2 DEF Finish
    <2>2. TypeOK'
      BY <1>1, <2>1, NoJournalPhase DEF RelocInv, TypeOK, Labels
    <2>3. BoundsInv'
      BY <1>1, <2>1 DEF RelocInv, BoundsInv
    <2>4. DiskInv' /\ TxnInv'
      BY <1>1, <2>1, DiskKept DEF RelocInv, TxnInv
    <2>5. ProofInv'
      BY <1>1, <1>2, <2>1 DEF ProofInv, Terminal
    <2>6. HolderInv'
      BY <1>1, <2>1 DEF HolderInv, WriteInv, WriteSyncInv, StageInv, CommitInv, CleanInv, UndoInv
    <2> QED BY <2>2, <2>3, <2>4, <2>5, <2>6 DEF RelocInv
  <1>3. CASE mem.phase # terminal
    <2>1. pc' = "write" /\ mem' = [mem EXCEPT !.phase = terminal] /\ UNCHANGED <<txn, proof, nonce>>
      BY <1>3 DEF Finish
    <2>2. /\ mem' \in Journals /\ mem' # NoJournal /\ mem'.phase = terminal
          /\ mem'.gen = mem.gen /\ mem'.nonce = mem.nonce
      BY <1>1, <2>1, NextPhase
    <2>3. TypeOK'
      BY <1>1, <2>1, <2>2 DEF RelocInv, TypeOK, Labels
    <2>4. BoundsInv'
      BY <1>1, <2>1, <2>2 DEF RelocInv, BoundsInv
    <2>5. DiskInv' /\ TxnInv' /\ ProofInv'
      BY <1>1, <2>1, DiskKept DEF RelocInv, TxnInv, ProofInv
    <2>6. /\ Follows(mem.phase, terminal) /\ Fits(mayMain, mem')
          /\ terminal = "RolledBack" => txn # mem.nonce
      <3>1. CASE has_target_authority(mem.phase)
        <4>1. mem.phase = "Ready" /\ terminal = "Committed" /\ SourceGone(mayMain, mem)
          BY <1>1, <1>3, <3>1 DEF has_target_authority, RelocInv, HolderInv, CleanInv
        <4> QED BY <1>1, <2>1, <4>1, CommittedFits DEF Follows
      <3>2. CASE ~has_target_authority(mem.phase)
        <4>1. /\ mem.phase \in {"Prepared", "Staged", "TargetPublished"} /\ terminal = "RolledBack"
              /\ StagingGone(mayMain, mem) /\ TargetGone(mayMain, mem) /\ txn # mem.nonce
          BY <1>1, <1>3, <3>2 DEF has_target_authority, RelocInv, HolderInv, CleanInv, Undoes, Phases
        <4>2. Fits(mayMain, mem')
          BY <1>1, <2>1, <3>2, <4>1, RolledBackFits
        <4> QED BY <4>1, <4>2 DEF Follows
      <3> QED BY <3>1, <3>2
    <2>7. WriteInv'
      BY <1>1, <2>1, <2>2, <2>6 DEF WriteInv
    <2>8. WriteSyncInv' /\ StageInv' /\ CommitInv' /\ CleanInv' /\ UndoInv'
      BY <2>1 DEF WriteSyncInv, StageInv, CommitInv, CleanInv, UndoInv
    <2> QED BY <2>3, <2>4, <2>5, <2>7, <2>8 DEF RelocInv, HolderInv
  <1> QED BY <1>2, <1>3

-----------------------------------------------------------------------------
(* The steps on the journal.                                               *)

LEMMA JournalSynced ==
    ASSUME RelocInv, SyncNamespace, UNCHANGED <<main, staging, mayMain, journal>>
    PROVE  /\ DiskInv' /\ mayJournal' = {journal} /\ journal \in mayJournal
           /\ mayJournal' \subseteq mayJournal
  BY DEF RelocInv, DiskInv, SyncNamespace

LEMMA WriteRenameStep ==
    ASSUME RelocInv, WriteRename
    PROVE  RelocInv'
  <1>1. /\ pc = "write" /\ pc' = "write_sync" /\ journal' = mem /\ mayJournal' = mayJournal \cup {mem}
        /\ UNCHANGED <<main, staging, mayMain, mem, txn, proof, nonce>>
        /\ mem \in Journals /\ mem # NoJournal /\ mem.phase \in Phases /\ Fits(mayMain, mem)
        /\ mem.nonce \in Nat /\ txn \in Nat /\ journal \in Journals /\ proof \in Journals
    BY Busy DEF WriteRename, RelocInv, TypeOK, HolderInv, WriteInv
  <1>2. TypeOK'
    BY <1>1 DEF RelocInv, TypeOK, Labels
  <1>3. BoundsInv'
    BY <1>1 DEF RelocInv, BoundsInv
  <1>4. DiskInv'
    BY <1>1 DEF RelocInv, DiskInv
  <1>5. /\ mem.phase \notin {"Ready", "Committed"} => txn # mem.nonce
        /\ proof # NoJournal => proof.nonce # mem.nonce /\ proof.phase \in Terminal
    <2>1. CASE mem.phase = "Prepared"
      BY <1>1, <2>1, JournalFields DEF RelocInv, HolderInv, WriteInv, ProofInv
    <2>2. CASE mem.phase # "Prepared"
      <3>1. /\ journal # NoJournal /\ mem = [journal EXCEPT !.phase = mem.phase]
            /\ Follows(journal.phase, mem.phase)
        BY <1>1, <2>2 DEF RelocInv, HolderInv, WriteInv
      <3>2. mem.nonce = journal.nonce
        BY <1>1, <3>1, NextPhase
      <3>3. proof # NoJournal => proof.nonce # mem.nonce /\ proof.phase \in Terminal
        BY <3>1, <3>2 DEF RelocInv, ProofInv, Terminal, Follows
      <3>4. mem.phase \notin {"Ready", "Committed"} => txn # mem.nonce
        BY <1>1, <2>2, <3>1, <3>2 DEF RelocInv, HolderInv, WriteInv, TxnInv, Follows
      <3> QED BY <3>3, <3>4
    <2> QED BY <2>1, <2>2
  <1>6. TxnInv' /\ ProofInv'
    BY <1>1, <1>5 DEF TxnInv, ProofInv
  <1>7. HolderInv'
    BY <1>1 DEF RelocInv, HolderInv, WriteInv, WriteSyncInv, StageInv, CommitInv, CleanInv, UndoInv
  <1> QED BY <1>2, <1>3, <1>4, <1>6, <1>7 DEF RelocInv

LEMMA WriteSyncStep ==
    ASSUME RelocInv, WriteSync
    PROVE  RelocInv'
  <1>1. /\ pc = "write_sync" /\ SyncNamespace /\ UNCHANGED <<main, staging, mayMain, journal>>
        /\ journal = mem /\ mem \in Journals /\ mem # NoJournal /\ mem.phase \in Phases
        /\ mem.nonce \in 1..MaxNonce
    BY Busy DEF WriteSync, RelocInv, TypeOK, HolderInv, WriteSyncInv
  <1>2. DiskInv' /\ mayJournal' = {mem} /\ mayJournal' \subseteq mayJournal
    BY <1>1, JournalSynced
  <1>3. CASE mem.phase \in {"Prepared", "Staged", "Ready"}
    <2>1. /\ pc' = [Prepared |-> "copy", Staged |-> "publish", Ready |-> "commit_sync"][mem.phase]
          /\ UNCHANGED <<mem, txn, proof, nonce>>
      BY <1>3 DEF WriteSync
    <2>2. /\ mem.phase = "Prepared" => pc' = "copy"
          /\ mem.phase = "Staged" => pc' = "publish"
          /\ mem.phase = "Ready" => pc' = "commit_sync"
      BY <2>1
    <2>3. TypeOK'
      BY <1>1, <1>2, <1>3, <2>1, <2>2 DEF RelocInv, TypeOK, Labels
    <2>4. BoundsInv'
      BY <1>1, <1>2, <2>1 DEF RelocInv, BoundsInv
    <2>5. TxnInv' /\ ProofInv'
      BY <1>1, <1>2, <2>1 DEF RelocInv, TxnInv, ProofInv
    <2>6. HolderInv'
      BY <1>1, <1>2, <1>3, <2>1, <2>2 DEF RelocInv, HolderInv, WriteInv, WriteSyncInv, StageInv,
         CommitInv, CleanInv, UndoInv, Alone, has_target_authority
    <2> QED BY <1>2, <2>3, <2>4, <2>5, <2>6 DEF RelocInv
  <1>4. CASE mem.phase = "TargetPublished"
    <2>1. txn' = mem.nonce /\ pc' = "held" /\ mem' = NoJournal /\ UNCHANGED <<proof, nonce>>
      BY <1>4 DEF WriteSync
    <2>2. TypeOK'
      BY <1>1, <1>2, <2>1, NoJournalPhase DEF RelocInv, TypeOK, Labels
    <2>3. BoundsInv'
      BY <1>1, <1>2, <2>1 DEF RelocInv, BoundsInv
    <2>4. TxnInv' /\ ProofInv'
      BY <1>1, <1>2, <1>4, <2>1 DEF RelocInv, TxnInv, ProofInv, HolderInv, WriteSyncInv
    <2>5. HolderInv'
      BY <2>1 DEF HolderInv, WriteInv, WriteSyncInv, StageInv, CommitInv, CleanInv, UndoInv
    <2> QED BY <1>2, <2>2, <2>3, <2>4, <2>5 DEF RelocInv
  <1>5. CASE mem.phase \in {"Committed", "RolledBack"}
    <2>1. proof' = mem /\ pc' = "held" /\ mem' = NoJournal /\ UNCHANGED <<txn, nonce>>
      BY <1>5 DEF WriteSync
    <2>2. TypeOK'
      BY <1>1, <1>2, <2>1, NoJournalPhase DEF RelocInv, TypeOK, Labels
    <2>3. BoundsInv'
      BY <1>1, <1>2, <2>1 DEF RelocInv, BoundsInv
    <2>4. TxnInv' /\ ProofInv'
      BY <1>1, <1>2, <1>5, <2>1 DEF RelocInv, TxnInv, ProofInv, Terminal
    <2>5. HolderInv'
      BY <2>1 DEF HolderInv, WriteInv, WriteSyncInv, StageInv, CommitInv, CleanInv, UndoInv
    <2> QED BY <1>2, <2>2, <2>3, <2>4, <2>5 DEF RelocInv
  <1> QED BY <1>1, <1>3, <1>4, <1>5 DEF Phases

LEMMA RecoverSyncStep ==
    ASSUME RelocInv, RecoverSync
    PROVE  RelocInv'
  <1>1. /\ pc = "recover_sync" /\ SyncNamespace /\ UNCHANGED <<main, staging, mayMain, journal>>
        /\ journal = mem /\ mem \in Journals /\ mem # NoJournal /\ txn # mem.nonce
        /\ pc' = IF has_target_authority(mem.phase) THEN "commit_sync" ELSE "rb_source"
        /\ UNCHANGED <<mem, txn, proof, nonce>>
    BY Busy DEF RecoverSync, RelocInv, TypeOK, HolderInv, CommitInv
  <1>2. DiskInv' /\ mayJournal' = {mem} /\ mayJournal' \subseteq mayJournal
    BY <1>1, JournalSynced
  <1>3. TypeOK'
    BY <1>1, <1>2 DEF RelocInv, TypeOK, Labels
  <1>4. BoundsInv'
    BY <1>1, <1>2 DEF RelocInv, BoundsInv
  <1>5. TxnInv' /\ ProofInv'
    BY <1>1, <1>2 DEF RelocInv, TxnInv, ProofInv
  <1>6. HolderInv'
    BY <1>1, <1>2 DEF HolderInv, WriteInv, WriteSyncInv, StageInv, CommitInv, CleanInv, UndoInv,
       Alone, Undoes
  <1> QED BY <1>2, <1>3, <1>4, <1>5, <1>6 DEF RelocInv

LEMMA CommitSyncStep ==
    ASSUME RelocInv, CommitSync
    PROVE  RelocInv'
  <1>1. /\ pc = "commit_sync" /\ SyncNamespace /\ UNCHANGED <<main, staging, mayMain, journal>>
        /\ journal = mem /\ mem \in Journals /\ mem # NoJournal /\ has_target_authority(mem.phase)
        /\ UNCHANGED <<txn, proof, nonce>>
        /\ \/ pc' = "rm_source" /\ mem' = mem
           \/ pc' = "held" /\ mem' = NoJournal
    BY Busy DEF CommitSync, RelocInv, TypeOK, HolderInv, CommitInv
  <1>2. DiskInv' /\ mayJournal' = {mem} /\ mayJournal' \subseteq mayJournal
    BY <1>1, JournalSynced
  <1>3. TypeOK'
    BY <1>1, <1>2, NoJournalPhase DEF RelocInv, TypeOK, Labels
  <1>4. BoundsInv'
    BY <1>1, <1>2 DEF RelocInv, BoundsInv
  <1>5. TxnInv' /\ ProofInv'
    BY <1>1, <1>2 DEF RelocInv, TxnInv, ProofInv
  <1>6. HolderInv'
    BY <1>1, <1>2 DEF HolderInv, WriteInv, WriteSyncInv, StageInv, CommitInv, CleanInv, UndoInv, Alone
  <1> QED BY <1>2, <1>3, <1>4, <1>5, <1>6 DEF RelocInv

\* A terminal journal leaves one complete copy.
LEMMA TerminalRests ==
    ASSUME NEW dirs \in [Cwds -> SUBSET (Contents \X Contents)],
           NEW j \in Journals, j # NoJournal, j.phase \in Terminal, Fits(dirs, j)
    PROVE  /\ j.phase = "Committed" => Rests(dirs, j.tgt, j.gen)
           /\ j.phase = "RolledBack" => Rests(dirs, j.src, j.gen - 1)
           /\ \E h \in Cwds, g \in 0..MaxNonce : Rests(dirs, h, g)
  <1>0. j.src \in Cwds /\ j.tgt \in Cwds /\ j.gen \in 1..MaxNonce
    BY JournalFields
  <1>1. ASSUME NEW c \in Cwds, NEW p \in dirs[c], j.phase = "Committed"
        PROVE  RestsAs(j.tgt, j.gen, c, p)
    <2>1. Allows(j, c, p) /\ j.src # j.tgt
      BY <1>1 DEF Fits
    <2>2. p[2] = Absent /\ (c = j.tgt => p[1] = Goal(j)) /\ (c # j.tgt => Free(p[1]))
      BY <1>1, <2>1 DEF Allows, SourceFits, TargetFits, has_target_authority
    <2> QED BY <2>2, GoalFields DEF RestsAs, Whole
  <1>2. ASSUME NEW c \in Cwds, NEW p \in dirs[c], j.phase = "RolledBack"
        PROVE  RestsAs(j.src, j.gen - 1, c, p)
    <2>1. Allows(j, c, p) /\ j.src # j.tgt
      BY <1>2 DEF Fits
    <2>2. /\ p[2] = Absent /\ (c # j.src => Free(p[1]))
          /\ c = j.src => Whole(c, p[1]) /\ p[1].gen + 1 = j.gen
      BY <1>2, <2>1 DEF Allows, SourceFits, TargetFits, has_target_authority
    <2>3. p[1] \in Contents
      BY <1>2
    <2>4. c = j.src => p[1].gen = j.gen - 1
      BY <1>0, <2>2, <2>3, SessionParts DEF Whole
    <2> QED BY <2>2, <2>4 DEF RestsAs
  <1>3. /\ j.phase = "Committed" => Rests(dirs, j.tgt, j.gen)
        /\ j.phase = "RolledBack" => Rests(dirs, j.src, j.gen - 1)
    BY <1>1, <1>2 DEF Rests
  <1>4. j.gen \in 0..MaxNonce /\ j.gen - 1 \in 0..MaxNonce
    BY <1>0, RelocationAssumption
  <1> QED BY <1>0, <1>3, <1>4 DEF Terminal

LEMMA FinalizeRemoveStep ==
    ASSUME RelocInv, FinalizeRemove
    PROVE  RelocInv'
  <1>1. /\ pc = "held" /\ pc' = "fin_sync" /\ journal' = NoJournal
        /\ mayJournal' = mayJournal \cup {NoJournal} /\ UNCHANGED <<main, staging, mayMain>>
        /\ UNCHANGED <<mem, txn, proof, nonce>> /\ journal # NoJournal /\ journal = proof
        /\ mem = NoJournal /\ mayJournal = {journal} /\ journal \in Journals /\ journal.phase \in Terminal
    BY DEF FinalizeRemove, RelocInv, TypeOK, ProofInv
  <1>2. Fits(mayMain, journal)
    BY <1>1 DEF RelocInv, DiskInv
  <1>3. \E h \in Cwds, g \in 0..MaxNonce : Rests(mayMain, h, g)
    BY <1>1, <1>2, TerminalRests DEF RelocInv, TypeOK
  <1>4. DiskInv'
    BY <1>1, <1>2, <1>3 DEF RelocInv, DiskInv
  <1>5. TypeOK'
    BY <1>1, NoJournalPhase DEF RelocInv, TypeOK, Labels
  <1>6. BoundsInv'
    BY <1>1 DEF RelocInv, BoundsInv
  <1>7. TxnInv' /\ ProofInv'
    BY <1>1 DEF RelocInv, TxnInv, ProofInv
  <1>8. HolderInv'
    BY <1>1 DEF HolderInv, WriteInv, WriteSyncInv, StageInv, CommitInv, CleanInv, UndoInv
  <1> QED BY <1>4, <1>5, <1>6, <1>7, <1>8 DEF RelocInv

LEMMA FinalizeSyncStep ==
    ASSUME RelocInv, FinalizeSync
    PROVE  RelocInv'
  <1>1. /\ pc = "fin_sync" /\ SyncNamespace /\ UNCHANGED <<main, staging, mayMain, journal>>
        /\ pc' = "held" /\ mem' = NoJournal /\ UNCHANGED <<txn, proof, nonce>> /\ journal = NoJournal
    BY DEF FinalizeSync, RelocInv, HolderInv, CommitInv
  <1>2. DiskInv' /\ mayJournal' = {journal} /\ mayJournal' \subseteq mayJournal
    BY <1>1, JournalSynced
  <1>3. TypeOK'
    BY <1>1, <1>2, NoJournalPhase DEF RelocInv, TypeOK, Labels
  <1>4. BoundsInv'
    BY <1>1, <1>2 DEF RelocInv, BoundsInv
  <1>5. TxnInv' /\ ProofInv'
    BY <1>1, <1>2 DEF RelocInv, TxnInv, ProofInv
  <1>6. HolderInv'
    BY <1>1 DEF HolderInv, WriteInv, WriteSyncInv, StageInv, CommitInv, CleanInv, UndoInv
  <1> QED BY <1>2, <1>3, <1>4, <1>5, <1>6 DEF RelocInv

-----------------------------------------------------------------------------
(* The steps on the directories.                                           *)

Grown(x) == x.kind = "session" => x.gen <= nonce
PathsOK ==
    /\ main \in [Cwds -> Contents] /\ staging \in [Cwds -> Contents]
    /\ mayMain \in [Cwds -> SUBSET (Contents \X Contents)]
    /\ \A c \in Cwds : <<main[c], staging[c]>> \in mayMain[c]
    /\ \A c \in Cwds : \A p \in mayMain[c] : Grown(p[1]) /\ Grown(p[2])

LEMMA PathsTyped ==
    ASSUME RelocInv
    PROVE  PathsOK
  BY DEF RelocInv, TypeOK, BoundsInv, DiskInv, PathsOK, Grown

LEMMA PathSet ==
    ASSUME RelocInv, NEW c \in Cwds, NEW m \in Contents, NEW s \in Contents, Grown(m), Grown(s),
           SetPath(c, m, s) \/ SetPathDurably(c, m, s), nonce' = nonce
    PROVE  /\ PathsOK' /\ More(mayMain', mayMain, c, <<m, s>>)
           /\ \A d \in Cwds : /\ main'[d] = IF d = c THEN m ELSE main[d]
                              /\ staging'[d] = IF d = c THEN s ELSE staging[d]
  <1> DEFINE pair == <<m, s>>
  <1>0. PathsOK /\ pair \in Contents \X Contents /\ pair[1] = m /\ pair[2] = s
    BY PathsTyped
  <1>1. /\ main' = [main EXCEPT ![c] = m] /\ staging' = [staging EXCEPT ![c] = s]
        /\ mayMain' = [mayMain EXCEPT ![c] = @ \cup {pair}] \/ mayMain' = [mayMain EXCEPT ![c] = {pair}]
    BY DEF SetPath, SetPathDurably
  <1> HIDE DEF pair
  <1>2. /\ mayMain' \in [Cwds -> SUBSET (Contents \X Contents)]
        /\ \A d \in Cwds : /\ mayMain'[d] \subseteq IF d = c THEN mayMain[d] \cup {pair} ELSE mayMain[d]
                           /\ d # c => mayMain'[d] = mayMain[d]
        /\ pair \in mayMain'[c]
    BY <1>0, <1>1 DEF PathsOK
  <1>3. /\ main' \in [Cwds -> Contents] /\ staging' \in [Cwds -> Contents]
        /\ \A d \in Cwds : /\ main'[d] = IF d = c THEN m ELSE main[d]
                           /\ staging'[d] = IF d = c THEN s ELSE staging[d]
    BY <1>0, <1>1 DEF PathsOK
  <1>4. \A d \in Cwds : <<main'[d], staging'[d]>> \in mayMain'[d]
    BY <1>0, <1>2, <1>3 DEF PathsOK, pair
  <1>5. \A d \in Cwds : \A p \in mayMain'[d] : Grown(p[1])' /\ Grown(p[2])'
    BY <1>0, <1>2 DEF PathsOK, Grown
  <1> QED BY <1>2, <1>3, <1>4, <1>5 DEF PathsOK, More, pair

LEMMA PathSync ==
    ASSUME RelocInv, NEW c \in Cwds, SyncParent(c), UNCHANGED <<main, staging, nonce>>
    PROVE  /\ PathsOK' /\ Fewer(mayMain', mayMain) /\ mayMain'[c] = {<<main[c], staging[c]>>}
           /\ \A d \in Cwds : d # c => mayMain'[d] = mayMain[d]
  <1>0. PathsOK
    BY PathsTyped
  <1>1. /\ mayMain' \in [Cwds -> SUBSET (Contents \X Contents)]
        /\ mayMain'[c] = {<<main[c], staging[c]>>}
        /\ \A d \in Cwds : d # c => mayMain'[d] = mayMain[d]
    BY <1>0 DEF PathsOK, SyncParent
  <1>2. Fewer(mayMain', mayMain)
    BY <1>0, <1>1 DEF PathsOK, Fewer
  <1>3. \A d \in Cwds : <<main'[d], staging'[d]>> \in mayMain'[d]
    BY <1>0, <1>1 DEF PathsOK
  <1>4. \A d \in Cwds : \A p \in mayMain'[d] : Grown(p[1])' /\ Grown(p[2])'
    BY <1>0, <1>2 DEF PathsOK, Grown, Fewer
  <1> QED BY <1>0, <1>1, <1>2, <1>3, <1>4 DEF PathsOK

\* What a step of a running operation on the directories has left to show.
LEMMA PathStep ==
    ASSUME RelocInv, pc \notin {"free", "held", "fin_sync"}, Alone,
           txn = mem.nonce => mem.phase # "TargetPublished",
           PathsOK', Fits(mayMain', mem), UNCHANGED <<journal, mayJournal, txn, proof, nonce>>,
           pc' \in Labels,
           \/ mem' = NoJournal /\ pc' = "held"
           \/ /\ mem' \in Journals /\ mem' # NoJournal /\ mem'.gen = mem.gen /\ mem'.nonce = mem.nonce
              /\ pc' \notin {"free", "held", "fin_sync"}
    PROVE  TypeOK' /\ BoundsInv' /\ DiskInv' /\ TxnInv' /\ ProofInv'
  <1>1. mem # NoJournal
    BY Busy DEF RelocInv
  <1>2. TypeOK'
    BY NoJournalPhase DEF RelocInv, TypeOK, PathsOK
  <1>3. BoundsInv'
    <2>1. \A j \in mayJournal' \cup {mem', proof'} :
             j # NoJournal => j.gen <= nonce' /\ j.nonce <= nonce'
      BY <1>1 DEF RelocInv, BoundsInv
    <2>2. \A c \in Cwds : \A p \in mayMain'[c] : \A i \in {1, 2} :
             p[i].kind = "session" => p[i].gen <= nonce'
      BY DEF PathsOK, Grown
    <2> QED BY <2>1, <2>2 DEF RelocInv, BoundsInv
  <1>4. DiskInv'
    BY <1>1 DEF RelocInv, DiskInv, PathsOK, Alone
  <1>5. TxnInv' /\ ProofInv'
    BY DEF RelocInv, TxnInv, ProofInv, Alone
  <1> QED BY <1>2, <1>3, <1>4, <1>5

\* What the journal of a running operation says of the two directories now.
LEMMA Now ==
    ASSUME RelocInv, pc \notin {"free", "held", "fin_sync"}, Alone
    PROVE  /\ mem \in Journals /\ mem # NoJournal /\ mem.src \in Cwds /\ mem.tgt \in Cwds
           /\ mem.gen \in 1..MaxNonce /\ mem.phase \in Phases /\ mem.gen <= nonce /\ mem.src # mem.tgt
           /\ Fits(mayMain, mem)
           /\ \A c \in Cwds : /\ Allows(mem, c, <<main[c], staging[c]>>)
                              /\ main[c] \in Contents /\ staging[c] \in Contents
                              /\ Grown(main[c]) /\ Grown(staging[c])
           /\ SourceFits(mem, main[mem.src]) /\ TargetFits(mem, main[mem.tgt])
           /\ staging[mem.src] = Absent
           /\ mem.phase \notin {"Prepared", "Staged"} => staging[mem.tgt] = Absent
  <1>1. /\ mem \in Journals /\ mem # NoJournal /\ mem.src \in Cwds /\ mem.tgt \in Cwds
        /\ mem.gen \in 1..MaxNonce /\ mem.phase \in Phases
    BY Busy DEF RelocInv, TypeOK
  <1>2. Fits(mayMain, mem) /\ mem.src # mem.tgt /\ mem.gen <= nonce
    BY <1>1 DEF RelocInv, DiskInv, BoundsInv, Alone, Fits
  <1>3. \A c \in Cwds : /\ Allows(mem, c, <<main[c], staging[c]>>)
                        /\ main[c] \in Contents /\ staging[c] \in Contents
                        /\ Grown(main[c]) /\ Grown(staging[c])
    <2> TAKE c \in Cwds
    <2> DEFINE p == <<main[c], staging[c]>>
    <2>1. p \in mayMain[c] /\ p[1] = main[c] /\ p[2] = staging[c] /\ PathsOK
      BY PathsTyped DEF PathsOK
    <2> QED BY <1>2, <2>1 DEF PathsOK, Fits
  <1>4. /\ SourceFits(mem, main[mem.src]) /\ TargetFits(mem, main[mem.tgt])
        /\ staging[mem.src] = Absent
        /\ mem.phase \notin {"Prepared", "Staged"} => staging[mem.tgt] = Absent
    BY <1>1, <1>2, <1>3 DEF Allows
  <1> QED BY <1>1, <1>2, <1>3, <1>4

\* A new state of the target's directory, or of the source's.
LEMMA TargetMay ==
    ASSUME NEW j, j.src # j.tgt, NEW m, NEW s, TargetFits(j, m),
           s = Absent \/ j.phase \in {"Prepared", "Staged"}
    PROVE  Allows(j, j.tgt, <<m, s>>)
  BY DEF Allows

LEMMA SourceMay ==
    ASSUME NEW j, j.src # j.tgt, NEW m, SourceFits(j, m)
    PROVE  Allows(j, j.src, <<m, Absent>>)
  BY DEF Allows

LEMMA CopyStartStep ==
    ASSUME RelocInv, CopyStart
    PROVE  RelocInv'
  <1>1. /\ pc = "copy" /\ pc' = "copying" /\ Alone /\ mem.phase = "Prepared"
        /\ SetPath(mem.tgt, main[mem.tgt], Partial)
        /\ UNCHANGED <<journal, mayJournal, mem, txn, proof, nonce>>
    BY DEF CopyStart, RelocInv, HolderInv, StageInv
  <1>2. /\ mem \in Journals /\ mem # NoJournal /\ mem.tgt \in Cwds /\ mem.src # mem.tgt
        /\ main[mem.tgt] \in Contents /\ Grown(main[mem.tgt]) /\ TargetFits(mem, main[mem.tgt])
        /\ Fits(mayMain, mem) /\ Partial \in Contents /\ Grown(Partial)
    BY <1>1, Now, Contained DEF Grown
  <1>3. PathsOK' /\ More(mayMain', mayMain, mem.tgt, <<main[mem.tgt], Partial>>)
    BY <1>1, <1>2, PathSet
  <1>4. Fits(mayMain', mem)
    BY <1>1, <1>2, <1>3, MoreFits, TargetMay
  <1>5. TypeOK' /\ BoundsInv' /\ DiskInv' /\ TxnInv' /\ ProofInv'
    BY <1>1, <1>2, <1>3, <1>4, PathStep DEF Labels
  <1>6. HolderInv'
    BY <1>1 DEF HolderInv, WriteInv, WriteSyncInv, StageInv, CommitInv, CleanInv, UndoInv, Alone
  <1> QED BY <1>5, <1>6 DEF RelocInv

LEMMA CopyFinishStep ==
    ASSUME RelocInv, CopyFinish
    PROVE  RelocInv'
  <1>1. /\ pc = "copying" /\ pc' = "rewrite" /\ Alone /\ mem.phase = "Prepared"
        /\ SetPathDurably(mem.tgt, main[mem.tgt], main[mem.src])
        /\ UNCHANGED <<journal, mayJournal, mem, txn, proof, nonce>>
    BY DEF CopyFinish, RelocInv, HolderInv, StageInv
  <1>2. /\ mem \in Journals /\ mem # NoJournal /\ mem.tgt \in Cwds /\ mem.src \in Cwds
        /\ mem.src # mem.tgt
        /\ main[mem.tgt] \in Contents /\ Grown(main[mem.tgt]) /\ TargetFits(mem, main[mem.tgt])
        /\ Fits(mayMain, mem) /\ main[mem.src] \in Contents /\ Grown(main[mem.src])
    BY <1>1, Now
  <1>3. PathsOK' /\ More(mayMain', mayMain, mem.tgt, <<main[mem.tgt], main[mem.src]>>)
        /\ staging'[mem.tgt] = main[mem.src] /\ main'[mem.src] = main[mem.src]
    BY <1>1, <1>2, PathSet
  <1>4. Fits(mayMain', mem)
    BY <1>1, <1>2, <1>3, MoreFits, TargetMay
  <1>5. TypeOK' /\ BoundsInv' /\ DiskInv' /\ TxnInv' /\ ProofInv'
    BY <1>1, <1>2, <1>3, <1>4, PathStep DEF Labels
  <1>6. HolderInv'
    BY <1>1, <1>3 DEF HolderInv, WriteInv, WriteSyncInv, StageInv, CommitInv, CleanInv, UndoInv, Alone
  <1> QED BY <1>5, <1>6 DEF RelocInv

LEMMA GoalContained ==
    ASSUME NEW j \in Journals, j # NoJournal
    PROVE  Goal(j) \in Contents /\ Hollow(j) \in Contents
  <1>1. j.src \in Cwds /\ j.tgt \in Cwds /\ j.gen \in 0..MaxNonce
    BY JournalFields, RelocationAssumption
  <1> QED BY <1>1, SessionContained DEF Goal, Hollow

LEMMA RewriteSummaryStep ==
    ASSUME RelocInv, RewriteSummary
    PROVE  RelocInv'
  <1> DEFINE s == Session(mem.tgt, mem.gen, mem.src, staging[mem.tgt].whole)
  <1>1. /\ pc = "rewrite" /\ pc' = "stage_sync" /\ Alone /\ mem.phase = "Prepared"
        /\ SetPath(mem.tgt, main[mem.tgt], s) /\ staging[mem.tgt] = main[mem.src]
        /\ UNCHANGED <<journal, mayJournal, mem, txn, proof, nonce>>
    BY DEF RewriteSummary, RelocInv, HolderInv, StageInv
  <1>2. /\ mem \in Journals /\ mem # NoJournal /\ mem.tgt \in Cwds /\ mem.src \in Cwds
        /\ mem.src # mem.tgt /\ mem.gen <= nonce
        /\ main[mem.tgt] \in Contents /\ Grown(main[mem.tgt]) /\ TargetFits(mem, main[mem.tgt])
        /\ Fits(mayMain, mem) /\ main[mem.src] \in Contents /\ SourceFits(mem, main[mem.src])
    BY <1>1, Now
  <1>3. staging[mem.tgt].whole = TRUE
    BY <1>1, <1>2, SessionParts DEF SourceFits, Whole, has_target_authority
  <1>4. s = Goal(mem)
    BY <1>3 DEF Goal
  <1>5. s \in Contents /\ Grown(s)
    BY <1>2, <1>4, GoalContained, GoalFields DEF Grown
  <1>6. PathsOK' /\ More(mayMain', mayMain, mem.tgt, <<main[mem.tgt], s>>) /\ staging'[mem.tgt] = s
    BY <1>1, <1>2, <1>5, PathSet
  <1>7. Fits(mayMain', mem)
    BY <1>1, <1>2, <1>6, MoreFits, TargetMay
  <1>8. TypeOK' /\ BoundsInv' /\ DiskInv' /\ TxnInv' /\ ProofInv'
    BY <1>1, <1>2, <1>6, <1>7, PathStep DEF Labels
  <1>9. HolderInv'
    BY <1>1, <1>4, <1>6 DEF HolderInv, WriteInv, WriteSyncInv, StageInv, CommitInv, CleanInv,
       UndoInv, Alone
  <1> QED BY <1>8, <1>9 DEF RelocInv

LEMMA StageSyncStep ==
    ASSUME RelocInv, StageSync
    PROVE  RelocInv'
  <1>1. /\ pc = "stage_sync" /\ pc' = "write" /\ Alone /\ mem.phase = "Prepared"
        /\ SyncParent(mem.tgt) /\ staging[mem.tgt] = Goal(mem)
        /\ mem' = [mem EXCEPT !.phase = "Staged"]
        /\ UNCHANGED <<main, staging, journal, mayJournal, txn, proof, nonce>>
    BY DEF StageSync, RelocInv, HolderInv, StageInv
  <1>2. /\ mem \in Journals /\ mem # NoJournal /\ mem.tgt \in Cwds /\ mem.src # mem.tgt
        /\ TargetFits(mem, main[mem.tgt]) /\ Fits(mayMain, mem)
    BY <1>1, Now
  <1>3. /\ mem' \in Journals /\ mem' # NoJournal /\ mem'.phase = "Staged"
        /\ mem'.src = mem.src /\ mem'.tgt = mem.tgt /\ mem'.gen = mem.gen /\ mem'.nonce = mem.nonce
    BY <1>1, <1>2, NextPhase DEF Phases
  <1>4. /\ PathsOK' /\ Fewer(mayMain', mayMain)
        /\ mayMain'[mem.tgt] = {<<main[mem.tgt], staging[mem.tgt]>>}
    BY <1>1, <1>2, PathSync
  <1>5. Fits(mayMain', mem)
    BY <1>2, <1>4, FewerFits
  <1>6. TypeOK' /\ BoundsInv' /\ DiskInv' /\ TxnInv' /\ ProofInv'
    BY <1>1, <1>2, <1>3, <1>4, <1>5, PathStep DEF Labels
  <1>7. Fits(mayMain', mem')
    <2>1. SUFFICES ASSUME NEW c \in Cwds, NEW p \in mayMain'[c] PROVE Allows(mem', c, p)
      BY <1>2, <1>3 DEF Fits
    <2>2. Allows(mem, c, p)
      BY <1>5, <2>1 DEF Fits
    <2> QED BY <1>1, <1>3, <2>2 DEF Allows, SourceFits, TargetFits, has_target_authority
  <1>8. StagedIn(mayMain', mem')
    <2>1. Free(main[mem.tgt]) /\ Goal(mem') = Goal(mem)
      BY <1>1, <1>2, <1>3 DEF TargetFits, Goal
    <2> QED BY <1>1, <1>3, <1>4, <2>1 DEF StagedIn
  <1>9. HolderInv'
    <2>1. mem' = [journal EXCEPT !.phase = mem'.phase] /\ journal # NoJournal /\ mayJournal = {journal}
      BY <1>1, <1>2, <1>3 DEF Alone
    <2> QED BY <1>1, <1>3, <1>7, <1>8, <2>1 DEF HolderInv, WriteInv, WriteSyncInv, StageInv, CommitInv,
         CleanInv, UndoInv, Alone, Follows
  <1> QED BY <1>6, <1>9 DEF RelocInv

LEMMA PublishStep ==
    ASSUME RelocInv, Publish
    PROVE  RelocInv'
  <1>1. /\ pc = "publish" /\ pc' = "publish_sync" /\ Alone /\ mem.phase = "Staged"
        /\ SetPath(mem.tgt, staging[mem.tgt], Absent) /\ StagedIn(mayMain, mem)
        /\ UNCHANGED <<journal, mayJournal, mem, txn, proof, nonce>>
    BY DEF Publish, RelocInv, HolderInv, StageInv
  <1>2. /\ mem \in Journals /\ mem # NoJournal /\ mem.tgt \in Cwds /\ mem.src # mem.tgt
        /\ staging[mem.tgt] \in Contents /\ Grown(staging[mem.tgt]) /\ Fits(mayMain, mem)
        /\ Absent \in Contents /\ Grown(Absent)
    BY <1>1, Now, Contained DEF Grown
  <1>3. staging[mem.tgt] = Goal(mem)
    BY <1>1, <1>2 DEF RelocInv, DiskInv, StagedIn
  <1>4. /\ PathsOK' /\ More(mayMain', mayMain, mem.tgt, <<staging[mem.tgt], Absent>>)
        /\ main'[mem.tgt] = Goal(mem) /\ staging'[mem.tgt] = Absent
    BY <1>1, <1>2, <1>3, PathSet
  <1>5. TargetFits(mem, staging[mem.tgt])
    BY <1>1, <1>3 DEF TargetFits, has_target_authority
  <1>6. Fits(mayMain', mem)
    BY <1>1, <1>2, <1>4, <1>5, MoreFits, TargetMay
  <1>7. TypeOK' /\ BoundsInv' /\ DiskInv' /\ TxnInv' /\ ProofInv'
    BY <1>1, <1>2, <1>4, <1>6, PathStep DEF Labels
  <1>8. HolderInv'
    BY <1>1, <1>4 DEF HolderInv, WriteInv, WriteSyncInv, StageInv, CommitInv, CleanInv, UndoInv, Alone
  <1> QED BY <1>7, <1>8 DEF RelocInv

LEMMA PublishSyncStep ==
    ASSUME RelocInv, PublishSync
    PROVE  RelocInv'
  <1>1. /\ pc = "publish_sync" /\ pc' = "write" /\ Alone /\ mem.phase = "Staged"
        /\ SyncParent(mem.tgt) /\ main[mem.tgt] = Goal(mem) /\ staging[mem.tgt] = Absent
        /\ mem' = [mem EXCEPT !.phase = "TargetPublished"]
        /\ UNCHANGED <<main, staging, journal, mayJournal, txn, proof, nonce>>
    BY DEF PublishSync, RelocInv, HolderInv, StageInv
  <1>2. mem \in Journals /\ mem # NoJournal /\ mem.tgt \in Cwds /\ mem.src # mem.tgt /\ Fits(mayMain, mem)
    BY <1>1, Now
  <1>3. /\ mem' \in Journals /\ mem' # NoJournal /\ mem'.phase = "TargetPublished"
        /\ mem'.src = mem.src /\ mem'.tgt = mem.tgt /\ mem'.gen = mem.gen /\ mem'.nonce = mem.nonce
    BY <1>1, <1>2, NextPhase DEF Phases
  <1>4. /\ PathsOK' /\ Fewer(mayMain', mayMain)
        /\ mayMain'[mem.tgt] = {<<main[mem.tgt], staging[mem.tgt]>>}
    BY <1>1, <1>2, PathSync
  <1>5. Fits(mayMain', mem)
    BY <1>2, <1>4, FewerFits
  <1>6. TypeOK' /\ BoundsInv' /\ DiskInv' /\ TxnInv' /\ ProofInv'
    BY <1>1, <1>2, <1>3, <1>4, <1>5, PathStep DEF Labels
  <1>7. PublishedIn(mayMain', mem') /\ Goal(mem') = Goal(mem)
    <2>1. Goal(mem') = Goal(mem)
      BY <1>3 DEF Goal
    <2> QED BY <1>1, <1>3, <1>4, <2>1 DEF PublishedIn
  <1>8. Fits(mayMain', mem')
    <2>1. SUFFICES ASSUME NEW c \in Cwds, NEW p \in mayMain'[c] PROVE Allows(mem', c, p)
      BY <1>2, <1>3 DEF Fits
    <2>2. Allows(mem, c, p) /\ (c = mem.tgt => p[2] = Absent)
      BY <1>3, <1>5, <1>7, <2>1 DEF Fits, PublishedIn
    <2> QED BY <1>1, <1>3, <1>7, <2>2 DEF Allows, SourceFits, TargetFits, has_target_authority, Hollow
  <1>9. HolderInv'
    <2>1. mem' = [journal EXCEPT !.phase = mem'.phase] /\ journal # NoJournal /\ mayJournal = {journal}
      BY <1>1, <1>2, <1>3 DEF Alone
    <2> QED BY <1>1, <1>3, <1>7, <1>8, <2>1 DEF HolderInv, WriteInv, WriteSyncInv, StageInv, CommitInv,
         CleanInv, UndoInv, Alone, Follows
  <1> QED BY <1>6, <1>9 DEF RelocInv

\* What is left of a directory while it is removed.
LEMMA Eroded ==
    ASSUME NEW x \in Contents, Grown(x), NEW y \in Erode(x)
    PROVE  /\ y \in Contents /\ Grown(y)
           /\ x.kind # "session" => y = x
           /\ y = Foreign <=> x = Foreign
           /\ y = x \/ y = Partial \/ (x.kind = "session" /\ y = Session(x.cwd, x.gen, x.prev, FALSE))
  <1>1. CASE x.kind # "session"
    BY <1>1 DEF Erode
  <1>2. CASE x.kind = "session"
    <2>1. /\ x.cwd \in Cwds /\ x.gen \in 0..MaxNonce /\ x.prev \in Cwds \cup {NoCwd}
          /\ y \in {x, Session(x.cwd, x.gen, x.prev, FALSE), Partial}
      BY <1>2, SessionParts DEF Erode
    <2>2. Session(x.cwd, x.gen, x.prev, FALSE) \in Contents
      BY <2>1, SessionContained
    <2>3. /\ Session(x.cwd, x.gen, x.prev, FALSE).kind = "session"
          /\ Session(x.cwd, x.gen, x.prev, FALSE).gen = x.gen
      BY DEF Session
    <2>4. y \in Contents /\ Grown(y)
      BY <1>2, <2>1, <2>2, <2>3, Contained DEF Grown
    <2>5. y # Foreign /\ x # Foreign
      BY <1>2, <2>1, <2>3, Contained
    <2> QED BY <1>2, <2>1, <2>4, <2>5
  <1> QED BY <1>1, <1>2

\* The rest of a step that removes: pc and mem go on, or the operation fails.
LEMMA RemoveRest ==
    ASSUME RelocInv, pc \in {"rm_source", "rm_source_sync", "rm_staging", "rm_staging_sync",
                             "rm_target", "rm_target_sync"},
           Alone, Undoes \/ has_target_authority(mem.phase), PathsOK', Fits(mayMain', mem),
           UNCHANGED <<journal, mayJournal, txn, proof, nonce>>,
           \/ mem' = NoJournal /\ pc' = "held"
           \/ mem' = mem /\ pc' \in {"rm_source", "rm_source_sync", "rm_staging", "rm_staging_sync",
                                     "rb_target", "rm_target", "rm_target_sync", "finish"}
    PROVE  TypeOK' /\ BoundsInv' /\ DiskInv' /\ TxnInv' /\ ProofInv'
  <1>1. mem \in Journals /\ mem # NoJournal
    BY Now
  <1>2. txn = mem.nonce => mem.phase # "TargetPublished"
    BY DEF Undoes, has_target_authority
  <1>3. pc' \in Labels
    BY DEF Labels
  <1> QED BY <1>1, <1>2, <1>3, PathStep

LEMMA RemoveSourceStep ==
    ASSUME RelocInv, RemoveSource
    PROVE  RelocInv'
  <1>1. /\ pc \in {"rm_source", "rm_source_sync"} /\ Alone /\ has_target_authority(mem.phase)
        /\ UNCHANGED <<journal, mayJournal, txn, proof, nonce>>
    BY DEF RemoveSource, RemoveSome, RemoveAll, RemoveSync, RelocInv, HolderInv, CommitInv
  <1>2. /\ mem.src \in Cwds /\ mem.src # mem.tgt /\ Fits(mayMain, mem) /\ staging[mem.src] = Absent
        /\ main[mem.src] \in Contents /\ Grown(main[mem.src]) /\ SourceFits(mem, main[mem.src])
        /\ Absent \in Contents /\ Grown(Absent) /\ mem.phase \in {"Ready", "Committed"}
    BY <1>1, Now, Contained DEF Grown, has_target_authority
  <1>3. ASSUME NEW x \in Contents, Grown(x), SourceFits(mem, x), SetPath(mem.src, x, staging[mem.src])
        PROVE  PathsOK' /\ Fits(mayMain', mem) /\ main'[mem.src] = x
    <2>1. PathsOK' /\ More(mayMain', mayMain, mem.src, <<x, Absent>>) /\ main'[mem.src] = x
      BY <1>1, <1>2, <1>3, PathSet
    <2>2. Allows(mem, mem.src, <<x, Absent>>)
      BY <1>2, <1>3, SourceMay
    <2> QED BY <1>2, <2>1, <2>2, MoreFits
  <1>4. CASE RemoveSome("rm_source", mem.src, FALSE)
    <2>1. PICK x \in Erode(main[mem.src]) : SetPath(mem.src, x, staging[mem.src])
      BY <1>4 DEF RemoveSome
    <2>2. x \in Contents /\ Grown(x) /\ (main[mem.src].kind # "session" => x = main[mem.src])
      BY <1>2, <2>1, Eroded
    <2>3. SourceFits(mem, x)
      <3>1. mem.phase = "Committed" => x = main[mem.src]
        BY <1>2, <2>2, FreeIsNotWhole DEF SourceFits
      <3> QED BY <1>1, <1>2, <3>1 DEF SourceFits
    <2>4. PathsOK' /\ Fits(mayMain', mem)
      BY <1>3, <2>1, <2>2, <2>3
    <2>5. (mem' = NoJournal /\ pc' = "held") \/ (mem' = mem /\ pc' = "rm_source")
      BY <1>4 DEF RemoveSome
    <2>6. TypeOK' /\ BoundsInv' /\ DiskInv' /\ TxnInv' /\ ProofInv'
      BY <1>1, <2>4, <2>5, RemoveRest
    <2>7. HolderInv'
      BY <1>1, <2>5 DEF HolderInv, WriteInv, WriteSyncInv, StageInv, CommitInv, CleanInv, UndoInv, Alone
    <2> QED BY <2>6, <2>7 DEF RelocInv
  <1>5. CASE RemoveAll("rm_source", mem.src, FALSE, "rm_source_sync")
    <2>1. SetPath(mem.src, Absent, staging[mem.src]) /\ mem' = mem /\ pc' = "rm_source_sync"
      BY <1>5 DEF RemoveAll
    <2>2. SourceFits(mem, Absent) /\ Free(Absent)
      BY <1>1 DEF SourceFits, Free
    <2>3. PathsOK' /\ Fits(mayMain', mem) /\ main'[mem.src] = Absent
      BY <1>2, <1>3, <2>1, <2>2
    <2>4. TypeOK' /\ BoundsInv' /\ DiskInv' /\ TxnInv' /\ ProofInv'
      BY <1>1, <2>1, <2>3, RemoveRest
    <2>5. HolderInv'
      BY <1>1, <2>1, <2>2, <2>3 DEF HolderInv, WriteInv, WriteSyncInv, StageInv, CommitInv, CleanInv,
         UndoInv, Alone
    <2> QED BY <2>4, <2>5 DEF RelocInv
  <1>6. CASE RemoveSync("rm_source_sync", mem.src, "rm_staging")
    <2>1. /\ SyncParent(mem.src) /\ UNCHANGED <<main, staging, mem>> /\ pc' = "rm_staging"
          /\ Free(main[mem.src])
      BY <1>6 DEF RemoveSync, RelocInv, HolderInv, CommitInv
    <2>2. /\ PathsOK' /\ Fewer(mayMain', mayMain)
          /\ mayMain'[mem.src] = {<<main[mem.src], staging[mem.src]>>}
      BY <1>1, <1>2, <2>1, PathSync
    <2>3. Fits(mayMain', mem)
      BY <1>2, <2>2, FewerFits
    <2>4. TypeOK' /\ BoundsInv' /\ DiskInv' /\ TxnInv' /\ ProofInv'
      BY <1>1, <2>1, <2>2, <2>3, RemoveRest
    <2>5. SourceGone(mayMain', mem')
      BY <2>1, <2>2 DEF SourceGone
    <2>6. HolderInv'
      BY <1>1, <2>1, <2>5 DEF HolderInv, WriteInv, WriteSyncInv, StageInv, CommitInv, CleanInv,
         UndoInv, Alone
    <2> QED BY <2>4, <2>6 DEF RelocInv
  <1> QED BY <1>4, <1>5, <1>6 DEF RemoveSource

LEMMA RemoveStagingStep ==
    ASSUME RelocInv, RemoveStaging
    PROVE  RelocInv'
  <1>1. /\ pc \in {"rm_staging", "rm_staging_sync"} /\ Alone
        /\ IF has_target_authority(mem.phase) THEN SourceGone(mayMain, mem) ELSE Undoes
        /\ UNCHANGED <<journal, mayJournal, txn, proof, nonce>>
    BY DEF RemoveStaging, RemoveSome, RemoveAll, RemoveSync, RelocInv, HolderInv, CleanInv
  <1>2. /\ mem.src \in Cwds /\ mem.tgt \in Cwds /\ mem.src # mem.tgt /\ Fits(mayMain, mem)
        /\ main[mem.tgt] \in Contents /\ Grown(main[mem.tgt]) /\ TargetFits(mem, main[mem.tgt])
        /\ staging[mem.tgt] \in Contents /\ Grown(staging[mem.tgt])
        /\ mem.phase \notin {"Prepared", "Staged"} => staging[mem.tgt] = Absent
        /\ Absent \in Contents /\ Grown(Absent)
    BY <1>1, Now, Contained DEF Grown
  <1>3. ASSUME NEW x \in Contents, Grown(x), x = Absent \/ mem.phase \in {"Prepared", "Staged"},
               SetPath(mem.tgt, main[mem.tgt], x), mem' = mem
        PROVE  /\ PathsOK' /\ Fits(mayMain', mem) /\ staging'[mem.tgt] = x
               /\ SourceGone(mayMain, mem) => SourceGone(mayMain', mem')
    <2>1. PathsOK' /\ More(mayMain', mayMain, mem.tgt, <<main[mem.tgt], x>>) /\ staging'[mem.tgt] = x
      BY <1>1, <1>2, <1>3, PathSet
    <2>2. Allows(mem, mem.tgt, <<main[mem.tgt], x>>)
      BY <1>2, <1>3, TargetMay
    <2>3. SourceGone(mayMain, mem) => SourceGone(mayMain', mem')
      BY <1>2, <1>3, <2>1 DEF SourceGone, More
    <2> QED BY <1>2, <2>1, <2>2, <2>3, MoreFits
  <1>4. CASE RemoveSome("rm_staging", mem.tgt, TRUE)
    <2>1. PICK x \in Erode(staging[mem.tgt]) : SetPath(mem.tgt, main[mem.tgt], x)
      BY <1>4 DEF RemoveSome
    <2>2. /\ x \in Contents /\ Grown(x)
          /\ staging[mem.tgt].kind # "session" => x = staging[mem.tgt]
      BY <1>2, <2>1, Eroded
    <2>3. x = Absent \/ mem.phase \in {"Prepared", "Staged"}
      BY <1>2, <2>2, Contained
    <2>4. PathsOK' /\ More(mayMain', mayMain, mem.tgt, <<main[mem.tgt], x>>)
      BY <1>1, <1>2, <2>1, <2>2, PathSet
    <2>5. Fits(mayMain', mem)
      BY <1>2, <2>3, <2>4, MoreFits, TargetMay
    <2>6. (mem' = NoJournal /\ pc' = "held") \/ (mem' = mem /\ pc' = "rm_staging")
      BY <1>4 DEF RemoveSome
    <2>7. TypeOK' /\ BoundsInv' /\ DiskInv' /\ TxnInv' /\ ProofInv'
      BY <1>1, <2>4, <2>5, <2>6, RemoveRest
    <2>8. mem' = mem /\ SourceGone(mayMain, mem) => SourceGone(mayMain', mem')
      BY <1>2, <2>4 DEF SourceGone, More
    <2>9. HolderInv'
      BY <1>1, <2>6, <2>8 DEF HolderInv, WriteInv, WriteSyncInv, StageInv, CommitInv, CleanInv, UndoInv,
         Alone, Undoes
    <2> QED BY <2>7, <2>9 DEF RelocInv
  <1>5. CASE RemoveAll("rm_staging", mem.tgt, TRUE, "rm_staging_sync")
    <2>1. SetPath(mem.tgt, main[mem.tgt], Absent) /\ mem' = mem /\ pc' = "rm_staging_sync"
      BY <1>5 DEF RemoveAll
    <2>2. /\ PathsOK' /\ Fits(mayMain', mem) /\ staging'[mem.tgt] = Absent
          /\ SourceGone(mayMain, mem) => SourceGone(mayMain', mem')
      BY <1>2, <1>3, <2>1
    <2>3. TypeOK' /\ BoundsInv' /\ DiskInv' /\ TxnInv' /\ ProofInv'
      BY <1>1, <2>1, <2>2, RemoveRest
    <2>4. HolderInv'
      BY <1>1, <2>1, <2>2 DEF HolderInv, WriteInv, WriteSyncInv, StageInv, CommitInv, CleanInv, UndoInv,
         Alone, Undoes
    <2> QED BY <2>3, <2>4 DEF RelocInv
  <1>6. CASE RemoveSync("rm_staging_sync", mem.tgt,
                        IF has_target_authority(mem.phase) THEN "finish" ELSE "rb_target")
    <2>1. /\ SyncParent(mem.tgt) /\ UNCHANGED <<main, staging, mem>> /\ staging[mem.tgt] = Absent
          /\ pc' = IF has_target_authority(mem.phase) THEN "finish" ELSE "rb_target"
      BY <1>6 DEF RemoveSync, RelocInv, HolderInv, CleanInv
    <2>2. /\ PathsOK' /\ Fewer(mayMain', mayMain)
          /\ mayMain'[mem.tgt] = {<<main[mem.tgt], staging[mem.tgt]>>}
      BY <1>1, <1>2, <2>1, PathSync
    <2>3. Fits(mayMain', mem)
      BY <1>2, <2>2, FewerFits
    <2>4. TypeOK' /\ BoundsInv' /\ DiskInv' /\ TxnInv' /\ ProofInv'
      BY <1>1, <2>1, <2>2, <2>3, RemoveRest
    <2>5. /\ StagingGone(mayMain', mem')
          /\ SourceGone(mayMain, mem) => SourceGone(mayMain', mem')
      BY <1>2, <2>1, <2>2 DEF StagingGone, SourceGone, Fewer
    <2>6. HolderInv'
      BY <1>1, <2>1, <2>5 DEF HolderInv, WriteInv, WriteSyncInv, StageInv, CommitInv, CleanInv,
         UndoInv, Alone, Undoes
    <2> QED BY <2>4, <2>6 DEF RelocInv
  <1> QED BY <1>4, <1>5, <1>6 DEF RemoveStaging

LEMMA RemoveTargetStep ==
    ASSUME RelocInv, RemoveTarget
    PROVE  RelocInv'
  <1>1. /\ pc \in {"rm_target", "rm_target_sync"} /\ Alone /\ Undoes /\ StagingGone(mayMain, mem)
        /\ UNCHANGED <<journal, mayJournal, txn, proof, nonce>>
    BY DEF RemoveTarget, RemoveSome, RemoveAll, RemoveSync, RelocInv, HolderInv, UndoInv
  <1>2. /\ mem.tgt \in Cwds /\ mem.src # mem.tgt /\ Fits(mayMain, mem)
        /\ main[mem.tgt] \in Contents /\ Grown(main[mem.tgt]) /\ TargetFits(mem, main[mem.tgt])
        /\ Absent \in Contents /\ Grown(Absent) /\ mem.phase \in Phases
        /\ ~has_target_authority(mem.phase)
    BY <1>1, Now, Contained DEF Grown, Undoes
  <1>3. staging[mem.tgt] = Absent
    BY <1>1, <1>2 DEF StagingGone, RelocInv, DiskInv
  <1>4. ASSUME NEW x \in Contents, Grown(x), TargetFits(mem, x), SetPath(mem.tgt, x, staging[mem.tgt])
        PROVE  /\ PathsOK' /\ Fits(mayMain', mem) /\ main'[mem.tgt] = x
               /\ mem' = mem => StagingGone(mayMain', mem')
    <2>1. PathsOK' /\ More(mayMain', mayMain, mem.tgt, <<x, Absent>>) /\ main'[mem.tgt] = x
      BY <1>1, <1>2, <1>3, <1>4, PathSet, Contained
    <2>2. Allows(mem, mem.tgt, <<x, Absent>>)
      BY <1>2, <1>4, TargetMay
    <2>3. ASSUME mem' = mem, NEW p \in mayMain'[mem.tgt] PROVE p[2] = Absent
      BY <1>1, <1>2, <2>1, <2>3 DEF StagingGone, More
    <2> QED BY <1>2, <2>1, <2>2, <2>3, MoreFits DEF StagingGone
  <1>5. CASE RemoveSome("rm_target", mem.tgt, FALSE)
    <2>1. PICK x \in Erode(main[mem.tgt]) : SetPath(mem.tgt, x, staging[mem.tgt])
      BY <1>5 DEF RemoveSome
    <2>2. /\ x \in Contents /\ Grown(x)
          /\ main[mem.tgt].kind # "session" => x = main[mem.tgt]
          /\ x \in {main[mem.tgt], Partial} \/ (main[mem.tgt].kind = "session"
                /\ x = Session(main[mem.tgt].cwd, main[mem.tgt].gen, main[mem.tgt].prev, FALSE))
      BY <1>2, <1>5, <2>1, Eroded DEF RemoveSome, RelocInv, HolderInv, UndoInv
    <2>3. TargetFits(mem, x)
      <3>1. CASE main[mem.tgt].kind # "session"
        BY <1>2, <2>2, <3>1
      <3>2. CASE main[mem.tgt].kind = "session"
        <4>1. ~Free(main[mem.tgt]) /\ main[mem.tgt] # Partial
          BY <3>2, FreeIsNotWhole, Contained
        <4>2. mem.phase \in {"Staged", "TargetPublished"}
          BY <1>2, <4>1 DEF TargetFits, Phases, has_target_authority
        <4>3. main[mem.tgt] \in {Goal(mem), Hollow(mem)}
          BY <1>2, <4>1, <4>2 DEF TargetFits
        <4>4. Session(main[mem.tgt].cwd, main[mem.tgt].gen, main[mem.tgt].prev, FALSE) = Hollow(mem)
          <5>1. /\ main[mem.tgt].cwd = mem.tgt /\ main[mem.tgt].gen = mem.gen
                /\ main[mem.tgt].prev = mem.src
            BY <4>3, GoalFields
          <5> QED BY <5>1 DEF Hollow
        <4>5. x \in {Goal(mem), Hollow(mem), Partial}
          BY <2>2, <4>3, <4>4
        <4> QED BY <1>2, <4>2, <4>5 DEF TargetFits, has_target_authority
      <3> QED BY <3>1, <3>2
    <2>4. /\ PathsOK' /\ Fits(mayMain', mem) /\ main'[mem.tgt] = x
          /\ mem' = mem => StagingGone(mayMain', mem')
      BY <1>4, <2>1, <2>2, <2>3
    <2>5. (mem' = NoJournal /\ pc' = "held") \/ (mem' = mem /\ pc' = "rm_target")
      BY <1>5 DEF RemoveSome
    <2>6. TypeOK' /\ BoundsInv' /\ DiskInv' /\ TxnInv' /\ ProofInv'
      BY <1>1, <2>4, <2>5, RemoveRest
    <2>7. HolderInv'
      BY <1>1, <2>2, <2>4, <2>5 DEF HolderInv, WriteInv, WriteSyncInv, StageInv, CommitInv, CleanInv,
         UndoInv, Alone, Undoes
    <2> QED BY <2>6, <2>7 DEF RelocInv
  <1>6. CASE RemoveAll("rm_target", mem.tgt, FALSE, "rm_target_sync")
    <2>1. SetPath(mem.tgt, Absent, staging[mem.tgt]) /\ mem' = mem /\ pc' = "rm_target_sync"
      BY <1>6 DEF RemoveAll
    <2>2. TargetFits(mem, Absent) /\ Free(Absent)
      BY <1>2 DEF TargetFits, Free
    <2>3. PathsOK' /\ Fits(mayMain', mem) /\ main'[mem.tgt] = Absent /\ StagingGone(mayMain', mem')
      BY <1>2, <1>4, <2>1, <2>2
    <2>4. TypeOK' /\ BoundsInv' /\ DiskInv' /\ TxnInv' /\ ProofInv'
      BY <1>1, <2>1, <2>3, RemoveRest
    <2>5. HolderInv'
      BY <1>1, <2>1, <2>2, <2>3 DEF HolderInv, WriteInv, WriteSyncInv, StageInv, CommitInv, CleanInv,
         UndoInv, Alone, Undoes
    <2> QED BY <2>4, <2>5 DEF RelocInv
  <1>7. CASE RemoveSync("rm_target_sync", mem.tgt, "finish")
    <2>1. /\ SyncParent(mem.tgt) /\ UNCHANGED <<main, staging, mem>> /\ pc' = "finish"
          /\ Free(main[mem.tgt])
      BY <1>7 DEF RemoveSync, RelocInv, HolderInv, UndoInv
    <2>2. /\ PathsOK' /\ Fewer(mayMain', mayMain)
          /\ mayMain'[mem.tgt] = {<<main[mem.tgt], staging[mem.tgt]>>}
      BY <1>1, <1>2, <2>1, PathSync
    <2>3. Fits(mayMain', mem)
      BY <1>2, <2>2, FewerFits
    <2>4. TypeOK' /\ BoundsInv' /\ DiskInv' /\ TxnInv' /\ ProofInv'
      BY <1>1, <2>1, <2>2, <2>3, RemoveRest
    <2>5. StagingGone(mayMain', mem') /\ TargetGone(mayMain', mem')
      BY <1>3, <2>1, <2>2 DEF StagingGone, TargetGone
    <2>6. HolderInv'
      BY <1>1, <1>2, <2>1, <2>5 DEF HolderInv, WriteInv, WriteSyncInv, StageInv, CommitInv, CleanInv,
         UndoInv, Alone, Undoes
    <2> QED BY <2>4, <2>6 DEF RelocInv
  <1> QED BY <1>5, <1>6, <1>7 DEF RemoveTarget

-----------------------------------------------------------------------------
(* Power failures and other programs.                                      *)

LEMMA PowerFailStep ==
    ASSUME RelocInv, PowerFail
    PROVE  RelocInv'
  <1>0. PathsOK
    BY PathsTyped
  <1>1. PICK picked \in [Cwds -> UNION {mayMain[c] : c \in Cwds}] :
            /\ \A c \in Cwds : picked[c] \in mayMain[c]
            /\ main' = [c \in Cwds |-> picked[c][1]]
            /\ staging' = [c \in Cwds |-> picked[c][2]]
            /\ mayMain' = [c \in Cwds |-> {picked[c]}]
    BY DEF PowerFail
  <1>2. PICK j \in mayJournal : journal' = j /\ mayJournal' = {j}
    BY DEF PowerFail
  <1>3. /\ pc' = "free" /\ mem' = NoJournal /\ txn' = 0 /\ proof' = NoJournal /\ nonce' = nonce
        /\ j \in Journals /\ nonce \in Nat
    BY DEF PowerFail, RelocInv, TypeOK
  <1>4. \A c \in Cwds : /\ picked[c] \in Contents \X Contents
                        /\ picked[c] = <<picked[c][1], picked[c][2]>>
                        /\ Grown(picked[c][1]) /\ Grown(picked[c][2])
    BY <1>0, <1>1 DEF PathsOK
  <1>5. PathsOK'
    <2>1. main' \in [Cwds -> Contents] /\ staging' \in [Cwds -> Contents]
      BY <1>1, <1>4
    <2>2. mayMain' \in [Cwds -> SUBSET (Contents \X Contents)]
      BY <1>1, <1>4
    <2>3. \A c \in Cwds : <<main'[c], staging'[c]>> \in mayMain'[c]
      BY <1>1, <1>4
    <2>4. \A c \in Cwds : \A p \in mayMain'[c] : Grown(p[1])' /\ Grown(p[2])'
      BY <1>1, <1>3, <1>4 DEF Grown
    <2> QED BY <2>1, <2>2, <2>3, <2>4 DEF PathsOK
  <1>6. Fewer(mayMain', mayMain)
    BY <1>1 DEF Fewer
  <1>7. DiskInv'
    <2>1. NoJournal \in mayJournal' => \E h \in Cwds, g \in 0..MaxNonce : Rests(mayMain', h, g)
      BY <1>2, <1>6, FewerRests DEF RelocInv, DiskInv
    <2>2. \A k \in mayJournal' : k # NoJournal => Fits(mayMain', k)
      BY <1>2, <1>6, FewerFits DEF RelocInv, DiskInv
    <2> QED BY <1>2, <1>5, <2>1, <2>2 DEF DiskInv, PathsOK
  <1>8. TypeOK'
    BY <1>2, <1>3, <1>5, NoJournalPhase, RelocationAssumption DEF RelocInv, TypeOK, PathsOK, Labels
  <1>9. BoundsInv'
    BY <1>2, <1>3, <1>5 DEF RelocInv, BoundsInv, PathsOK, Grown
  <1>10. TxnInv' /\ ProofInv'
    BY <1>2, <1>3, JournalFields DEF TxnInv, ProofInv
  <1>11. HolderInv'
    BY <1>3 DEF HolderInv, WriteInv, WriteSyncInv, StageInv, CommitInv, CleanInv, UndoInv
  <1> QED BY <1>7, <1>8, <1>9, <1>10, <1>11 DEF RelocInv

LEMMA ForeignStep ==
    ASSUME RelocInv, NEW c \in Cwds, ForeignAppears(c)
    PROVE  RelocInv'
  <1> DEFINE now == <<Absent, staging[c]>>
             new == <<Foreign, staging[c]>>
  <1>1. /\ main[c] = Absent /\ SetPath(c, Foreign, staging[c])
        /\ UNCHANGED <<journal, mayJournal, pc, mem, txn, proof, nonce>>
    BY DEF ForeignAppears, holder
  <1>2. staging[c] \in Contents /\ Grown(staging[c]) /\ now \in mayMain[c] /\ PathsOK
    <2>1. <<main[c], staging[c]>> \in mayMain[c] /\ PathsOK
      BY PathsTyped DEF PathsOK
    <2>2. now \in mayMain[c] /\ now[2] = staging[c]
      BY <1>1, <2>1
    <2> QED BY <2>1, <2>2 DEF PathsOK
  <1>3. Foreign \in Contents /\ Grown(Foreign) /\ Free(Absent) /\ Free(Foreign)
    BY Contained DEF Grown, Free
  <1>4. /\ PathsOK' /\ More(mayMain', mayMain, c, new)
        /\ \A d \in Cwds : /\ main'[d] = IF d = c THEN Foreign ELSE main[d]
                           /\ staging'[d] = IF d = c THEN staging[c] ELSE staging[d]
    BY <1>1, <1>2, <1>3, PathSet
  <1>5. ASSUME NEW j, Fits(mayMain, j) PROVE Fits(mayMain', j)
    <2>1. Allows(j, c, now)
      BY <1>2, <1>5 DEF Fits
    <2> QED BY <1>4, <1>5, <2>1, MoreFits, ForeignAllowed
  <1>6. ASSUME NEW h \in Cwds, NEW g, Rests(mayMain, h, g) PROVE Rests(mayMain', h, g)
    <2>1. RestsAs(h, g, c, now)
      BY <1>2, <1>6 DEF Rests
    <2>2. RestsAs(h, g, c, new)
      BY <1>3, <2>1, FreeIsNotWhole DEF RestsAs
    <2> QED BY <1>4, <1>6, <2>2, MoreRests
  <1>7. DiskInv'
    <2>1. NoJournal \in mayJournal' => \E h \in Cwds, g \in 0..MaxNonce : Rests(mayMain', h, g)
      BY <1>1, <1>6 DEF RelocInv, DiskInv
    <2>2. \A k \in mayJournal' : k # NoJournal => Fits(mayMain', k)
      BY <1>1, <1>5 DEF RelocInv, DiskInv
    <2> QED BY <1>1, <1>4, <2>1, <2>2 DEF RelocInv, DiskInv, PathsOK
  <1>8. TypeOK'
    BY <1>1, <1>4 DEF RelocInv, TypeOK, PathsOK
  <1>9. BoundsInv'
    BY <1>1, <1>4 DEF RelocInv, BoundsInv, PathsOK, Grown
  <1>10. ASSUME NEW j
         PROVE  /\ j.tgt \in Cwds /\ StagedIn(mayMain, j) => StagedIn(mayMain', j)
                /\ j.tgt \in Cwds /\ PublishedIn(mayMain, j) => PublishedIn(mayMain', j)
                /\ j.src \in Cwds /\ SourceGone(mayMain, j) => SourceGone(mayMain', j)
                /\ j.tgt \in Cwds /\ StagingGone(mayMain, j) => StagingGone(mayMain', j)
                /\ j.tgt \in Cwds /\ TargetGone(mayMain, j) => TargetGone(mayMain', j)
    <2>1. /\ now \in mayMain[c] /\ now[1] = Absent /\ now[2] = staging[c]
          /\ new[1] = Foreign /\ new[2] = staging[c]
      BY <1>2
    <2>2. \A d \in Cwds : \A p \in mayMain'[d] : p \in mayMain[d] \/ (d = c /\ p = new)
      BY <1>4 DEF More
    <2> HIDE DEF now, new
    <2>3. j.tgt \in Cwds /\ PublishedIn(mayMain, j) => PublishedIn(mayMain', j)
      BY <2>1, <2>2, GoalFields DEF PublishedIn
    <2>4. /\ j.tgt \in Cwds /\ StagedIn(mayMain, j) => StagedIn(mayMain', j)
          /\ j.tgt \in Cwds /\ StagingGone(mayMain, j) => StagingGone(mayMain', j)
      BY <1>3, <2>1, <2>2 DEF StagedIn, StagingGone
    <2>5. /\ j.src \in Cwds /\ SourceGone(mayMain, j) => SourceGone(mayMain', j)
          /\ j.tgt \in Cwds /\ TargetGone(mayMain, j) => TargetGone(mayMain', j)
      BY <1>3, <2>1, <2>2 DEF SourceGone, TargetGone
    <2> QED BY <2>3, <2>4, <2>5
  <1>11. TxnInv' /\ ProofInv'
    BY <1>1, <1>10, JournalFields DEF RelocInv, TypeOK, TxnInv, ProofInv
  <1>12. CASE pc \in {"free", "held", "fin_sync"}
    <2>1. HolderInv'
      BY <1>1, <1>12 DEF RelocInv, HolderInv, WriteInv, WriteSyncInv, StageInv, CommitInv, CleanInv,
         UndoInv
    <2> QED BY <1>7, <1>8, <1>9, <1>11, <2>1 DEF RelocInv
  <1>13. CASE pc \notin {"free", "held", "fin_sync"}
    <2>1. mem.src \in Cwds /\ mem.tgt \in Cwds /\ mem \in Journals /\ mem # NoJournal
      BY <1>13, Busy DEF RelocInv, TypeOK
    <2>2. WriteInv' /\ WriteSyncInv'
      BY <1>1, <1>5, <1>10, <2>1 DEF RelocInv, HolderInv, WriteInv, WriteSyncInv
    <2>3. StageInv'
      <3>1. pc = "rewrite" => c # mem.src
        <4>1. pc = "rewrite" => SourceFits(mem, main[mem.src]) /\ mem.phase = "Prepared"
          BY <1>13, Now DEF RelocInv, HolderInv, StageInv
        <4> QED BY <1>1, <1>3, <4>1, FreeIsNotWhole DEF SourceFits, has_target_authority
      <3>2. pc = "publish_sync" => c # mem.tgt
        BY <1>1, GoalFields DEF RelocInv, HolderInv, StageInv
      <3> QED BY <1>1, <1>4, <1>10, <2>1, <3>1, <3>2 DEF RelocInv, HolderInv, StageInv, Alone
    <2>4. CommitInv' /\ CleanInv' /\ UndoInv'
      BY <1>1, <1>3, <1>4, <1>10, <2>1 DEF RelocInv, HolderInv, CommitInv, CleanInv, UndoInv, Alone, Undoes
    <2> QED BY <1>7, <1>8, <1>9, <1>11, <2>2, <2>3, <2>4 DEF RelocInv, HolderInv
  <1> QED BY <1>12, <1>13

-----------------------------------------------------------------------------
(* The invariant.                                                          *)

LEMMA InvInit ==
    ASSUME Init
    PROVE  RelocInv
  <1>1. PICK c \in Cwds :
            LET home == Session(c, 0, NoCwd, TRUE) IN
            /\ main = [d \in Cwds |-> IF d = c THEN home ELSE Absent]
            /\ staging = [d \in Cwds |-> Absent]
            /\ mayMain = [d \in Cwds |-> {<<IF d = c THEN home ELSE Absent, Absent>>}]
            /\ journal = NoJournal /\ mayJournal = {NoJournal}
            /\ pc = "free" /\ mem = NoJournal /\ txn = None /\ proof = NoJournal
            /\ nonce = 0
    BY DEF Init
  <1> DEFINE home == Session(c, 0, NoCwd, TRUE)
  <1>2. home \in Contents /\ home.kind = "session" /\ home.cwd = c /\ home.gen = 0 /\ home.whole
    <2>1. 0 \in 0..MaxNonce
      BY RelocationAssumption
    <2> QED BY <2>1, SessionContained DEF Session
  <1>3. Absent \in Contents /\ Absent.kind = "absent"
    BY Contained
  <1>4. /\ main = [d \in Cwds |-> IF d = c THEN home ELSE Absent]
        /\ staging = [d \in Cwds |-> Absent]
        /\ mayMain = [d \in Cwds |-> {<<IF d = c THEN home ELSE Absent, Absent>>}]
    BY <1>1 DEF home
  <1>5. /\ journal = NoJournal /\ mayJournal = {NoJournal} /\ pc = "free" /\ mem = NoJournal
        /\ txn = 0 /\ proof = NoJournal /\ nonce = 0
    BY <1>1
  <1> HIDE DEF home
  <1>6. /\ \A d \in Cwds : /\ main[d] = (IF d = c THEN home ELSE Absent) /\ staging[d] = Absent
                           /\ mayMain[d] = {<<main[d], Absent>>} /\ main[d] \in Contents
        /\ main \in [Cwds -> Contents] /\ staging \in [Cwds -> Contents]
    BY <1>2, <1>3, <1>4
  <1>7. mayMain \in [Cwds -> SUBSET (Contents \X Contents)]
    <2>1. mayMain = [d \in Cwds |-> mayMain[d]]
      BY <1>4
    <2>2. \A d \in Cwds : mayMain[d] \in SUBSET (Contents \X Contents)
      BY <1>3, <1>6
    <2> QED BY <2>1, <2>2
  <1>8. TypeOK
    BY <1>5, <1>6, <1>7, NoJournalPhase, RelocationAssumption DEF TypeOK, Labels
  <1>10. \A d \in Cwds : \A p \in mayMain[d] : p[1] = main[d] /\ p[2] = Absent
    BY <1>6
  <1>11. BoundsInv
    <2>1. \A d \in Cwds : \A p \in mayMain[d] : \A i \in {1, 2} : p[i].kind = "session" => p[i].gen <= nonce
      BY <1>2, <1>3, <1>5, <1>6, <1>10
    <2> QED BY <1>5, <2>1 DEF BoundsInv
  <1>12. Rests(mayMain, c, 0)
    BY <1>2, <1>6, <1>10 DEF Rests, RestsAs, Whole, Free
  <1>13. DiskInv
    <2>1. 0 \in 0..MaxNonce
      BY RelocationAssumption
    <2> QED BY <1>5, <1>6, <1>12, <2>1 DEF DiskInv
  <1>9. TxnInv /\ ProofInv /\ HolderInv
    BY <1>5 DEF TxnInv, ProofInv, HolderInv, WriteInv, WriteSyncInv, StageInv, CommitInv, CleanInv, UndoInv
  <1> QED BY <1>8, <1>9, <1>11, <1>13 DEF RelocInv

LEMMA InvStutter ==
    ASSUME RelocInv, UNCHANGED vars
    PROVE  RelocInv'
  BY DEF RelocInv, TypeOK, BoundsInv, DiskInv, TxnInv, ProofInv, HolderInv, WriteInv, WriteSyncInv,
     StageInv, CommitInv, CleanInv, UndoInv, Alone, Undoes, vars, holder

LEMMA InvStep ==
    ASSUME ~RetryCommits, RelocInv, [Next]_vars
    PROVE  RelocInv'
  <1>1. CASE UNCHANGED vars
    BY <1>1, InvStutter
  <1>2. CASE Next
    BY <1>2, AcquireStep, ReleaseStep, StageBeginStep, CopyStartStep, CopyFinishStep,
       RewriteSummaryStep, StageSyncStep, StageFailsStep, PublishStep, PublishFailsStep,
       PublishSyncStep, WriteNotCommittedStep, WriteRenameStep, WriteSyncStep, BarrierFailsStep,
       MarkReadyStep, CommitAgainStep, RollbackStep, RecoverStep, RecoverSyncStep, RemoveSourceStep,
       RemoveStagingStep, RemoveTargetStep, CommitSyncStep, RollbackSourceStep, RollbackTargetStep,
       FinishStep, FinalizeRemoveStep, FinalizeAgainStep, FinalizeSyncStep, CrashStep, PowerFailStep,
       ForeignStep DEF Next
  <1> QED BY <1>1, <1>2

LEMMA Invariant ==
    ASSUME ~RetryCommits
    PROVE  Spec => []RelocInv
  <1>1. Init => RelocInv
    BY InvInit
  <1>2. RelocInv /\ [Next]_vars => RelocInv'
    BY InvStep
  <1> QED BY <1>1, <1>2, PTL DEF Spec

\* The complete copies that a journal, or the lack of one, vouches for.
LEMMA AuthorityWhole ==
    ASSUME RelocInv, NEW j \in mayJournal, j # NoJournal
    PROVE  /\ Authority(j) \in Cwds /\ Whole(Authority(j), main[Authority(j)])
           /\ has_target_authority(j.phase) => main[j.tgt] = Goal(j)
           /\ ~has_target_authority(j.phase) => main[j.src].gen + 1 = j.gen
  <1>1. /\ Fits(mayMain, j) /\ j.src \in Cwds /\ j.tgt \in Cwds
        /\ \A c \in Cwds : <<main[c], staging[c]>> \in mayMain[c]
    BY JournalFields DEF RelocInv, TypeOK, DiskInv
  <1>2. \A c \in Cwds : Allows(j, c, <<main[c], staging[c]>>)
    BY <1>1 DEF Fits
  <1>3. SourceFits(j, main[j.src]) /\ TargetFits(j, main[j.tgt])
    BY <1>1, <1>2 DEF Allows
  <1>4. CASE has_target_authority(j.phase)
    <2>1. main[j.tgt] = Goal(j) /\ Authority(j) = j.tgt
      BY <1>3, <1>4 DEF TargetFits, Authority
    <2>2. Whole(j.tgt, Goal(j))
      BY GoalFields DEF Whole
    <2> QED BY <1>1, <1>4, <2>1, <2>2
  <1>5. CASE ~has_target_authority(j.phase)
    <2>1. Whole(j.src, main[j.src]) /\ main[j.src].gen + 1 = j.gen /\ Authority(j) = j.src
      BY <1>3, <1>5 DEF SourceFits, Authority
    <2> QED BY <1>1, <1>5, <2>1
  <1> QED BY <1>4, <1>5

LEMMA IntactIsWhole ==
    ASSUME NEW c
    PROVE  Intact(c) <=> Whole(c, main[c])
  BY DEF Intact, Whole

\* The types of the disk, of the journal and of the lease holder (mod.rs, journal.rs):
\* an operation holds a journal exactly while it runs, and a lease that was given up
\* leaves no transaction and no proof behind.
THEOREM TypeCorrect ==
    ASSUME ~RetryCommits
    PROVE  Spec => []TypeOK
  <1>1. RelocInv => TypeOK
    BY DEF RelocInv
  <1> QED BY <1>1, Invariant, PTL

\* Whatever failed, crashed or lost power, the directory that the journal makes
\* authoritative is complete and passes the validation that recovery makes of it.
THEOREM AuthorityStaysIntact ==
    ASSUME ~RetryCommits
    PROVE  Spec => []AuthorityIntact
  <1>1. RelocInv => AuthorityIntact
    <2>1. SUFFICES ASSUME RelocInv PROVE AuthorityIntact
      OBVIOUS
    <2>2. CASE journal = NoJournal
      <3>1. PICK h \in Cwds, g \in 0..MaxNonce : Rests(mayMain, h, g)
        BY <2>1, <2>2 DEF RelocInv, DiskInv
      <3>2. Intact(h)
        BY <2>1, <3>1, RestingPlace, IntactIsWhole DEF RelocInv
      <3> QED BY <2>2, <3>1, <3>2 DEF AuthorityIntact
    <2>3. CASE journal # NoJournal
      <3>1. /\ Authority(journal) \in Cwds /\ Intact(Authority(journal))
            /\ has_target_authority(journal.phase) => main[journal.tgt] = Goal(journal)
            /\ ~has_target_authority(journal.phase) => main[journal.src].gen + 1 = journal.gen
        BY <2>1, <2>3, AuthorityWhole, IntactIsWhole DEF RelocInv, DiskInv
      <3>2. has_target_authority(journal.phase) => TargetValid(journal)
        BY <3>1, GoalFields DEF TargetValid
      <3>3. ~has_target_authority(journal.phase) => SourceValid(journal)
        BY <3>1 DEF SourceValid, Intact, Authority
      <3> QED BY <2>3, <3>1, <3>2, <3>3 DEF AuthorityIntact
    <2> QED BY <2>2, <2>3
  <1> QED BY <1>1, Invariant, PTL

\* Without a journal exactly one directory has the session and none is half removed,
\* so that RelocationView::select finds one candidate.
THEOREM RestsInOnePlace ==
    ASSUME ~RetryCommits
    PROVE  Spec => []OneCopyAtRest
  <1>1. RelocInv => OneCopyAtRest
    <2>1. SUFFICES ASSUME RelocInv, journal = NoJournal
                   PROVE  /\ Cardinality({c \in Cwds : main[c].kind = "session"}) = 1
                          /\ \A c \in Cwds : main[c] # Partial
      BY DEF OneCopyAtRest
    <2>2. PICK h \in Cwds, g \in 0..MaxNonce : Rests(mayMain, h, g)
      BY <2>1 DEF RelocInv, DiskInv
    <2>3. {c \in Cwds : main[c].kind = "session"} = {h}
      BY <2>1, <2>2, RestingPlace DEF RelocInv
    <2>4. Cardinality({h}) = 1
      BY FS_Singleton
    <2>5. ASSUME NEW c \in Cwds PROVE main[c] # Partial
      <3>1. main[c].kind = "session" \/ Free(main[c])
        BY <2>1, <2>2, RestingPlace DEF RelocInv
      <3> QED BY <3>1, FreeIsNotWhole, Contained
    <2> QED BY <2>3, <2>4, <2>5
  <1> QED BY <1>1, Invariant, PTL

\* A staging directory is named by a journal that is not terminal, so recovery finds it.
THEOREM StagingIsNamed ==
    ASSUME ~RetryCommits
    PROVE  Spec => []NoOrphanStaging
  <1>1. RelocInv => NoOrphanStaging
    <2>1. SUFFICES ASSUME RelocInv, NEW c \in Cwds, staging[c] # Absent
                   PROVE  journal # NoJournal /\ journal.tgt = c
                          /\ ~(journal.phase \in {"Committed", "RolledBack"})
      BY DEF NoOrphanStaging
    <2>2. journal # NoJournal
      BY <2>1, RestingPlace DEF RelocInv, DiskInv
    <2>3. Allows(journal, c, <<main[c], staging[c]>>)
      BY <2>1, <2>2 DEF RelocInv, DiskInv, Fits
    <2> QED BY <2>1, <2>2, <2>3 DEF Allows
  <1> QED BY <1>1, Invariant, PTL

\* finish_rollback never begins to remove a directory of another program, and none is
\* removed except in the two windows that the code leaves open: between the check of
\* the target and the end of its removal (mod.rs:440-443), and at the source once a
\* commit removes it (mod.rs:420).
THEOREM ForeignStays ==
    ASSUME ~RetryCommits
    PROVE  Spec => ForeignKept
  <1> DEFINE Kept == \A c \in Cwds : main[c] = Foreign /\ main'[c] # Foreign =>
                        \/ PowerFail
                        \/ pc = "rm_target" /\ c = journal.tgt
                        \/ has_target_authority(journal.phase) /\ c = journal.src
             Checked == pc # "rm_target" /\ pc' = "rm_target" => main'[journal.tgt] # Foreign
  <1>0. RelocInv /\ [Next]_vars => [Checked]_vars
    <2>1. SUFFICES ASSUME RelocInv, Next, pc # "rm_target", pc' = "rm_target"
                   PROVE  main'[journal.tgt] # Foreign
      OBVIOUS
    <2>2. RollbackTarget
      <3>1. CASE RemoveSource \/ RemoveStaging \/ RemoveTarget
        BY <2>1, <3>1 DEF RemoveSource, RemoveStaging, RemoveTarget, RemoveSome, RemoveAll, RemoveSync
      <3>2. CASE \/ CopyStart \/ CopyFinish \/ RewriteSummary \/ StageSync \/ StageFails
                 \/ Publish \/ PublishFails \/ PublishSync
                 \/ WriteNotCommitted \/ WriteRename \/ WriteSync \/ BarrierFails
        BY <2>1, <3>2 DEF CopyStart, CopyFinish, RewriteSummary, StageSync, StageFails, Publish,
           PublishFails, PublishSync, WriteNotCommitted, WriteRename, WriteSync, BarrierFails
      <3>3. CASE \/ Acquire \/ Release \/ (\E src, tgt \in Cwds : StageBegin(src, tgt))
                 \/ MarkReady \/ CommitAgain \/ Rollback \/ Recover \/ RecoverSync
        BY <2>1, <3>3 DEF Acquire, Release, StageBegin, MarkReady, CommitAgain, Rollback, Recover,
           RecoverSync
      <3>4. CASE \/ CommitSync \/ RollbackSource \/ Finish
                 \/ FinalizeRemove \/ FinalizeAgain \/ FinalizeSync
        BY <2>1, <3>4 DEF CommitSync, RollbackSource, Finish, FinalizeRemove, FinalizeAgain,
           FinalizeSync
      <3>5. CASE Crash \/ PowerFail \/ (\E c \in Cwds : ForeignAppears(c))
        BY <2>1, <3>5 DEF Crash, PowerFail, ForeignAppears, holder
      <3> QED BY <2>1, <3>1, <3>2, <3>3, <3>4, <3>5 DEF Next
    <2>3. pc = "rb_target" /\ journal = mem /\ UNCHANGED main /\ Foreign # Absent
          /\ (main[mem.tgt] = Absent \/ TargetValid(mem))
      BY <2>1, <2>2, Contained DEF RollbackTarget, RelocInv, HolderInv, UndoInv, Alone
    <2>4. TargetValid(mem) => main[mem.tgt] # Foreign
      BY Contained DEF TargetValid
    <2> QED BY <2>3, <2>4
  <1>1. RelocInv /\ [Next]_vars => [Kept]_vars
    <2>1. SUFFICES ASSUME RelocInv, Next, ~PowerFail, NEW c \in Cwds, main[c] = Foreign, main'[c] # Foreign
                   PROVE  \/ pc = "rm_target" /\ c = journal.tgt
                          \/ has_target_authority(journal.phase) /\ c = journal.src
      OBVIOUS
    <2>2. main \in [Cwds -> Contents] /\ Absent # Foreign
      BY <2>1, Contained DEF RelocInv, TypeOK
    <2>3. ASSUME NEW d \in Cwds, NEW m, NEW s, SetPath(d, m, s) \/ SetPathDurably(d, m, s)
          PROVE  d = c /\ m # Foreign
      BY <2>1, <2>2, <2>3 DEF SetPath, SetPathDurably
    <2>4. CASE CopyStart \/ CopyFinish \/ RewriteSummary \/ Publish
      <3>1. mem.tgt \in Cwds /\ pc \in {"copy", "copying", "rewrite", "publish"}
        BY <2>1, <2>4, Busy DEF CopyStart, CopyFinish, RewriteSummary, Publish, RelocInv
      <3>2. mem.tgt = c /\ Publish
        BY <2>1, <2>3, <2>4, <3>1 DEF CopyStart, CopyFinish, RewriteSummary, Publish
      <3> QED BY <2>1, <2>2, <3>2 DEF Publish
    <2>5. CASE RemoveSource
      <3>1. pc \in {"rm_source", "rm_source_sync"} /\ mem.src \in Cwds
        BY <2>1, <2>5, Busy DEF RemoveSource, RemoveSome, RemoveAll, RemoveSync, RelocInv
      <3>2. main' # main
        BY <2>1
      <3>3. mem.src = c
        BY <2>3, <2>5, <3>1, <3>2 DEF RemoveSource, RemoveSome, RemoveAll, RemoveSync
      <3> QED BY <2>1, <3>1, <3>3 DEF RelocInv, HolderInv, CommitInv, Alone
    <2>6. CASE RemoveStaging
      <3>1. pc \in {"rm_staging", "rm_staging_sync"} /\ mem.tgt \in Cwds
        BY <2>1, <2>6, Busy DEF RemoveStaging, RemoveSome, RemoveAll, RemoveSync, RelocInv
      <3>2. main' # main
        BY <2>1
      <3> QED BY <2>1, <2>3, <2>6, <3>1, <3>2 DEF RemoveStaging, RemoveSome, RemoveAll, RemoveSync
    <2>7. CASE RemoveTarget
      <3>1. pc \in {"rm_target", "rm_target_sync"} /\ mem.tgt \in Cwds
        BY <2>1, <2>7, Busy DEF RemoveTarget, RemoveSome, RemoveAll, RemoveSync, RelocInv
      <3>2. main' # main
        BY <2>1
      <3>3. mem.tgt = c /\ pc = "rm_target"
        BY <2>3, <2>7, <3>1, <3>2 DEF RemoveTarget, RemoveSome, RemoveAll, RemoveSync
      <3> QED BY <2>1, <3>3 DEF RelocInv, HolderInv, UndoInv, Alone
    <2>8. CASE \E d \in Cwds : ForeignAppears(d)
      <3>1. PICK d \in Cwds : ForeignAppears(d)
        BY <2>8
      <3> QED BY <2>3, <3>1 DEF ForeignAppears
    <2>9. CASE UNCHANGED main
      BY <2>1, <2>9
    <2>10. CASE \/ Acquire \/ Release \/ (\E src, tgt \in Cwds : StageBegin(src, tgt))
                \/ StageSync \/ StageFails \/ PublishFails \/ PublishSync
                \/ WriteNotCommitted \/ WriteRename \/ WriteSync \/ BarrierFails
                \/ MarkReady \/ CommitAgain \/ Rollback \/ Recover \/ RecoverSync
                \/ CommitSync \/ RollbackSource \/ RollbackTarget \/ Finish
                \/ FinalizeRemove \/ FinalizeAgain \/ FinalizeSync \/ Crash
      <3>1. UNCHANGED main
        BY <2>10 DEF Acquire, Release, StageBegin, StageSync, StageFails, PublishFails, PublishSync,
           WriteNotCommitted, WriteRename, WriteSync, BarrierFails, MarkReady, CommitAgain, Rollback,
           Recover, RecoverSync, CommitSync, RollbackSource, RollbackTarget, Finish, FinalizeRemove,
           FinalizeAgain, FinalizeSync, Crash
      <3> QED BY <2>9, <3>1
    <2> QED BY <2>1, <2>4, <2>5, <2>6, <2>7, <2>8, <2>10 DEF Next
  <1> QED BY <1>0, <1>1, Invariant, PTL DEF Spec, ForeignKept

-----------------------------------------------------------------------------
(* The refinement of AtomicMove.                                           *)

IntactSet == {c \in Cwds : Intact(c)}

\* What the mapped variables are in a state of the invariant.
HomeFacts ==
    /\ Home \in Cwds /\ Intact(Home)
    /\ journal # NoJournal => Home = Authority(journal)
    /\ \A j \in mayJournal : j # NoJournal => Authority(j) \in Cwds /\ Intact(Authority(j))
    /\ NoJournal \in mayJournal =>
          /\ Stable = {Home} /\ \A c \in Cwds : Intact(c) => c = Home
          /\ \A h \in Cwds, g \in 0..MaxNonce : Rests(mayMain, h, g) => Home = h

LEMMA HomeFactsHold == RelocInv => HomeFacts
  <1>1. SUFFICES ASSUME RelocInv PROVE HomeFacts
    OBVIOUS
  <1>2. \A j \in mayJournal : j # NoJournal => Authority(j) \in Cwds /\ Intact(Authority(j))
    BY <1>1, AuthorityWhole, IntactIsWhole
  <1>3. journal # NoJournal => Home = Authority(journal)
    BY DEF Home
  <1>4. ASSUME NEW h \in Cwds, NEW g \in 0..MaxNonce, Rests(mayMain, h, g), NEW c \in Cwds
        PROVE  Intact(c) <=> c = h
    BY <1>1, <1>4, RestingPlace, IntactIsWhole DEF RelocInv, Intact
  <1>5. ASSUME NEW h \in Cwds, NEW g \in 0..MaxNonce, Rests(mayMain, h, g)
        PROVE  Home = h
    <2>1. CASE journal = NoJournal
      <3>1. Home = CHOOSE c \in Cwds : Intact(c)
        BY <2>1 DEF Home
      <3>2. Intact(CHOOSE c \in Cwds : Intact(c)) /\ (CHOOSE c \in Cwds : Intact(c)) \in Cwds
        BY <1>4, <1>5
      <3> QED BY <1>4, <1>5, <3>1, <3>2
    <2>2. CASE journal # NoJournal
      BY <1>1, <1>2, <1>3, <1>4, <1>5, <2>2 DEF RelocInv, DiskInv
    <2> QED BY <2>1, <2>2
  <1>6. ASSUME NoJournal \in mayJournal
        PROVE  /\ Home \in Cwds /\ Intact(Home)
               /\ Stable = {Home} /\ \A c \in Cwds : Intact(c) => c = Home
    <2>1. PICK h \in Cwds, g \in 0..MaxNonce : Rests(mayMain, h, g)
      BY <1>1, <1>6 DEF RelocInv, DiskInv
    <2>2. Home = h
      BY <1>5, <2>1
    <2>3. \A c \in Cwds : Intact(c) <=> c = h
      BY <1>4, <2>1
    <2>4. \A j \in mayJournal : j # NoJournal => Authority(j) = h
      BY <1>2, <2>3
    <2> QED BY <2>1, <2>2, <2>3, <2>4 DEF Stable
  <1>7. Home \in Cwds /\ Intact(Home)
    BY <1>1, <1>2, <1>3, <1>6 DEF RelocInv, DiskInv
  <1> QED BY <1>2, <1>3, <1>5, <1>6, <1>7 DEF HomeFacts

\* A step that keeps the journal and the complete copies keeps the home.
LEMMA HomeKept ==
    ASSUME RelocInv, HomeFacts, HomeFacts', journal' = journal,
           \A c \in Cwds : Intact(c) <=> Intact(c)'
    PROVE  Home' = Home /\ IntactSet' = IntactSet
  <1>1. IntactSet' = IntactSet
    BY DEF IntactSet
  <1>2. CASE journal = NoJournal
    <2>1. Home' \in Cwds /\ Intact(Home') /\ \A c \in Cwds : Intact(c) => c = Home
      <3>1. Home' \in Cwds /\ Intact(Home)'
        BY DEF HomeFacts
      <3>2. \A c \in Cwds : Intact(c) => c = Home
        BY <1>2 DEF HomeFacts, RelocInv, DiskInv
      <3> QED BY <3>1, <3>2 DEF Intact
    <2> QED BY <1>1, <2>1
  <1>3. CASE journal # NoJournal
    <2>1. Home = Authority(journal) /\ Home' = Authority(journal')
      BY <1>3 DEF HomeFacts
    <2> QED BY <1>1, <2>1
  <1> QED BY <1>1, <1>2, <1>3

LEMMA SameMain ==
    ASSUME UNCHANGED main
    PROVE  \A c \in Cwds : Intact(c) <=> Intact(c)'
  BY DEF Intact

LEMMA SameStable ==
    ASSUME Home' = Home, mayJournal' = mayJournal
    PROVE  Stable' = Stable
  BY DEF Stable

\* The journal is the only one that a power failure can leave.
LEMMA AloneStable ==
    ASSUME HomeFacts, mayJournal = {journal}
    PROVE  Stable = {Home}
  BY DEF HomeFacts, Stable

Mapped == <<Home, Stable, IntactSet>>
MoveStep == [Move!Next]_Mapped

LEMMA NothingMoves ==
    ASSUME RelocInv, HomeFacts, HomeFacts', UNCHANGED <<main, journal, mayJournal>>
    PROVE  UNCHANGED Mapped
  BY HomeKept, SameMain, SameStable DEF Mapped

LEMMA SettleStep ==
    ASSUME RelocInv, HomeFacts, HomeFacts', UNCHANGED <<main, journal>>, SyncNamespace
    PROVE  Move!Settle
  <1>1. Home' = Home /\ IntactSet' = IntactSet
    BY HomeKept, SameMain
  <1>2. Stable' = {Home'}
    BY DEF HomeFacts, Stable, SyncNamespace
  <1> QED BY <1>1, <1>2 DEF Move!Settle, IntactSet

LEMMA RenameMoves ==
    ASSUME RelocInv, HomeFacts, HomeFacts', WriteRename
    PROVE  MoveStep
  <1>1. /\ pc = "write" /\ journal' = mem /\ mayJournal' = mayJournal \cup {mem} /\ UNCHANGED main
        /\ mem \in Journals /\ mem # NoJournal /\ mem.phase \in Phases /\ Fits(mayMain, mem)
        /\ mem.src \in Cwds /\ mem.tgt \in Cwds /\ mem.src # mem.tgt
        /\ journal \in Journals /\ journal \in mayJournal
    BY Busy DEF WriteRename, RelocInv, TypeOK, DiskInv, HolderInv, WriteInv, Fits
  <1>2. IntactSet' = IntactSet /\ \A c \in Cwds : Intact(c) <=> Intact(c)'
    BY <1>1, SameMain DEF IntactSet
  <1>3. Home' = Authority(mem) /\ Home' \in Cwds /\ Intact(Home')
    <2>1. Home' = Authority(mem) /\ Home' \in Cwds /\ Intact(Home)'
      BY <1>1 DEF HomeFacts
    <2> QED BY <1>1, <2>1 DEF Intact
  <1>4. Stable' = {Home'} \cup {Authority(j) : j \in mayJournal \ {NoJournal}}
    BY <1>1, <1>3 DEF Stable
  <1>5. CASE mem.phase = "Prepared"
    <2>1. journal = NoJournal
      BY <1>1, <1>5 DEF RelocInv, HolderInv, WriteInv
    <2>2. Home' = Home
      BY <1>1, <1>3, <2>1 DEF HomeFacts
    <2> QED BY <1>2, <1>4, <2>2 DEF MoveStep, Mapped, Stable
  <1>6. CASE mem.phase # "Prepared"
    <2>1. /\ journal # NoJournal /\ mayJournal = {journal} /\ mem = [journal EXCEPT !.phase = mem.phase]
          /\ Follows(journal.phase, mem.phase)
      BY <1>1, <1>6 DEF RelocInv, HolderInv, WriteInv
    <2>2. mem.src = journal.src /\ mem.tgt = journal.tgt
      BY <1>1, <2>1, NextPhase
    <2>3. Home = Authority(journal) /\ Stable = {Home} /\ Stable' = Stable \cup {Home'}
      BY <1>4, <2>1, AloneStable DEF HomeFacts
    <2>4. CASE mem.phase = "Ready"
      <3>1. Home = mem.src /\ Home' = mem.tgt
        BY <1>3, <2>1, <2>2, <2>3, <2>4 DEF Authority, Follows, has_target_authority
      <3>2. Move!Move(mem.tgt)
        BY <1>1, <1>2, <1>3, <2>3, <3>1 DEF Move!Move, IntactSet
      <3> QED BY <1>1, <3>2 DEF MoveStep, Move!Next
    <2>5. CASE mem.phase # "Ready"
      <3>1. Home' = Home
        BY <1>3, <1>6, <2>1, <2>2, <2>3, <2>5 DEF Authority, Follows, has_target_authority
      <3>2. Stable' = Stable
        BY <2>3, <3>1
      <3> QED BY <1>2, <3>1, <3>2 DEF MoveStep, Mapped
    <2> QED BY <2>4, <2>5
  <1> QED BY <1>5, <1>6

LEMMA FinalizeMoves ==
    ASSUME RelocInv, HomeFacts, HomeFacts', FinalizeRemove
    PROVE  UNCHANGED Mapped
  <1>1. /\ mayJournal' = mayJournal \cup {NoJournal} /\ UNCHANGED main /\ mayJournal = {journal}
        /\ journal # NoJournal
    BY DEF FinalizeRemove, RelocInv, ProofInv
  <1>2. IntactSet' = IntactSet /\ \A c \in Cwds : Intact(c) <=> Intact(c)'
    BY <1>1, SameMain DEF IntactSet
  <1>3. Stable = {Home}
    BY <1>1, AloneStable
  <1>4. Stable' = {Home'} /\ Home' = Home
    BY <1>1, <1>2 DEF HomeFacts
  <1> QED BY <1>2, <1>3, <1>4 DEF Mapped

\* One directory changes: what becomes of the complete copies.
LEMMA OneCopyChanges ==
    ASSUME NEW c \in Cwds, NEW m, main \in [Cwds -> Contents], main' = [main EXCEPT ![c] = m]
    PROVE  IntactSet' = IF Whole(c, m) THEN IntactSet \cup {c} ELSE IntactSet \ {c}
  <1>1. \A d \in Cwds : main'[d] = IF d = c THEN m ELSE main[d]
    OBVIOUS
  <1>2. IntactSet' = {d \in Cwds : Whole(d, main'[d])} /\ IntactSet = {d \in Cwds : Whole(d, main[d])}
    BY DEF IntactSet, Intact, Whole
  <1> QED BY <1>1, <1>2

LEMMA PublishMoves ==
    ASSUME RelocInv, HomeFacts, HomeFacts', Publish
    PROVE  MoveStep
  <1>1. /\ pc = "publish" /\ Alone /\ StagedIn(mayMain, mem) /\ main[mem.tgt] = Absent
        /\ SetPath(mem.tgt, staging[mem.tgt], Absent) /\ UNCHANGED <<journal, mayJournal>>
        /\ mem.tgt \in Cwds /\ mem # NoJournal /\ main \in [Cwds -> Contents]
    BY Busy DEF Publish, RelocInv, TypeOK, HolderInv, StageInv
  <1>2. staging[mem.tgt] = Goal(mem) /\ Whole(mem.tgt, Goal(mem))
    <2>1. Whole(mem.tgt, Goal(mem))
      BY GoalFields DEF Whole
    <2> QED BY <1>1, <2>1 DEF RelocInv, DiskInv, StagedIn
  <1>3. IntactSet' = IntactSet \cup {mem.tgt}
    BY <1>1, <1>2, OneCopyChanges DEF SetPath
  <1>4. mem.tgt \notin IntactSet
    BY <1>1, FreeIsNotWhole, IntactIsWhole DEF IntactSet, Free
  <1>5. Home' = Home /\ Stable' = Stable
    <2>1. Home' = Home
      BY <1>1 DEF HomeFacts, Alone
    <2> QED BY <1>1, <2>1, SameStable
  <1>6. Move!Copy(mem.tgt)
    BY <1>3, <1>4, <1>5 DEF Move!Copy, IntactSet
  <1> QED BY <1>1, <1>6 DEF MoveStep, Move!Next

\* A removal of the directory that no journal names.
LEMMA RemovalMoves ==
    ASSUME RelocInv, HomeFacts, HomeFacts', pc \notin {"free", "held", "fin_sync"}, Alone,
           NEW c \in Cwds, c # Authority(mem), NEW x, main' = [main EXCEPT ![c] = x],
           x = main[c] \/ ~Whole(c, x), UNCHANGED <<journal, mayJournal>>
    PROVE  MoveStep
  <1>1. mem # NoJournal /\ main \in [Cwds -> Contents] /\ journal = mem /\ mayJournal = {journal}
    BY Busy DEF RelocInv, TypeOK, Alone
  <1>2. Home = Authority(mem) /\ Home' = Home /\ Stable = {Home}
    BY <1>1, AloneStable DEF HomeFacts
  <1>3. Stable' = Stable
    BY <1>2, SameStable
  <1>4. CASE x = main[c]
    <2>1. main' = main
      BY <1>1, <1>4
    <2>2. IntactSet' = IntactSet
      BY <2>1 DEF IntactSet, Intact
    <2> QED BY <1>2, <1>3, <2>2 DEF MoveStep, Mapped
  <1>5. CASE ~Whole(c, x)
    <2>1. IntactSet' = IntactSet \ {c}
      BY <1>1, <1>5, OneCopyChanges
    <2>2. CASE c \in IntactSet
      <3>1. Move!Drop(c)
        BY <1>2, <1>3, <2>1, <2>2 DEF Move!Drop, IntactSet
      <3> QED BY <3>1 DEF MoveStep, Move!Next
    <2>3. CASE c \notin IntactSet
      <3>1. IntactSet' = IntactSet
        BY <2>1, <2>3
      <3> QED BY <1>2, <1>3, <3>1 DEF MoveStep, Mapped
    <2> QED BY <2>2, <2>3
  <1> QED BY <1>4, <1>5

LEMMA ErodedIsNotWhole ==
    ASSUME NEW c, NEW x, NEW y \in Erode(x)
    PROVE  y = x \/ ~Whole(c, y)
  <1>1. y \in {x, Session(x.cwd, x.gen, x.prev, FALSE), Partial}
    BY DEF Erode
  <1>2. ~Session(x.cwd, x.gen, x.prev, FALSE).whole
    BY DEF Session
  <1>3. Partial.kind # "session"
    BY Contained
  <1> QED BY <1>1, <1>2, <1>3 DEF Whole

LEMMA RemoveMoves ==
    ASSUME RelocInv, HomeFacts, HomeFacts', RemoveSource \/ RemoveStaging \/ RemoveTarget
    PROVE  MoveStep
  <1>1. /\ pc \in {"rm_source", "rm_source_sync", "rm_staging", "rm_staging_sync", "rm_target",
                  "rm_target_sync"}
        /\ UNCHANGED <<journal, mayJournal>> /\ Alone
        /\ RemoveSource => has_target_authority(mem.phase)
        /\ RemoveTarget => ~has_target_authority(mem.phase)
    BY DEF RemoveSource, RemoveStaging, RemoveTarget, RemoveSome, RemoveAll, RemoveSync, RelocInv,
       HolderInv, CommitInv, CleanInv, UndoInv, Undoes
  <1>2. /\ mem.src \in Cwds /\ mem.tgt \in Cwds /\ mem.src # mem.tgt /\ main \in [Cwds -> Contents]
        /\ \A c \in Cwds : ~Whole(c, Absent)
    <2>1. \A c \in Cwds : ~Whole(c, Absent)
      BY FreeIsNotWhole DEF Free
    <2> QED BY <1>1, <2>1, Now DEF RelocInv, TypeOK
  <1>3. CASE UNCHANGED main
    BY <1>1, <1>3, NothingMoves DEF MoveStep
  <1>4. ASSUME NEW c \in Cwds, NEW x, main' = [main EXCEPT ![c] = x], c # Authority(mem),
               x = Absent \/ x \in Erode(main[c])
        PROVE  MoveStep
    <2>1. x = main[c] \/ ~Whole(c, x)
      BY <1>2, <1>4, ErodedIsNotWhole
    <2> QED BY <1>1, <1>4, <2>1, RemovalMoves
  <1>5. CASE RemoveSource
    <2>1. mem.src # Authority(mem)
      BY <1>1, <1>2, <1>5 DEF Authority
    <2>2. CASE RemoveSome("rm_source", mem.src, FALSE)
      <3>1. PICK x \in Erode(main[mem.src]) : SetPath(mem.src, x, staging[mem.src])
        BY <2>2 DEF RemoveSome
      <3> QED BY <1>2, <1>4, <2>1, <3>1 DEF SetPath
    <2>3. CASE RemoveAll("rm_source", mem.src, FALSE, "rm_source_sync")
      BY <1>2, <1>4, <2>1, <2>3 DEF RemoveAll, SetPath
    <2>4. CASE RemoveSync("rm_source_sync", mem.src, "rm_staging")
      BY <1>3, <2>4 DEF RemoveSync
    <2> QED BY <1>5, <2>2, <2>3, <2>4 DEF RemoveSource
  <1>6. CASE RemoveStaging
    <2>1. main' = [main EXCEPT ![mem.tgt] = main[mem.tgt]] \/ UNCHANGED main
      BY <1>6 DEF RemoveStaging, RemoveSome, RemoveAll, RemoveSync, SetPath
    <2> QED BY <1>2, <1>3, <2>1
  <1>7. CASE RemoveTarget
    <2>1. mem.tgt # Authority(mem)
      BY <1>1, <1>2, <1>7 DEF Authority
    <2>2. CASE RemoveSome("rm_target", mem.tgt, FALSE)
      <3>1. PICK x \in Erode(main[mem.tgt]) : SetPath(mem.tgt, x, staging[mem.tgt])
        BY <2>2 DEF RemoveSome
      <3> QED BY <1>2, <1>4, <2>1, <3>1 DEF SetPath
    <2>3. CASE RemoveAll("rm_target", mem.tgt, FALSE, "rm_target_sync")
      BY <1>2, <1>4, <2>1, <2>3 DEF RemoveAll, SetPath
    <2>4. CASE RemoveSync("rm_target_sync", mem.tgt, "finish")
      BY <1>3, <2>4 DEF RemoveSync
    <2> QED BY <1>7, <2>2, <2>3, <2>4 DEF RemoveTarget
  <1> QED BY <1>5, <1>6, <1>7

LEMMA PowerFailMoves ==
    ASSUME RelocInv, HomeFacts, HomeFacts', PowerFail
    PROVE  MoveStep
  <1>1. PICK j \in mayJournal : journal' = j /\ mayJournal' = {j}
    BY DEF PowerFail
  <1>2. Stable' = {Home'} /\ Home' \in Cwds
    BY <1>1 DEF HomeFacts, Stable
  <1>3. Home' \in Stable
    <2>1. CASE j # NoJournal
      <3>1. Home' = Authority(j)
        BY <1>1, <2>1 DEF HomeFacts
      <3> QED BY <2>1, <3>1 DEF Stable
    <2>2. CASE j = NoJournal
      <3>1. PICK h \in Cwds, g \in 0..MaxNonce : Rests(mayMain, h, g)
        BY <2>2 DEF RelocInv, DiskInv
      <3>2. Fewer(mayMain', mayMain)
        BY DEF PowerFail, Fewer
      <3>3. Rests(mayMain', h, g)
        BY <3>1, <3>2, FewerRests
      <3>4. Home = h /\ Home' = h
        BY <1>1, <2>2, <3>1, <3>3 DEF HomeFacts
      <3> QED BY <3>4 DEF Stable
    <2> QED BY <2>1, <2>2
  <1>4. Home' \in IntactSet' /\ IntactSet' \subseteq Cwds
    BY DEF HomeFacts, IntactSet
  <1>5. Move!PowerFail
    BY <1>2, <1>3, <1>4 DEF Move!PowerFail, IntactSet
  <1> QED BY <1>5 DEF MoveStep, Move!Next

LEMMA ForeignMoves ==
    ASSUME RelocInv, HomeFacts, HomeFacts', NEW c \in Cwds, ForeignAppears(c)
    PROVE  MoveStep
  <1>1. /\ main[c] = Absent /\ main' = [main EXCEPT ![c] = Foreign] /\ UNCHANGED <<journal, mayJournal>>
        /\ main \in [Cwds -> Contents]
    BY DEF ForeignAppears, SetPath, RelocInv, TypeOK
  <1>2. Free(Absent) /\ Free(Foreign)
    BY DEF Free
  <1>3. \A d \in Cwds : main'[d] = IF d = c THEN Foreign ELSE main[d]
    BY <1>1
  <1>4. \A d \in Cwds : Intact(d) <=> Intact(d)'
    BY <1>1, <1>2, <1>3, FreeIsNotWhole DEF Intact
  <1>5. Home' = Home /\ IntactSet' = IntactSet
    BY <1>1, <1>4, HomeKept
  <1> QED BY <1>1, <1>5, SameStable DEF MoveStep, Mapped

LEMMA MoveSteps ==
    ASSUME RelocInv, HomeFacts, HomeFacts', [Next]_vars
    PROVE  MoveStep
  <1>1. CASE UNCHANGED <<main, journal, mayJournal>>
    BY <1>1, NothingMoves DEF MoveStep
  <1>2. CASE WriteSync \/ RecoverSync \/ CommitSync \/ FinalizeSync
    <2>1. SyncNamespace /\ UNCHANGED <<main, journal>>
      BY <1>2 DEF WriteSync, RecoverSync, CommitSync, FinalizeSync
    <2> QED BY <2>1, SettleStep DEF MoveStep, Move!Next
  <1>3. CASE CopyStart \/ CopyFinish \/ RewriteSummary
    <2>1. mem.tgt \in Cwds /\ main \in [Cwds -> Contents]
      BY <1>3, Busy DEF CopyStart, CopyFinish, RewriteSummary, RelocInv, TypeOK
    <2>2. main' = [main EXCEPT ![mem.tgt] = main[mem.tgt]] /\ UNCHANGED <<journal, mayJournal>>
      BY <1>3 DEF CopyStart, CopyFinish, RewriteSummary, SetPath, SetPathDurably
    <2> QED BY <1>1, <2>1, <2>2
  <1>4. CASE \/ Acquire \/ Release \/ (\E src, tgt \in Cwds : StageBegin(src, tgt))
             \/ StageSync \/ StageFails \/ PublishFails \/ PublishSync
             \/ WriteNotCommitted \/ BarrierFails \/ MarkReady \/ CommitAgain \/ Rollback \/ Recover
             \/ RollbackSource \/ RollbackTarget \/ Finish \/ FinalizeAgain \/ Crash \/ UNCHANGED vars
    <2>1. UNCHANGED <<main, journal, mayJournal>>
      BY <1>4 DEF Acquire, Release, StageBegin, StageSync, StageFails, PublishFails, PublishSync,
         WriteNotCommitted, BarrierFails, MarkReady, CommitAgain, Rollback, Recover,
         RollbackSource, RollbackTarget, Finish, FinalizeAgain, Crash, vars
    <2> QED BY <1>1, <2>1
  <1>5. CASE FinalizeRemove
    BY <1>5, FinalizeMoves DEF MoveStep
  <1> QED BY <1>2, <1>3, <1>4, <1>5, RenameMoves, PublishMoves, RemoveMoves, PowerFailMoves,
       ForeignMoves DEF Next

\* stage_and_publish, mark_ready_and_commit, rollback, recover and finalize_terminal,
\* with all their failures, crashes and power failures, implement AtomicMove: the
\* session moves in one step, and no complete copy goes that a journal which a power
\* failure may leave can still name.
THEOREM RelocationRefines ==
    ASSUME ~RetryCommits
    PROVE  Spec => RelocationIsAtomic
  <1>1. Init => Move!Init
    <2>1. SUFFICES ASSUME Init PROVE Move!Init
      OBVIOUS
    <2>2. RelocInv /\ HomeFacts /\ NoJournal \in mayJournal
      BY <2>1, InvInit, HomeFactsHold DEF Init
    <2>3. Home \in Cwds /\ Stable = {Home} /\ IntactSet = {Home}
      BY <2>2 DEF HomeFacts, IntactSet
    <2> QED BY <2>3 DEF Move!Init, IntactSet
  <1>2. RelocInv /\ HomeFacts /\ HomeFacts' /\ [Next]_vars => [Move!Next]_(Move!vars)
    BY MoveSteps DEF MoveStep, Mapped, Move!vars, IntactSet
  <1> QED BY <1>1, <1>2, Invariant, HomeFactsHold, PTL DEF Spec, RelocationIsAtomic, Move!Spec

-----------------------------------------------------------------------------
(* The reader beside a relocation.                                         *)

\* Between loads nothing is kept.  During one, every home since the journal was read
\* is on record; a session that has not moved has been scanned where it lives.
ReadInv ==
    /\ ~reading => all = {} /\ persisted = {}
    /\ reading =>
          /\ Home \in homes
          /\ seen # NoJournal => Authority(seen) \in homes
          /\ seen = NoJournal /\ (\A h, g \in homes : h = g) => Home \in unread \cup persisted

ViewInv == RelocInv /\ HomeFacts /\ ViewTypeOK /\ ReadInv

LEMMA ViewInitInv ==
    ASSUME ViewInit
    PROVE  ViewInv
  <1>1. RelocInv /\ HomeFacts
    BY InvInit, HomeFactsHold DEF ViewInit
  <1>2. ViewTypeOK /\ ReadInv
    BY <1>1, NoJournalPhase DEF ViewInit, RelocInv, ViewTypeOK, ReadInv
  <1> QED BY <1>1, <1>2 DEF ViewInv

\* The home is a directory with a summary.
LEMMA HomeIsSession ==
    ASSUME HomeFacts
    PROVE  Home \in Cwds /\ main[Home].kind = "session" /\ main[Home] # Absent
  <1>1. Home \in Cwds /\ main[Home].kind = "session"
    BY DEF HomeFacts, Intact
  <1> QED BY <1>1, Contained

\* The steps of the reader leave the relocation where it is.
LEMMA ReaderKeeps ==
    ASSUME RelocInv, HomeFacts, UNCHANGED vars
    PROVE  RelocInv' /\ Home' = Home /\ HomeFacts'
  <1>1. RelocInv'
    BY InvStutter
  <1>2. UNCHANGED <<main, journal, mayJournal, mayMain>>
    BY DEF vars
  <1>3. Home' = Home
    BY <1>2 DEF Home, Intact
  <1>4. Stable' = Stable
    BY <1>2, <1>3, SameStable
  <1>5. HomeFacts'
    BY <1>2, <1>3, <1>4 DEF HomeFacts, Intact
  <1> QED BY <1>1, <1>3, <1>5

LEMMA LoadJournalsStep ==
    ASSUME ViewInv, load_journals
    PROVE  ViewTypeOK' /\ ReadInv'
  <1>1. /\ ~reading /\ reading' = TRUE /\ seen' = journal /\ unread' = Cwds /\ homes' = {Home}
        /\ UNCHANGED <<vars, all, persisted, selected>> /\ all = {} /\ persisted = {}
        /\ Home \in Cwds
    BY DEF load_journals, ViewInv, ReadInv, HomeFacts
  <1>2. RelocInv' /\ Home' = Home
    BY <1>1, ReaderKeeps DEF ViewInv
  <1>3. ViewTypeOK'
    BY <1>1, <1>2 DEF ViewInv, ViewTypeOK, RelocInv, TypeOK
  <1>4. journal # NoJournal => Authority(journal) = Home
    BY DEF ViewInv, HomeFacts
  <1>5. ReadInv'
    BY <1>1, <1>2, <1>4 DEF ReadInv
  <1> QED BY <1>3, <1>5

LEMMA LoadCandidatesStep ==
    ASSUME ViewInv, NEW c \in Cwds, load_candidates(c)
    PROVE  ViewTypeOK' /\ ReadInv'
  <1>1. /\ reading /\ c \in unread /\ unread' = unread \ {c}
        /\ all' = (IF main[c] = Absent THEN all ELSE all \cup {c})
        /\ persisted' = (IF main[c].kind = "session" THEN persisted \cup {c} ELSE persisted)
        /\ UNCHANGED <<vars, seen, reading, selected, homes>>
    BY DEF load_candidates
  <1>2. RelocInv' /\ Home' = Home
    BY <1>1, ReaderKeeps DEF ViewInv
  <1>3. main[c].kind = "session" => main[c] # Absent
    BY Contained
  <1>4. ViewTypeOK'
    BY <1>1, <1>2, <1>3 DEF ViewInv, ViewTypeOK, RelocInv
  <1>5. main[Home].kind = "session"
    BY HomeIsSession DEF ViewInv
  <1>6. ReadInv'
    BY <1>1, <1>2, <1>5 DEF ViewInv, ReadInv
  <1> QED BY <1>4, <1>6

\* select returns the home on record, unless the session moved during the load.
LEMMA SelectsHome ==
    ASSUME ViewInv, select
    PROVE  /\ selected' \in Cwds \cup {NotFound, Failed}
           /\ selected' \in Cwds => selected' \in homes \/ \E h, g \in homes : h # g
  <1>1. /\ reading /\ unread = {} /\ persisted \subseteq all /\ all \subseteq Cwds
    BY DEF select, ViewInv, ViewTypeOK
  <1>2. CASE seen # NoJournal
    <2>1. selected' = IF Authority(seen) \in all /\ validate_authoritative_dir
                      THEN Authority(seen) ELSE Failed
      BY <1>2 DEF select
    <2>2. Authority(seen) \in homes
      BY <1>1, <1>2 DEF ViewInv, ReadInv
    <2> QED BY <1>1, <2>1, <2>2, ViewAssumption
  <1>3. CASE seen = NoJournal /\ Cardinality(persisted) = 1
    <2>1. selected' = CHOOSE c \in persisted : TRUE
      BY <1>3 DEF select
    <2>2. IsFiniteSet(persisted)
      BY <1>1, RelocationAssumption, FS_Subset
    <2>3. PICK x : persisted = {x}
      BY <1>3, <2>2, FS_Singleton
    <2>4. selected' = x
      BY <2>1, <2>3
    <2>5. (\A h, g \in homes : h = g) => x \in homes
      BY <1>1, <1>3, <2>3 DEF ViewInv, ReadInv
    <2> QED BY <1>1, <2>3, <2>4, <2>5
  <1>4. CASE seen = NoJournal /\ Cardinality(persisted) # 1
    BY <1>4, ViewAssumption DEF select
  <1> QED BY <1>2, <1>3, <1>4

LEMMA SelectStep ==
    ASSUME ViewInv, select
    PROVE  ViewTypeOK' /\ ReadInv'
  <1>1. /\ reading' = FALSE /\ seen' = NoJournal /\ all' = {} /\ persisted' = {} /\ homes' = {}
        /\ UNCHANGED <<vars, unread>>
    BY DEF select, DropView
  <1>2. RelocInv'
    BY <1>1, ReaderKeeps DEF ViewInv
  <1>3. selected' \in Cwds \cup {NotFound, Failed}
    BY SelectsHome
  <1> QED BY <1>1, <1>2, <1>3, NoJournalPhase DEF ViewInv, ViewTypeOK, ReadInv, RelocInv

LEMMA RelocateStep ==
    ASSUME ViewInv, RelocInv', HomeFacts', Relocate
    PROVE  ViewTypeOK' /\ ReadInv'
  <1>1. homes' = (IF reading THEN homes \cup {Home'} ELSE homes) /\ UNCHANGED reader
    BY DEF Relocate
  <1>2. UNCHANGED <<seen, unread, all, persisted, reading, selected>>
    BY <1>1 DEF reader
  <1>3. Home' \in Cwds
    BY DEF HomeFacts
  <1>4. ViewTypeOK'
    BY <1>1, <1>2, <1>3 DEF ViewInv, ViewTypeOK, RelocInv
  <1>5. ASSUME reading, \A h, g \in homes' : h = g PROVE Home' = Home /\ \A h, g \in homes : h = g
    BY <1>1, <1>5 DEF ViewInv, ReadInv
  <1>6. ReadInv'
    BY <1>1, <1>2, <1>5 DEF ViewInv, ReadInv
  <1> QED BY <1>4, <1>6

LEMMA ViewStep ==
    ASSUME ~RetryCommits, ViewInv, [ViewNext]_viewVars, HomeFacts'
    PROVE  ViewInv'
  <1>1. CASE Relocate
    <2>1. RelocInv'
      BY <1>1, InvStep DEF ViewInv, Relocate
    <2> QED BY <1>1, <2>1, RelocateStep DEF ViewInv
  <1>2. CASE load_journals \/ (\E c \in Cwds : load_candidates(c)) \/ select
    <2>1. UNCHANGED vars
      BY <1>2 DEF load_journals, load_candidates, select, DropView
    <2>2. RelocInv'
      BY <2>1, ReaderKeeps DEF ViewInv
    <2> QED BY <1>2, <2>2, LoadJournalsStep, LoadCandidatesStep, SelectStep DEF ViewInv
  <1>3. CASE UNCHANGED viewVars
    <2>1. UNCHANGED vars /\ UNCHANGED <<seen, unread, all, persisted, reading, selected, homes>>
      BY <1>3 DEF viewVars, reader
    <2>2. RelocInv' /\ Home' = Home
      BY <2>1, ReaderKeeps DEF ViewInv
    <2> QED BY <2>1, <2>2 DEF ViewInv, ViewTypeOK, ReadInv, RelocInv
  <1> QED BY <1>1, <1>2, <1>3 DEF ViewNext

LEMMA ViewInvariant ==
    ASSUME ~RetryCommits
    PROVE  ViewSpec => []ViewInv
  <1>1. ViewInit => ViewInv
    BY ViewInitInv
  <1>2. ViewInv /\ [ViewNext]_viewVars => RelocInv'
    <2>1. SUFFICES ASSUME ViewInv, [ViewNext]_viewVars PROVE RelocInv'
      OBVIOUS
    <2>2. [Next]_vars
      BY <2>1 DEF ViewNext, Relocate, load_journals, load_candidates, select, DropView, viewVars
    <2> QED BY <2>1, <2>2, InvStep DEF ViewInv
  <1>3. ViewInv /\ [ViewNext]_viewVars /\ HomeFacts' => ViewInv'
    BY ViewStep
  <1> QED BY <1>1, <1>2, <1>3, HomeFactsHold, PTL DEF ViewSpec

\* The types of a RelocationView beside the relocation (view.rs): what has a summary is
\* among what exists, and a directory is scanned once.
THEOREM ViewTypeCorrect ==
    ASSUME ~RetryCommits
    PROVE  ViewSpec => []ViewTypeOK
  <1>1. ViewInv => ViewTypeOK
    BY DEF ViewInv
  <1> QED BY <1>1, ViewInvariant, PTL

\* RelocationView::select returns a directory where the session lived at some moment of
\* the load, for any number of directories and of relocations beside it, unless the
\* session itself moved during the load.
THEOREM ReaderFindsHome ==
    ASSUME ~RetryCommits
    PROVE  ViewSpec => SelectedWasHome
  <1> DEFINE Found == selected' \in Cwds /\ reading /\ ~reading' =>
                          selected' \in homes \/ \E h, g \in homes : h # g
  <1>1. ViewInv /\ [ViewNext]_viewVars => [Found]_viewVars
    <2>1. SUFFICES ASSUME ViewInv, ViewNext, selected' \in Cwds, reading, ~reading'
                   PROVE  selected' \in homes \/ \E h, g \in homes : h # g
      OBVIOUS
    <2>2. select
      BY <2>1 DEF ViewNext, Relocate, load_journals, load_candidates, reader
    <2> QED BY <2>1, <2>2, SelectsHome
  <1> QED BY <1>1, ViewInvariant, PTL DEF ViewSpec, SelectedWasHome
=============================================================================
