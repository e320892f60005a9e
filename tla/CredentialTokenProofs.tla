------------------------ MODULE CredentialTokenProofs ------------------------
(***************************************************************************)
(* Proofs about the refresh tokens of CredentialRefresh: which generation  *)
(* is the one the provider still accepts, that it is never thrown away,    *)
(* and that a process never sends a token again that was rejected.         *)
(***************************************************************************)
EXTENDS CredentialRefreshProofs

\* No waiter breaks a lock, and auth.json can be read and written.
Reliable == ~MayBreak /\ "write_fails" \notin Events /\ "read_fails" \notin Events

\* A generation that may be in somebody's hands: issued, and not lost on the way.
Known(g) == g < issued \/ (g = issued /\ g \notin hist.lost)

\* What a task that holds the lock may rely on while nobody writes without it.
Stands(t) ==
    /\ ch[t].pc = "granted" => ch[t].cred = issued
    /\ ch[t].pc = "apply" => ch[t].cred \in {disk, issued}
    /\ ch[t].pc = "clear" /\ "disk" \in ch[t].discard => disk # issued
    /\ ch[t].pc = "enrich_write" /\ Holds(Own(t)) => disk = ch[t].cred

TokenOf(t) ==
    /\ Known(ch[t].cred) /\ Known(ch[t].flow)
    /\ ch[t].pc \in {"rejected", "denied"} => ch[t].cred \in spent
    /\ ch[t].pc = "enrich_write" => Answered(Own(t))
    /\ ~hist.unguarded => Stands(t)

InHandOf(t) == ch[t].pc \in {"granted", "apply"} /\ ch[t].cred = issued

\* Everything but the newest generation is spent, and that one is on disk or
\* in the hands of the task that brings it there.
TokenInv ==
    /\ spent = 1..(issued - 1)
    /\ hist.lost \subseteq 1..issued
    /\ Known(disk) /\ (\A p \in Proc : Known(mem[p])) /\ (\A e \in enrich : Known(e.gen))
    /\ \A t \in Task : TokenOf(t)
    /\ ~hist.unguarded /\ issued \notin hist.lost =>
         disk = issued \/ \E t \in Task : InHandOf(t)

Judged(t) == ch[t].pc \in {"denied", "clear"}
Deadly(p, g) == verdict[p].sticky /\ verdict[p].key = g

\* After a rejection the token is on disk no longer, or about to be removed;
\* in memory it is covered by the sticky verdict, or about to be removed.
Barred(p) ==
    /\ \A g \in hist.rejected[p] :
         /\ g \in spent /\ issued \in hist.lost
         /\ \/ disk = 0
            \/ \E t \in Task : P(t) = p /\ Judged(t) /\ ch[t].cred = g /\ disk = g
    /\ mem[p] \in hist.rejected[p] =>
         \/ Deadly(p, mem[p])
         \/ \E t \in Task : /\ P(t) = p /\ Judged(t) /\ ch[t].cred = mem[p]
                            /\ ch[t].pc = "clear" => "mem" \in ch[t].discard

VerdictOf(t) ==
    /\ ch[t].pc \in {"revalidate", "claim", "gate", "exchange", "rejected", "denied", "clear"} =>
         (Usable(disk) => ch[t].reason = "ServerRejected" /\ mem[P(t)] = disk)
    /\ ch[t].pc \in {"exchange", "rejected", "denied"} =>
         ch[t].cred = disk \/ (disk = 0 /\ mem[P(t)] \in {0, ch[t].cred})
    /\ Chaining(t) /\ ~Judged(t) => mem[P(t)] \notin hist.rejected[P(t)]
    /\ ch[t].pc \in {"exchange", "rejected"} => ch[t].cred \notin hist.rejected[P(t)]
    /\ ch[t].pc = "clear" =>
         /\ "disk" \in ch[t].discard \/ disk = 0
         /\ \/ "mem" \in ch[t].discard
            \/ disk = ch[t].cred /\ disk \in expired /\ Deadly(P(t), ch[t].cred)

\* Without run_auth_flow.
NoFlow == \A t \in Task : ch[t].pc # "flow" /\ ch[t].flow = 0

Clean == (\A p \in Proc : Barred(p)) /\ (\A t \in Task : VerdictOf(t))
VerdictInv == ~hist.unguarded => Clean

-----------------------------------------------------------------------------
(* Steps that leave the disk and the provider alone.                       *)

\* Without broken locks, the lock has one holder.
LEMMA SoleHolder ==
    ASSUME RefreshInv, ~MayBreak, NEW t \in Task, NEW u \in Task, Holds(Own(t)), Holds(Own(u))
    PROVE  t = u
BY OwnHandles DEF RefreshInv, LockInv, NoneBroken, OneLive, Holds

LEMMA TokenTypes ==
    ASSUME RefreshInv
    PROVE  /\ issued \in Nat \ {0} /\ issued \in 1..MaxGen /\ disk \in Nat
           /\ \A p \in Proc : mem[p] \in Nat
           /\ \A t \in Task : /\ P(t) \in Proc /\ ch[t] \in Chain /\ ch[t].cred \in Nat
                              /\ ch[t].flow \in Nat
BY RefreshAssumption DEF RefreshInv, RestType, DataType, ChainType, Chain, Gen, P

LEMMA SteadyKeeps ==
    ASSUME RefreshInv, TokenInv, NEW t \in Task, Local(t), TokenOf(t)',
           UNCHANGED <<disk, issued, spent>>, hist'.lost = hist.lost,
           hist.unguarded => hist'.unguarded,
           \A p \in Proc : Known(mem'[p]), \A e \in enrich' : Known(e.gen),
           InHandOf(t) => InHandOf(t)'
    PROVE  TokenInv'
<1>1. \A g : Known(g)' <=> (g < issued \/ (g = issued /\ g \notin hist.lost))
  BY DEF Known
<1>2. \A u \in Task \ {t} : ch'[u] = ch[u] /\ guard'[Own(u)] = guard[Own(u)]
  BY DEF Local
<1>3. \A u \in Task \ {t} : Stands(u) => Stands(u)'
  BY <1>2 DEF Stands, Holds
<1>4. \A u \in Task \ {t} : TokenOf(u)'
  BY <1>1, <1>2, <1>3 DEF TokenInv, TokenOf, Known, Answered
<1>5. ~hist'.unguarded /\ issued' \notin hist'.lost =>
        disk' = issued' \/ \E u \in Task : InHandOf(u)'
  <2> SUFFICES ASSUME ~hist'.unguarded, issued' \notin hist'.lost, disk' # issued'
               PROVE  \E u \in Task : InHandOf(u)'
    OBVIOUS
  <2>1. PICK u \in Task : InHandOf(u)
    BY DEF TokenInv
  <2>2. InHandOf(u)'
    BY <1>2, <2>1 DEF InHandOf
  <2> QED BY <2>2
<1> QED BY <1>1, <1>4, <1>5 DEF TokenInv, Known

\* What is taken from disk, from memory or from the chain is known.
LEMMA KnownOnes ==
    ASSUME RefreshInv, TokenInv, NEW t \in Task
    PROVE  /\ Known(0) /\ Known(disk) /\ Known(ch[t].cred) /\ Known(ch[t].flow)
           /\ \A p \in Proc : Known(mem[p])
BY TokenTypes DEF TokenInv, TokenOf, Known

\* A chain returns; memory may be given what the chain or the disk holds.
LEMMA EndKeepsTokens ==
    ASSUME RefreshInv, TokenInv, NEW t \in Task, Finish(t), ch[t].pc \notin {"granted", "apply"},
           UNCHANGED <<disk, issued, spent, enrich>>, hist'.lost = hist.lost,
           hist.unguarded => hist'.unguarded,
           \A p \in Proc : mem'[p] \in {mem[p], disk, 0, ch[t].flow, ch[t].cred}
    PROVE  TokenInv'
<1>1. Local(t) /\ ch'[t] = Rest
  BY FinishIsLocal
<1>2. \A g : Known(g)' <=> Known(g)
  BY DEF Known
<1>3. TokenOf(t)'
  <2>1. Known(0)
    BY KnownOnes
  <2>2. /\ ch'[t].pc = "idle" /\ ch'[t].cred = 0 /\ ch'[t].flow = 0
    BY <1>1 DEF Rest
  <2>3. Stands(t)'
    BY <2>2 DEF Stands
  <2> QED BY <1>2, <2>1, <2>2, <2>3 DEF TokenOf
<1>4. \A p \in Proc : Known(mem'[p])
  BY KnownOnes
<1>5. \A e \in enrich' : Known(e.gen)
  BY DEF TokenInv
<1> QED BY <1>1, <1>3, <1>4, <1>5, SteadyKeeps DEF InHandOf

LEMMA AdoptMem ==
    ASSUME RefreshInv, NEW q \in Proc, Adopt(q)
    PROVE  UNCHANGED <<disk, expired>> /\ \A p \in Proc : mem'[p] \in {mem[p], disk}
BY DEF Adopt, RefreshInv, DataType

LEMMA TransientMem ==
    ASSUME RefreshInv, NEW t \in Task, FinishTransient(t)
    PROVE  UNCHANGED <<disk, expired>> /\ \A p \in Proc : mem'[p] \in {mem[p], ch[t].flow}
BY DEF FinishTransient, RefreshInv, DataType, dataVars

\* A step inside an activity: what the task carries afterwards is known, and
\* what it relies on holds.
LEMMA InnerKeepsTokens ==
    ASSUME RefreshInv, TokenInv, NEW t \in Task, Local(t),
           UNCHANGED <<disk, mem, issued, spent, enrich>>, hist'.lost = hist.lost,
           hist.unguarded => hist'.unguarded,
           Known(ch'[t].cred), Known(ch'[t].flow),
           ch'[t].pc \in {"rejected", "denied"} => ch'[t].cred \in spent,
           ch'[t].pc = "enrich_write" => Answered(Own(t))',
           ~hist'.unguarded => Stands(t)', InHandOf(t) => InHandOf(t)'
    PROVE  TokenInv'
<1>1. \A g : Known(g)' <=> Known(g)
  BY DEF Known
<1>2. TokenOf(t)'
  BY <1>1 DEF TokenOf
<1> QED BY <1>2, SteadyKeeps DEF TokenInv

-----------------------------------------------------------------------------
(* Steps that write the file, or get a new generation.                     *)

\* While a task holds the lock, nothing that another one relies on is at stake.
LEMMA OthersStand ==
    ASSUME RefreshInv, ~MayBreak, NEW t \in Task, Holds(Own(t)), Local(t)
    PROVE  \A u \in Task \ {t} : Stands(u)' /\ ~InHandOf(u)
<1> SUFFICES ASSUME NEW u \in Task \ {t} PROVE Stands(u)' /\ ~InHandOf(u)
  OBVIOUS
<1>1. ~Holds(Own(u)) /\ ~Secured(u)
  BY SoleHolder DEF RefreshInv, InOrder
<1>2. ch'[u] = ch[u] /\ guard'[Own(u)] = guard[Own(u)]
  BY DEF Local
<1> QED BY <1>1, <1>2 DEF Stands, InHandOf, Secured, Slotted, Holds

\* An activity ends with a write: under the lock, or unguarded and on record.
LEMMA WriteKeepsTokens ==
    ASSUME RefreshInv, TokenInv, NEW t \in Task, Finish(t),
           UNCHANGED <<issued, spent>>, hist'.lost = hist.lost, hist.unguarded => hist'.unguarded,
           Known(disk'), \A p \in Proc : Known(mem'[p]), \A e \in enrich' : Known(e.gen),
           \/ hist'.unguarded
           \/ /\ ~MayBreak /\ Holds(Own(t))
              /\ ~hist'.unguarded /\ issued \notin hist.lost => disk' = issued
    PROVE  TokenInv'
<1>1. Local(t) /\ ch'[t] = Rest
  BY FinishIsLocal
<1>2. \A g : Known(g)' <=> Known(g)
  BY DEF Known
<1>3. TokenOf(t)'
  <2>1. Known(0)
    BY KnownOnes
  <2>2. /\ ch'[t].pc = "idle" /\ ch'[t].cred = 0 /\ ch'[t].flow = 0
    BY <1>1 DEF Rest
  <2>3. Stands(t)'
    BY <2>2 DEF Stands
  <2> QED BY <1>2, <2>1, <2>2, <2>3 DEF TokenOf
<1>4. \A u \in Task \ {t} : TokenOf(u)'
  <2> SUFFICES ASSUME NEW u \in Task \ {t} PROVE TokenOf(u)'
    OBVIOUS
  <2>1. ch'[u] = ch[u] /\ guard'[Own(u)] = guard[Own(u)]
    BY <1>1 DEF Local
  <2>2. ~hist'.unguarded => Stands(u)'
    BY <1>1, OthersStand
  <2> QED BY <1>2, <2>1, <2>2 DEF TokenInv, TokenOf, Answered
<1> QED BY <1>2, <1>3, <1>4 DEF TokenInv

LEMMA ApplyKeepsTokens ==
    ASSUME Reliable, RefreshInv, TokenInv, NEW t \in Task, Apply(t)
    PROVE  TokenInv'
<1>1. ch[t].pc = "apply" /\ Finish(t) /\ UNCHANGED <<issued, spent, hist>>
  BY DEF Apply, idpVars
<1>2. Secured(t)
  BY <1>1 DEF Secured
<1>3. Holds(Own(t))
  BY <1>2 DEF RefreshInv, InOrder
<1>4. disk' = ch[t].cred /\ \A p \in Proc : mem'[p] \in {mem[p], ch[t].cred}
  <2>1. Written = {TRUE}
    BY DEF Reliable, Written
  <2> QED BY <2>1 DEF Apply, Reliable, RefreshInv, DataType
<1>5. \A e \in enrich' : Known(e.gen)
  <2>1. \A e \in enrich' : e \in enrich \/ e.gen = ch[t].cred
    BY DEF Apply
  <2> QED BY <2>1, KnownOnes DEF TokenInv
<1>6. Known(disk') /\ \A p \in Proc : Known(mem'[p])
  BY <1>4, KnownOnes
<1>7. ~hist.unguarded /\ issued \notin hist.lost => disk' = issued
  <2> SUFFICES ASSUME ~hist.unguarded, issued \notin hist.lost, ch[t].cred # issued
               PROVE  FALSE
    BY <1>4
  <2>1. ch[t].cred = disk
    BY <1>1 DEF TokenInv, TokenOf, Stands
  <2>2. PICK u \in Task : InHandOf(u)
    BY <2>1 DEF TokenInv
  <2>3. Holds(Own(u))
    BY <2>2 DEF InHandOf, RefreshInv, InOrder, Secured, Slotted
  <2> QED BY <1>3, <2>2, <2>3, SoleHolder DEF InHandOf, Reliable
<1> QED BY <1>1, <1>3, <1>5, <1>6, <1>7, WriteKeepsTokens DEF Reliable

LEMMA ClearKeepsTokens ==
    ASSUME Reliable, RefreshInv, TokenInv, NEW t \in Task, Clear(t)
    PROVE  TokenInv'
<1>1. ch[t].pc = "clear" /\ Finish(t) /\ UNCHANGED <<issued, spent, hist, enrich>>
  BY DEF Clear, idpVars
<1>2. Secured(t)
  BY <1>1 DEF Secured
<1>3. Holds(Own(t))
  BY <1>2 DEF RefreshInv, InOrder
<1>4. /\ disk' = IF "disk" \in ch[t].discard THEN 0 ELSE disk
      /\ \A p \in Proc : mem'[p] \in {mem[p], 0}
  <2>1. Written = {TRUE}
    BY DEF Reliable, Written
  <2> QED BY <2>1 DEF Clear, RefreshInv, DataType
<1>5. Known(disk') /\ \A p \in Proc : Known(mem'[p])
  BY <1>4, KnownOnes
<1>6. ~hist.unguarded /\ issued \notin hist.lost => disk' = issued
  <2> SUFFICES ASSUME ~hist.unguarded, issued \notin hist.lost
               PROVE  disk' = issued
    OBVIOUS
  <2>1. \A u \in Task : ~InHandOf(u)
    <3> SUFFICES ASSUME NEW u \in Task, InHandOf(u) PROVE FALSE
      OBVIOUS
    <3>1. Holds(Own(u))
      BY DEF InHandOf, RefreshInv, InOrder, Secured, Slotted
    <3> QED BY <1>1, <1>3, <3>1, SoleHolder DEF InHandOf, Reliable
  <2>2. disk = issued
    BY <2>1 DEF TokenInv
  <2>3. "disk" \notin ch[t].discard
    BY <1>1, <2>2 DEF TokenInv, TokenOf, Stands
  <2> QED BY <1>4, <2>2, <2>3
<1>7. \A e \in enrich' : Known(e.gen)
  BY <1>1 DEF TokenInv
<1> QED BY <1>1, <1>3, <1>5, <1>6, <1>7, WriteKeepsTokens DEF Reliable

LEMMA LogoutKeepsTokens ==
    ASSUME RefreshInv, TokenInv, NEW t \in Task, Logout(t)
    PROVE  TokenInv'
<1>1. Finish(t) /\ UNCHANGED <<issued, spent, enrich>>
  BY DEF Logout, idpVars
<1>2. hist'.lost = hist.lost /\ hist'.unguarded
  BY DEF Logout, RefreshInv, RestType
<1>3. disk' \in {disk, 0} /\ \A p \in Proc : mem'[p] \in {mem[p], 0}
  BY DEF Logout, RefreshInv, DataType
<1>4. Known(disk') /\ \A p \in Proc : Known(mem'[p])
  BY <1>3, KnownOnes
<1>5. \A e \in enrich' : Known(e.gen)
  BY <1>1 DEF TokenInv
<1> QED BY <1>1, <1>2, <1>4, <1>5, WriteKeepsTokens

LEMMA EnrichWriteKeepsTokens ==
    ASSUME Reliable, RefreshInv, TokenInv, NEW t \in Task, EnrichWrite(t)
    PROVE  TokenInv'
<1>1. ch[t].pc = "enrich_write" /\ Finish(t) /\ UNCHANGED <<issued, spent, enrich>>
  BY DEF EnrichWrite, idpVars
<1>2. /\ hist'.lost = hist.lost /\ (hist.unguarded => hist'.unguarded)
      /\ ~hist'.unguarded => ~hist.unguarded /\ Holds(Own(t))
  BY DEF EnrichWrite, RefreshInv, RestType
<1>3. disk' = ch[t].cred /\ \A p \in Proc : mem'[p] \in {mem[p], ch[t].cred}
  <2>1. Written = {TRUE}
    BY DEF Reliable, Written
  <2> QED BY <2>1 DEF EnrichWrite, RefreshInv, DataType
<1>4. Known(disk') /\ \A p \in Proc : Known(mem'[p])
  BY <1>3, KnownOnes
<1>5. \A e \in enrich' : Known(e.gen)
  BY <1>1 DEF TokenInv
<1>6. ~hist'.unguarded /\ issued \notin hist.lost => disk' = issued
  <2> SUFFICES ASSUME ~hist'.unguarded, issued \notin hist.lost
               PROVE  disk' = issued
    OBVIOUS
  <2>1. disk = ch[t].cred /\ Holds(Own(t))
    BY <1>1, <1>2 DEF TokenInv, TokenOf, Stands
  <2>2. \A u \in Task : ~InHandOf(u)
    <3> SUFFICES ASSUME NEW u \in Task, InHandOf(u) PROVE FALSE
      OBVIOUS
    <3>1. Holds(Own(u))
      BY DEF InHandOf, RefreshInv, InOrder, Secured, Slotted
    <3> QED BY <1>1, <2>1, <3>1, SoleHolder DEF InHandOf, Reliable
  <2> QED BY <1>2, <1>3, <2>1, <2>2 DEF TokenInv
<1> QED BY <1>1, <1>2, <1>4, <1>5, <1>6, WriteKeepsTokens DEF Reliable

\* A token that is not spent is the newest one, so that an exchange spends the
\* newest one and its successor is the newest afterwards.
LEMMA IdpAnswerKeepsTokens ==
    ASSUME Reliable, RefreshInv, TokenInv, NEW t \in Task, IdpAnswer(t)
    PROVE  TokenInv'
<1>1. ch[t].pc = "exchange" /\ UNCHANGED <<guard, disk, mem, enrich, mutex>> /\ Local(t) /\ Holds(Own(t))
  BY IdpAnswerLegal DEF IdpAnswer, dataVars, Legal, RefreshInv, InOrder, Secured, Slotted
<1>2. issued \in Nat \ {0} /\ ch[t] \in Chain /\ ch[t].cred \in Nat /\ ch[t].cred # 0
  BY <1>1, TokenTypes DEF RefreshInv, InOrder
<1>3. ASSUME NEW pc \in {"rejected", "failed", "refused"}, Move(t, pc), UNCHANGED <<idpVars, hist>>,
             pc = "rejected" => ch[t].cred \in spent
      PROVE  TokenInv'
  <2>1. ch'[t].pc = pc /\ ch'[t].cred = ch[t].cred /\ ch'[t].flow = ch[t].flow
    BY <1>2, <1>3 DEF Move, Chain, RefreshInv, ChainType
  <2>2. Stands(t)'
    BY <1>3, <2>1 DEF Stands
  <2>3. ~InHandOf(t)
    BY <1>1 DEF InHandOf
  <2> QED BY <1>1, <1>3, <2>1, <2>2, <2>3, InnerKeepsTokens, KnownOnes DEF idpVars
<1>4. ASSUME ch[t].cred \notin spent, spent' = spent \cup {ch[t].cred}, issued' = issued + 1,
             \/ ch'[t].pc = "granted" /\ ch'[t].cred = issued + 1 /\ hist' = hist
             \/ /\ ch'[t].pc \in {"failed", "rejected"} /\ ch'[t].cred = ch[t].cred
                /\ hist' = [hist EXCEPT !.lost = @ \cup {issued + 1}],
             ch'[t].flow = ch[t].flow
      PROVE  TokenInv'
  <2>1. ch[t].cred = issued
    BY <1>2, <1>4, KnownOnes DEF TokenInv, Known
  <2>2. spent' = 1..(issued' - 1)
    BY <1>2, <1>4, <2>1 DEF TokenInv
  <2>3. /\ hist'.unguarded = hist.unguarded
        /\ hist'.lost = hist.lost \/ (hist'.lost = hist.lost \cup {issued'} /\ ch'[t].pc # "granted")
    BY <1>4 DEF RefreshInv, RestType
  <2> DEFINE KnownNow(g) == g < issued' \/ (g = issued' /\ g \notin hist'.lost)
  <2>4. \A g \in Nat : Known(g) => KnownNow(g)
    BY <1>2, <1>4, <2>3 DEF Known
  <2>5. hist'.lost \subseteq 1..issued'
    BY <1>2, <1>4, <2>3 DEF TokenInv
  <2>6. /\ KnownNow(disk') /\ (\A p \in Proc : KnownNow(mem'[p]))
        /\ \A e \in enrich' : KnownNow(e.gen)
    <3>1. \A e \in enrich : e.gen \in Nat
      BY DEF RefreshInv, RestType, Gen
    <3> HIDE DEF KnownNow
    <3> QED BY <1>1, <2>4, <3>1, TokenTypes DEF TokenInv
  <2>7. KnownNow(ch'[t].cred) /\ KnownNow(ch'[t].flow)
    <3>1. KnownNow(ch[t].cred) /\ KnownNow(ch[t].flow)
      <4> HIDE DEF KnownNow
      <4> QED BY <2>4, KnownOnes, TokenTypes
    <3>2. ch'[t].pc = "granted" => issued' \notin hist'.lost
      BY <1>2, <1>4, <2>3 DEF TokenInv
    <3> QED BY <1>4, <3>1, <3>2
  <2>8. TokenOf(t)'
    <3>1. Stands(t)'
      BY <1>4 DEF Stands
    <3> QED BY <1>4, <2>7, <3>1 DEF TokenOf, Known
  <2>9. \A u \in Task \ {t} : TokenOf(u)'
    <3> SUFFICES ASSUME NEW u \in Task \ {t} PROVE TokenOf(u)'
      OBVIOUS
    <3>1. ch'[u] = ch[u] /\ guard'[Own(u)] = guard[Own(u)]
      BY <1>1 DEF Local
    <3>2. Stands(u)'
      BY <1>1, OthersStand DEF Reliable
    <3>3. KnownNow(ch[u].cred) /\ KnownNow(ch[u].flow)
      <4> HIDE DEF KnownNow
      <4> QED BY <2>4, KnownOnes, TokenTypes
    <3> QED BY <1>4, <3>1, <3>2, <3>3 DEF TokenInv, TokenOf, Answered, Known
  <2>10. issued' \notin hist'.lost => \E u \in Task : InHandOf(u)'
    <3>1. ch'[t].pc # "granted" => issued' \in hist'.lost
      BY <1>4 DEF RefreshInv, RestType
    <3>2. ch'[t].pc = "granted" => InHandOf(t)'
      BY <1>4 DEF InHandOf
    <3> QED BY <1>4, <3>1, <3>2
  <2>11. \A u \in Task : TokenOf(u)'
    BY <2>8, <2>9
  <2> QED BY <2>2, <2>5, <2>6, <2>10, <2>11 DEF TokenInv, Known
<1>5. ch' = [ch EXCEPT ![t].pc = "granted", ![t].cred = issued + 1]
        => ch'[t].pc = "granted" /\ ch'[t].cred = issued + 1 /\ ch'[t].flow = ch[t].flow
  BY <1>2 DEF Chain, RefreshInv, ChainType
<1>6. \A end \in {"failed", "rejected"} :
        Move(t, end) => ch'[t].pc = end /\ ch'[t].cred = ch[t].cred /\ ch'[t].flow = ch[t].flow
  BY <1>2 DEF Move, Chain, RefreshInv, ChainType
<1> QED BY <1>3, <1>4, <1>5, <1>6 DEF IdpAnswer

\* The activities that return without a write.
LEMMA EndStepsKeepTokens ==
    ASSUME RefreshInv, TokenInv, NEW t \in Task, Finish(t),
           \/ TakeMutex(t) \/ AfterLock(t) \/ AfterRelock(t) \/ Refresh(t) \/ ReceiveRefused(t)
           \/ ReceiveFailed(t) \/ ApplyRejected(t) \/ EnrichRead(t) \/ FlowLocked(t)
    PROVE  TokenInv'
<1>0. ch[t] \in Chain /\ P(t) \in Proc
  BY TokenTypes
<1>1. UNCHANGED <<issued, spent, enrich, hist>> /\ ch[t].pc \notin {"granted", "apply"}
  BY DEF TakeMutex, AfterLock, AfterRelock, Refresh, ReceiveRefused, ReceiveFailed,
         ApplyRejected, EnrichRead, FlowLocked, idpVars
<1>2. ch'[t].pc = "idle"
  BY FinishIsLocal DEF Rest
<1>3. \/ Adopt(P(t)) \/ FinishTransient(t) \/ UNCHANGED <<disk, mem>>
  <2>1. CASE TakeMutex(t) \/ EnrichRead(t)
    BY <2>1 DEF TakeMutex, EnrichRead, dataVars
  <2>2. CASE AfterLock(t)
    BY <1>2, <2>2 DEF AfterLock, LockTimedOut, FinishAdopt, dataVars
  <2>3. CASE AfterRelock(t)
    BY <1>2, <2>3 DEF AfterRelock, FinishAdopt, dataVars
  <2>4. CASE Refresh(t)
    BY <2>4 DEF Refresh, dataVars
  <2>5. CASE ReceiveRefused(t)
    BY <2>5 DEF ReceiveRefused, RetainAndFail
  <2>6. CASE ReceiveFailed(t)
    BY <2>6 DEF ReceiveFailed, RetainAndFail
  <2>7. CASE ApplyRejected(t)
    BY <2>7 DEF ApplyRejected, FinishAdopt
  <2>8. CASE FlowLocked(t)
    BY <2>8 DEF FlowLocked, FinishAdopt, dataVars
  <2> QED BY <2>1, <2>2, <2>3, <2>4, <2>5, <2>6, <2>7, <2>8
<1>4. disk' = disk /\ \A p \in Proc : mem'[p] \in {mem[p], disk, ch[t].flow}
  BY <1>0, <1>3, AdoptMem, TransientMem
<1> QED BY <1>1, <1>4, EndKeepsTokens

-----------------------------------------------------------------------------
(* Steps inside an activity.                                               *)

\* The task relies on nothing where it arrives.
Plain == {"idle", "mutex", "lock", "revalidate", "relock", "claim", "gate", "exchange",
          "failed", "refused", "logout", "enrich", "flow"}

LEMMA PlainKeepsTokens ==
    ASSUME RefreshInv, TokenInv, NEW t \in Task, Local(t),
           UNCHANGED <<disk, mem, issued, spent>>, enrich' \subseteq enrich,
           hist'.lost = hist.lost, hist'.unguarded = hist.unguarded,
           ch'[t].pc \in Plain, Known(ch'[t].cred), Known(ch'[t].flow),
           ch[t].pc \notin {"granted", "apply"}
    PROVE  TokenInv'
<1>1. \A g : Known(g)' <=> Known(g)
  BY DEF Known
<1>2. Stands(t)'
  BY DEF Stands, Plain
<1>3. TokenOf(t)'
  BY <1>1, <1>2 DEF TokenOf, Plain
<1> QED BY <1>3, SteadyKeeps DEF TokenInv, InHandOf

LEMMA SetPc ==
    ASSUME RefreshInv, NEW t \in Task, NEW pc, Move(t, pc)
    PROVE  /\ ch'[t].pc = pc /\ ch'[t].cred = ch[t].cred /\ ch'[t].flow = ch[t].flow
           /\ ch'[t].discard = ch[t].discard /\ ch'[t].reason = ch[t].reason
BY DEF RefreshInv, ChainType, Chain, Move

LEMMA SetCred ==
    ASSUME RefreshInv, NEW t \in Task, NEW pc, NEW g,
           ch' = [ch EXCEPT ![t].pc = pc, ![t].cred = g]
    PROVE  ch'[t].pc = pc /\ ch'[t].cred = g /\ ch'[t].flow = ch[t].flow
BY DEF RefreshInv, ChainType, Chain

LEMMA SoughtIsKnown ==
    ASSUME RefreshInv, TokenInv, NEW t \in Task, NEW r
    PROVE  Known(resolve_refresh_credential(P(t), r))
<1>1. resolve_refresh_credential(P(t), r) \in {disk, mem[P(t)], 0}
  BY DEF resolve_refresh_credential, expired_auth, current
<1> QED BY <1>1, KnownOnes, TokenTypes

LEMMA PlainStepsKeepTokens ==
    ASSUME RefreshInv, TokenInv, NEW t \in Task, ~Finish(t),
           \/ TakeMutex(t) \/ AfterLock(t) \/ Revalidate(t) \/ AfterRelock(t) \/ ClaimSlot(t)
           \/ FlowLocked(t) \/ BeginLogout(t) \/ BeginFlow(t)
           \/ \E r \in Reason : Begin(t, r)
    PROVE  TokenInv'
<1>1. Local(t)
  BY TakeMutexLegal, AfterLockLegal, RevalidateLegal, AfterRelockLegal, ClaimSlotLegal,
     FlowLockedLegal, BeginOtherLegal, BeginLegal DEF Legal
<1>2. UNCHANGED <<disk, mem, issued, spent, enrich, hist>>
  BY DEF TakeMutex, AfterLock, Revalidate, AfterRelock, ClaimSlot, FlowLocked, BeginLogout,
         BeginFlow, Begin, LockTimedOut, FinishAdopt, FinishTransient, dataVars, idpVars
<1>3. ch[t].pc \notin {"granted", "apply"}
  BY DEF TakeMutex, AfterLock, Revalidate, AfterRelock, ClaimSlot, FlowLocked, BeginLogout,
         BeginFlow, Begin
<1>4. ch'[t].pc \in Plain /\ ch'[t].cred \in {ch[t].cred, 0} /\ ch'[t].flow \in {ch[t].flow, disk, 0}
  <2> USE DEF Plain
  <2>1. CASE TakeMutex(t)
    BY <2>1 DEF TakeMutex, RefreshInv, ChainType, Chain
  <2>2. CASE AfterLock(t)
    BY <2>2, SetPc DEF AfterLock, LockTimedOut, FinishAdopt, FinishTransient
  <2>3. CASE Revalidate(t)
    BY <2>3, SetPc DEF Revalidate
  <2>4. CASE AfterRelock(t)
    BY <2>4, SetPc DEF AfterRelock, FinishAdopt, FinishTransient
  <2>5. CASE ClaimSlot(t)
    BY <2>5, SetPc DEF ClaimSlot
  <2>6. CASE FlowLocked(t)
    BY <2>6 DEF FlowLocked, FinishAdopt, Rest, RefreshInv, ChainType
  <2>7. CASE BeginLogout(t) \/ BeginFlow(t)
    BY <2>7, SetPc DEF BeginLogout, BeginFlow
  <2>8. ASSUME NEW r \in Reason, Begin(t, r)
        PROVE  ch'[t].pc \in Plain /\ ch'[t].cred = 0 /\ ch'[t].flow = 0
    BY <2>8 DEF Begin, Rest, RefreshInv, ChainType
  <2> QED BY <2>1, <2>2, <2>3, <2>4, <2>5, <2>6, <2>7, <2>8
<1>5. Known(ch'[t].cred) /\ Known(ch'[t].flow)
  BY <1>4, KnownOnes
<1> QED BY <1>1, <1>2, <1>3, <1>4, <1>5, PlainKeepsTokens

LEMMA RefreshKeepsTokens ==
    ASSUME RefreshInv, TokenInv, NEW t \in Task, Refresh(t)
    PROVE  TokenInv'
<1>0. Local(t) /\ ch[t].pc = "gate" /\ UNCHANGED <<issued, spent, enrich, hist>>
  BY RefreshLegal DEF Legal, Refresh, idpVars
<1>1. CASE Finish(t)
  BY <1>1, EndStepsKeepTokens
<1>2. CASE ch' = [ch EXCEPT ![t].pc = "apply", ![t].cred = disk] /\ UNCHANGED dataVars
  <2>1. ch'[t].pc = "apply" /\ ch'[t].cred = disk /\ ch'[t].flow = ch[t].flow
    BY <1>2, SetCred
  <2>2. Stands(t)'
    BY <1>2, <2>1 DEF Stands, dataVars
  <2> QED BY <1>0, <1>2, <2>1, <2>2, KnownOnes, InnerKeepsTokens DEF InHandOf, dataVars
<1>3. ASSUME NEW cred, cred = resolve_refresh_credential(P(t), ch[t].reason),
             ch' = [ch EXCEPT ![t].pc = "exchange", ![t].cred = cred], UNCHANGED dataVars
      PROVE  TokenInv'
  <2>1. ch'[t].pc = "exchange" /\ ch'[t].cred = cred /\ ch'[t].flow = ch[t].flow
    BY <1>3, SetCred
  <2>2. Known(cred)
    BY <1>3, SoughtIsKnown
  <2> QED BY <1>0, <1>3, <2>1, <2>2, KnownOnes, PlainKeepsTokens DEF Plain, dataVars
<1> QED BY <1>1, <1>2, <1>3 DEF Refresh, FinishTransient

LEMMA ReceiveGrantKeepsTokens ==
    ASSUME RefreshInv, TokenInv, NEW t \in Task, ReceiveGrant(t)
    PROVE  TokenInv'
<1>0. /\ Local(t) /\ ch[t].pc = "granted" /\ Move(t, "apply")
      /\ UNCHANGED <<disk, mem, issued, spent, enrich, hist>>
  BY ReceiveGrantLegal DEF Legal, ReceiveGrant, idpVars, dataVars
<1>1. ch'[t].pc = "apply" /\ ch'[t].cred = ch[t].cred /\ ch'[t].flow = ch[t].flow
  BY <1>0, SetPc
<1>2. ~hist'.unguarded => Stands(t)'
  BY <1>0, <1>1 DEF TokenInv, TokenOf, Stands
<1> QED BY <1>0, <1>1, <1>2, KnownOnes, InnerKeepsTokens DEF InHandOf

LEMMA ReceiveRejectedKeepsTokens ==
    ASSUME RefreshInv, TokenInv, NEW t \in Task, ReceiveRejected(t)
    PROVE  TokenInv'
<1>0. Local(t) /\ ch[t].pc = "rejected" /\ UNCHANGED <<disk, mem, issued, spent, enrich>>
  BY ReceiveRejectedLegal DEF Legal, ReceiveRejected, idpVars, dataVars
<1>1. hist'.lost = hist.lost /\ hist'.unguarded = hist.unguarded
  BY DEF ReceiveRejected, RefreshInv, RestType
<1>2. CASE ch' = [ch EXCEPT ![t].pc = "apply", ![t].cred = disk]
  <2>1. ch'[t].pc = "apply" /\ ch'[t].cred = disk /\ ch'[t].flow = ch[t].flow
    BY <1>2, SetCred
  <2>2. Stands(t)'
    BY <1>0, <1>2, <2>1 DEF Stands
  <2> QED BY <1>0, <1>1, <2>1, <2>2, KnownOnes, InnerKeepsTokens DEF InHandOf
<1>3. CASE ch' = [ch EXCEPT ![t].pc = "exchange", ![t].cred = disk, ![t].retried = TRUE]
  <2>1. ch'[t].pc = "exchange" /\ ch'[t].cred = disk /\ ch'[t].flow = ch[t].flow
    BY <1>3 DEF RefreshInv, ChainType, Chain
  <2> QED BY <1>0, <1>1, <2>1, KnownOnes, PlainKeepsTokens DEF Plain
<1>4. CASE Move(t, "denied")
  <2>1. ch'[t].pc = "denied" /\ ch'[t].cred = ch[t].cred /\ ch'[t].flow = ch[t].flow
    BY <1>4, SetPc
  <2>2. Stands(t)'
    BY <2>1 DEF Stands
  <2>3. ch'[t].cred \in spent
    BY <1>0, <2>1 DEF TokenInv, TokenOf
  <2> QED BY <1>0, <1>1, <2>1, <2>2, <2>3, KnownOnes, InnerKeepsTokens DEF InHandOf
<1> QED BY <1>2, <1>3, <1>4 DEF ReceiveRejected

\* The rejected token is a spent one, so that removing it from disk removes
\* no token that could still be exchanged.
LEMMA ApplyRejectedKeepsTokens ==
    ASSUME RefreshInv, TokenInv, NEW t \in Task, ApplyRejected(t)
    PROVE  TokenInv'
<1>0. Local(t) /\ ch[t].pc = "denied" /\ UNCHANGED <<issued, spent, enrich, hist>>
  BY ApplyRejectedLegal DEF Legal, ApplyRejected, idpVars
<1>1. CASE Finish(t)
  BY <1>1, EndStepsKeepTokens
<1>2. CASE /\ ~refresh_token_superseded(ch[t].cred)
           /\ ch' = [ch EXCEPT ![t].pc = "clear", ![t].discard = Discarded(t)]
           /\ UNCHANGED <<disk, mem>>
  <2>1. /\ ch'[t].pc = "clear" /\ ch'[t].cred = ch[t].cred /\ ch'[t].flow = ch[t].flow
        /\ ch'[t].discard = Discarded(t)
    BY <1>2 DEF RefreshInv, ChainType, Chain
  <2>2. disk # issued
    <3>1. disk = 0 \/ disk = ch[t].cred
      BY <1>2 DEF refresh_token_superseded
    <3>2. ch[t].cred \in spent
      BY <1>0 DEF TokenInv, TokenOf
    <3>3. 0 # issued /\ issued \notin spent
      BY TokenTypes DEF TokenInv
    <3> QED BY <3>1, <3>2, <3>3
  <2>3. Stands(t)'
    BY <1>0, <1>2, <2>1, <2>2 DEF Stands
  <2> QED BY <1>0, <1>2, <2>1, <2>3, KnownOnes, InnerKeepsTokens DEF InHandOf
<1> QED BY <1>1, <1>2 DEF ApplyRejected, FinishAdopt, FinishTransient

LEMMA EnrichReadKeepsTokens ==
    ASSUME RefreshInv, TokenInv, NEW t \in Task, EnrichRead(t)
    PROVE  TokenInv'
<1>0. /\ Local(t) /\ ch[t].pc = "enrich" /\ Answered(Own(t))
      /\ UNCHANGED <<disk, mem, issued, spent, enrich, hist>>
  BY EnrichLegal DEF Legal, EnrichRead, idpVars, dataVars
<1>1. CASE Finish(t)
  BY <1>1, EndStepsKeepTokens
<1>2. CASE disk = ch[t].cred /\ Move(t, "enrich_write") /\ UNCHANGED guard
  <2>1. ch'[t].pc = "enrich_write" /\ ch'[t].cred = ch[t].cred /\ ch'[t].flow = ch[t].flow
    BY <1>2, SetPc
  <2>2. Answered(Own(t))' /\ Stands(t)'
    BY <1>0, <1>2, <2>1 DEF Answered, Stands
  <2> QED BY <1>0, <2>1, <2>2, KnownOnes, InnerKeepsTokens DEF InHandOf
<1> QED BY <1>1, <1>2 DEF EnrichRead

LEMMA BeginEnrichKeepsTokens ==
    ASSUME RefreshInv, TokenInv, NEW t \in Task, BeginEnrich(t)
    PROVE  TokenInv'
<1>0. /\ Local(t) /\ ch[t].pc = "idle" /\ UNCHANGED <<disk, mem, issued, spent, hist>>
  BY BeginOtherLegal DEF Legal, BeginEnrich, idpVars, dataVars
<1>1. PICK e \in enrich : /\ enrich' = enrich \ {e}
                          /\ ch' = [ch EXCEPT ![t].pc = "enrich", ![t].cred = e.gen]
  BY DEF BeginEnrich
<1>2. ch'[t].pc = "enrich" /\ ch'[t].cred = e.gen /\ ch'[t].flow = ch[t].flow
  BY <1>1, SetCred
<1>3. Known(e.gen)
  BY DEF TokenInv
<1> QED BY <1>0, <1>1, <1>2, <1>3, KnownOnes, PlainKeepsTokens DEF Plain

\* An enrichment that is about to write has its answer from the lock already.
LEMMA LockAnswersKeepsTokens ==
    ASSUME RefreshInv, TokenInv, NEW t \in Task, LockAnswers(t)
    PROVE  TokenInv'
<1>0. Local(t) /\ UNCHANGED <<disk, mem, issued, spent, enrich, hist, ch>>
  BY LockAnswersLegal DEF Legal, LockAnswers, idpVars, dataVars
<1>1. Answered(Own(t)) => guard'[Own(t)] = guard[Own(t)]
  BY OwnHandles DEF LockAnswers, Grant, GrantUnlinked, Deny, Put, Answered, RefreshInv, LockInv,
                    GuardTypeOK
<1>2. ch[t].pc = "enrich_write" => guard'[Own(t)] = guard[Own(t)] /\ Answered(Own(t))
  BY <1>1 DEF TokenInv, TokenOf
<1>3. ~hist.unguarded => Stands(t)'
  BY <1>0, <1>2 DEF TokenInv, TokenOf, Stands, Holds
<1>4. ch[t].pc = "enrich_write" => Answered(Own(t))'
  BY <1>2 DEF Answered
<1>5. ch[t].pc \in {"rejected", "denied"} => ch[t].cred \in spent
  BY DEF TokenInv, TokenOf
<1> QED BY <1>0, <1>3, <1>4, <1>5, KnownOnes, InnerKeepsTokens DEF InHandOf

\* The steps of no task, and those that only replace memory.
LEMMA OutsideKeepsTokens ==
    ASSUME RefreshInv, TokenInv, UNCHANGED <<guard, disk, issued, spent, ch, enrich, hist>>,
           \A p \in Proc : mem'[p] \in {mem[p], disk, 0}
    PROVE  TokenInv'
<1>1. \A g : Known(g)' <=> Known(g)
  BY DEF Known
<1>2. \A u \in Task : TokenOf(u)' /\ (InHandOf(u)' <=> InHandOf(u))
  BY <1>1 DEF TokenInv, TokenOf, Stands, InHandOf, Answered, Holds
<1>3. Known(0)
  BY TokenTypes DEF Known
<1> QED BY <1>1, <1>2, <1>3 DEF TokenInv

LEMMA TokensNext ==
    ASSUME Reliable, RefreshInv, TokenInv, [Next]_vars
    PROVE  TokenInv'
<1>1. ASSUME NEW t \in Task, TaskStep(t) PROVE TokenInv'
  <2>1. CASE \/ TakeMutex(t) \/ AfterLock(t) \/ AfterRelock(t) \/ FlowLocked(t)
             \/ ReceiveRefused(t) \/ ReceiveFailed(t)
    <3>1. ReceiveRefused(t) \/ ReceiveFailed(t) => Finish(t)
      BY DEF ReceiveRefused, ReceiveFailed, RetainAndFail, FinishTransient
    <3> QED BY <2>1, <3>1, EndStepsKeepTokens, PlainStepsKeepTokens
  <2>2. CASE Revalidate(t) \/ ClaimSlot(t)
    <3>1. ch'[t].pc \in {"claim", "relock", "gate"}
      BY <2>2, SetPc DEF Revalidate, ClaimSlot
    <3>2. ~Finish(t)
      BY <3>1, FinishIsLocal DEF Rest
    <3> QED BY <2>2, <3>2, PlainStepsKeepTokens
  <2> QED
    BY <1>1, <2>1, <2>2, LockAnswersKeepsTokens, RefreshKeepsTokens, IdpAnswerKeepsTokens,
       ReceiveGrantKeepsTokens, ReceiveRejectedKeepsTokens, ApplyKeepsTokens,
       ApplyRejectedKeepsTokens, ClearKeepsTokens, LogoutKeepsTokens, EnrichReadKeepsTokens,
       EnrichWriteKeepsTokens
    DEF TaskStep
<1>2. ASSUME NEW t \in Task, BeginLogout(t) \/ BeginFlow(t) \/ \E r \in Reason : Begin(t, r)
      PROVE  TokenInv'
  <2>1. ~Finish(t)
    <3>1. ch'[t].pc \in {"logout", "flow", "mutex"}
      BY <1>2, SetPc DEF BeginLogout, BeginFlow, Begin, RefreshInv, ChainType, Rest
    <3> QED BY <3>1, FinishIsLocal DEF Rest
  <2> QED BY <1>2, <2>1, PlainStepsKeepTokens
<1>3. ASSUME NEW t \in Task, BeginEnrich(t) PROVE TokenInv'
  BY <1>3, BeginEnrichKeepsTokens
<1>4. ASSUME NEW t \in Task, NEW r \in Reason, AdoptDespiteVerdict(t, r) PROVE TokenInv'
  <2>1. P(t) \in Proc
    BY TokenTypes
  <2>2. UNCHANGED <<guard, disk, issued, spent, ch, enrich, hist>>
    BY <1>4 DEF AdoptDespiteVerdict, Adopt, idpVars
  <2> QED BY <1>4, <2>1, <2>2, AdoptMem, OutsideKeepsTokens DEF AdoptDespiteVerdict
<1>5. ASSUME NEW p \in Proc, Reload(p) PROVE TokenInv'
  <2>1. /\ UNCHANGED <<guard, disk, issued, spent, ch, enrich, hist>>
        /\ \A q \in Proc : mem'[q] \in {mem[q], disk, 0}
    BY <1>5 DEF Reload, idpVars, RefreshInv, DataType
  <2> QED BY <2>1, OutsideKeepsTokens
<1>6. CASE \/ \E p \in Proc : WillSleep(p) \/ HoldAck(p) \/ DidWake(p) \/ VerdictAges(p)
           \/ \E g \in Gen : Expire(g)
           \/ UNCHANGED vars
  <2>1. UNCHANGED <<guard, disk, mem, issued, spent, ch, enrich, hist>>
    BY <1>6 DEF WillSleep, HoldAck, DidWake, VerdictAges, Expire, vars, idpVars, dataVars
  <2> QED BY <2>1, OutsideKeepsTokens
<1>7. ~LockBreaks
  BY DEF LockBreaks, Break, Reliable
<1> QED BY <1>1, <1>2, <1>3, <1>4, <1>5, <1>6, <1>7 DEF Next

LEMMA TokensInit ==
    ASSUME Init
    PROVE  TokenInv
<1>1. /\ \A t \in Task : ch[t].pc = "idle" /\ ch[t].cred = 0 /\ ch[t].flow = 0
      /\ hist.lost = {} /\ issued = 1 /\ disk = 1 /\ spent = {} /\ enrich = {}
      /\ \A p \in Proc : mem[p] = 1
  BY DEF Init, Rest
<1>2. \A t \in Task : TokenOf(t)
  BY <1>1 DEF TokenOf, Stands, Known
<1>3. spent = 1..(issued - 1)
  BY <1>1
<1> QED BY <1>1, <1>2, <1>3 DEF TokenInv, Known

LEMMA TokenInvariance ==
    ASSUME Reliable
    PROVE  Spec => [](RefreshInv /\ TokenInv)
<1>1. Init => RefreshInv /\ TokenInv
  BY InitHolds, TokensInit
<1>2. RefreshInv /\ TokenInv /\ [Next]_vars => (RefreshInv /\ TokenInv)'
  BY NextKeeps, TokensNext
<1> QED BY <1>1, <1>2, PTL DEF Spec

\* As long as auth.json can be read and written and no waiter breaks the lock, a
\* refresh token that reached a process and was not exchanged is on disk or in the
\* hands of a task that will write it, until somebody logs out or an enrichment
\* writes without the lock: neither adopting, nor a rejection and its clear, nor
\* the write of an older result loses it.
THEOREM SuccessorIsRetained ==
    ASSUME Reliable
    PROVE  Spec => []SuccessorRetained
<1>1. RefreshInv /\ TokenInv => SuccessorRetained
  <2> SUFFICES ASSUME RefreshInv, TokenInv, ~hist.unguarded, NEW g \in Gen, g <= issued,
                      g \notin spent, g \notin hist.lost
               PROVE  g \in Held
    BY DEF SuccessorRetained
  <2>1. g = issued
    BY TokenTypes DEF TokenInv, Gen
  <2>2. CASE disk = issued
    BY <2>1, <2>2 DEF Held
  <2>3. CASE \E t \in Task : InHandOf(t)
    BY <2>1, <2>3 DEF Held, InHand, InHandOf
  <2> QED BY <2>1, <2>2, <2>3 DEF TokenInv
<1> QED BY <1>1, TokenInvariance, PTL

-----------------------------------------------------------------------------
(* Rejected tokens.  Without the expired path of run_auth_flow.            *)

LEMMA NoFlowStep ==
    ASSUME RefreshInv, NoFlow, NEW t \in Task, TaskStep(t)
    PROVE  ch'[t].pc # "flow" /\ ch'[t].flow = 0
<1>0. ch[t].pc # "flow" /\ ch[t].flow = 0
  BY DEF NoFlow
<1>1. CASE Finish(t)
  BY <1>1, FinishIsLocal DEF Rest
<1> DEFINE Edited(pc, g) ==
             \/ Move(t, pc)
             \/ ch' = [ch EXCEPT ![t].pc = pc, ![t].cred = g]
             \/ ch' = [ch EXCEPT ![t].pc = pc, ![t].pre = g]
             \/ ch' = [ch EXCEPT ![t].pc = pc, ![t].discard = g]
             \/ ch' = [ch EXCEPT ![t].pc = pc, ![t].cred = g, ![t].retried = TRUE]
<1>2. ASSUME ~Finish(t) PROVE ch' = ch \/ \E pc \in PC \ {"flow"} : \E g : Edited(pc, g)
  <2> USE <1>2 DEF PC
  <2>1. CASE LockAnswers(t) \/ TakeMutex(t) \/ Revalidate(t) \/ ClaimSlot(t) \/ ReceiveGrant(t)
    BY <2>1 DEF LockAnswers, TakeMutex, Revalidate, ClaimSlot, ReceiveGrant
  <2>2. CASE AfterLock(t) \/ AfterRelock(t)
    BY <2>2 DEF AfterLock, AfterRelock, LockTimedOut, FinishAdopt, FinishTransient
  <2>3. CASE Refresh(t)
    BY <2>3 DEF Refresh, FinishTransient
  <2>4. CASE IdpAnswer(t)
    BY <2>4 DEF IdpAnswer
  <2>5. CASE ReceiveRejected(t)
    BY <2>5 DEF ReceiveRejected
  <2>6. CASE ApplyRejected(t)
    BY <2>6 DEF ApplyRejected, FinishAdopt, FinishTransient
  <2>7. CASE EnrichRead(t)
    BY <2>7 DEF EnrichRead
  <2>8. ~(\/ ReceiveRefused(t) \/ ReceiveFailed(t) \/ Apply(t) \/ Clear(t) \/ Logout(t)
          \/ EnrichWrite(t))
    BY DEF ReceiveRefused, ReceiveFailed, Apply, Clear, Logout, EnrichWrite, RetainAndFail,
           FinishTransient
  <2>9. ~FlowLocked(t)
    BY <1>0 DEF FlowLocked
  <2> QED BY <2>1, <2>2, <2>3, <2>4, <2>5, <2>6, <2>7, <2>8, <2>9 DEF TaskStep
<1>3. ASSUME NEW pc \in PC \ {"flow"}, NEW g, Edited(pc, g)
      PROVE  ch'[t].pc # "flow" /\ ch'[t].flow = 0
  BY <1>0, <1>3 DEF RefreshInv, ChainType, Chain, Move
<1> HIDE DEF Edited
<1> QED BY <1>0, <1>1, <1>2, <1>3

LEMMA NoFlowNext ==
    ASSUME "flow" \notin Events, RefreshInv, NoFlow, [Next]_vars
    PROVE  NoFlow'
<1>1. ASSUME NEW t \in Task, Local(t), ch'[t].pc # "flow", ch'[t].flow = 0 PROVE NoFlow'
  BY <1>1 DEF NoFlow, Local
<1>2. ASSUME NEW t \in Task, TaskStep(t) PROVE NoFlow'
  BY <1>1, <1>2, NoFlowStep, TaskStepLegal DEF Legal
<1>3. ASSUME NEW t \in Task, BeginLogout(t) \/ BeginEnrich(t) PROVE NoFlow'
  <2>1. ch'[t].pc \in {"logout", "enrich"} /\ ch'[t].flow = ch[t].flow
    BY <1>3, SetPc, SetCred DEF BeginLogout, BeginEnrich
  <2>2. ch[t].flow = 0
    BY DEF NoFlow
  <2> QED BY <1>1, <1>3, <2>1, <2>2, BeginOtherLegal DEF Legal
<1>4. ASSUME NEW t \in Task, NEW r \in Reason, Begin(t, r) PROVE NoFlow'
  <2>1. ch'[t].pc = "mutex" /\ ch'[t].flow = 0
    BY <1>4 DEF Begin, Rest, RefreshInv, ChainType
  <2> QED BY <1>1, <1>4, <2>1, BeginLegal DEF Legal
<1>5. CASE UNCHANGED ch
  BY <1>5 DEF NoFlow
<1>6. \A t \in Task : ~BeginFlow(t)
  BY DEF BeginFlow
<1> QED BY <1>2, <1>3, <1>4, <1>5, <1>6
        DEF Next, AdoptDespiteVerdict, LockBreaks, Reload, WillSleep, HoldAck, DidWake,
            VerdictAges, Expire, vars

\* What VerdictOf says is about a chain.
LEMMA OffChain ==
    ASSUME NEW t \in Task, ~Chaining(t)'
    PROVE  VerdictOf(t)'
BY DEF VerdictOf, Chaining, Secured, Slotted

\* A step of t that changes nothing but its own activity.
LEMMA QuietIsClean ==
    ASSUME RefreshInv, Clean, NEW t \in Task, Local(t), ~Judged(t), VerdictOf(t)',
           UNCHANGED <<disk, mem, expired, verdict, issued, spent, hist>>
    PROVE  Clean'
<1>1. \A u \in Task \ {t} : ch'[u] = ch[u]
  BY DEF Local
<1>2. \A u \in Task \ {t} : VerdictOf(u)'
  BY <1>1 DEF Clean, VerdictOf, Usable, Chaining, Secured, Slotted, Judged, Deadly
<1>3. \A p \in Proc : Barred(p)'
  <2> SUFFICES ASSUME NEW p \in Proc PROVE Barred(p)'
    OBVIOUS
  <2>1. Barred(p)
    BY DEF Clean
  <2>2. \A u \in Task : Judged(u) => u # t /\ ch'[u] = ch[u]
    BY <1>1
  <2> QED BY <2>1, <2>2 DEF Barred, Judged, Deadly
<1> QED BY <1>2, <1>3 DEF Clean

\* A task that has the mutex of its process, and does not judge, knows that the
\* token on disk was not rejected; one that has the lock knows it for all.
LEMMA DiskIsNew ==
    ASSUME RefreshInv, Clean, NEW t \in Task, ~Judged(t), disk # 0
    PROVE  /\ Chaining(t) => disk \notin hist.rejected[P(t)]
           /\ ~MayBreak /\ Holds(Own(t)) => \A p \in Proc : disk \notin hist.rejected[p]
<1>1. \A u \in Task : Judged(u) => Chaining(u) /\ Holds(Own(u))
  BY DEF Judged, Chaining, Secured, RefreshInv, InOrder
<1>2. \A u \in Task : Judged(u) /\ P(u) = P(t) => ~Chaining(t)
  BY <1>1, OneChain
<1>3. \A u \in Task : Judged(u) /\ ~MayBreak => ~Holds(Own(t))
  BY <1>1, SoleHolder
<1> QED BY <1>2, <1>3, TokenTypes DEF Clean, Barred

\* A chain ends and leaves in memory what was not rejected.
LEMMA EndIsClean ==
    ASSUME RefreshInv, Clean, NEW t \in Task, Finish(t), Chaining(t), ~Judged(t),
           UNCHANGED <<disk, expired, issued, spent, hist>>, NEW g,
           mem' = [mem EXCEPT ![P(t)] = g], g \notin hist.rejected[P(t)],
           \A p \in Proc : p # P(t) => verdict'[p] = verdict[p]
    PROVE  Clean'
<1>0. Local(t) /\ ~Chaining(t)' /\ P(t) \in Proc
  BY FinishIsLocal, TokenTypes
<1>1. \A u \in Task \ {t} : ch'[u] = ch[u]
  BY <1>0 DEF Local
<1>2. mem'[P(t)] = g /\ \A p \in Proc : p # P(t) => mem'[p] = mem[p]
  BY <1>0 DEF RefreshInv, DataType
<1>3. \A u \in Task \ {t} : VerdictOf(u)'
  <2> SUFFICES ASSUME NEW u \in Task \ {t}, Chaining(u)' PROVE VerdictOf(u)'
    BY OffChain
  <2>1. Chaining(u)
    BY <1>1 DEF Chaining, Secured, Slotted
  <2>2. P(u) # P(t) /\ P(u) \in Proc
    BY <2>1, OneChain, TokenTypes
  <2>3. mem'[P(u)] = mem[P(u)] /\ verdict'[P(u)] = verdict[P(u)] /\ ch'[u] = ch[u]
    BY <1>1, <1>2, <2>2
  <2> QED BY <2>3 DEF Clean, VerdictOf, Usable, Chaining, Secured, Slotted, Judged, Deadly
<1>4. \A p \in Proc : Barred(p)'
  <2> SUFFICES ASSUME NEW p \in Proc PROVE Barred(p)'
    OBVIOUS
  <2>1. Barred(p)
    BY DEF Clean
  <2>2. \A u \in Task : Judged(u) => u # t /\ ch'[u] = ch[u]
    BY <1>1
  <2> QED BY <1>2, <2>1, <2>2 DEF Barred, Judged, Deadly
<1> QED BY <1>0, <1>3, <1>4, OffChain DEF Clean

\* No activity moves; tokens expire and verdicts that are not sticky age.
LEMMA StillIsClean ==
    ASSUME RefreshInv, Clean, UNCHANGED <<disk, mem, issued, spent, hist, ch>>,
           expired \subseteq expired',
           \A p \in Proc : verdict'[p].key = verdict[p].key /\ verdict'[p].sticky = verdict[p].sticky
    PROVE  Clean'
<1>1. \A p \in Proc : Barred(p)'
  BY DEF Clean, Barred, Judged, Deadly
<1>2. \A t \in Task : VerdictOf(t)'
  <2> SUFFICES ASSUME NEW t \in Task PROVE VerdictOf(t)'
    OBVIOUS
  <2>1. VerdictOf(t) /\ P(t) \in Proc
    BY TokenTypes DEF Clean
  <2> QED BY <2>1 DEF VerdictOf, Usable, Chaining, Secured, Slotted, Judged, Deadly
<1> QED BY <1>1, <1>2 DEF Clean

\* A sticky verdict on what is in memory keeps refresh_chain from starting.
LEMMA TakeMutexIsClean ==
    ASSUME RefreshInv, NoFlow, Clean, NEW t \in Task, TakeMutex(t)
    PROVE  Clean'
<1>0. /\ Local(t) /\ ch[t].pc = "mutex" /\ ~Judged(t) /\ P(t) \in Proc
      /\ UNCHANGED <<disk, mem, expired, verdict, issued, spent, hist>>
  BY TakeMutexLegal, TokenTypes DEF Legal, TakeMutex, Judged, dataVars, idpVars
<1>1. CASE Finish(t)
  BY <1>0, <1>1, FinishIsLocal, OffChain, QuietIsClean
<1>2. CASE ~permanent_failure(P(t)) /\ ch' = [ch EXCEPT ![t].pc = "lock", ![t].pre = 0]
  <2>1. ch'[t].pc = "lock"
    BY <1>2 DEF RefreshInv, ChainType, Chain
  <2>2. \A u \in Task : P(u) = P(t) => ~Judged(u)
    <3>1. mutex[P(t)] = NoTask
      BY DEF TakeMutex
    <3> QED BY <3>1, RefreshAssumption DEF Judged, Chaining, Secured, RefreshInv, InOrder
  <2>3. mem[P(t)] \notin hist.rejected[P(t)]
    <3> SUFFICES ASSUME mem[P(t)] \in hist.rejected[P(t)] PROVE FALSE
      OBVIOUS
    <3>1. Deadly(P(t), mem[P(t)]) /\ disk = 0
      BY <1>0, <2>2 DEF Clean, Barred
    <3>2. mem[P(t)] # 0
      BY <1>0 DEF RefreshInv, RestType, Gen
    <3>3. resolve_refresh_credential(P(t), "ServerRejected") = mem[P(t)]
      BY <3>1, <3>2 DEF resolve_refresh_credential, expired_auth, current, Usable
    <3>4. permanent_failure(P(t))
      BY <3>1, <3>2, <3>3 DEF permanent_failure, Deadly
    <3> QED BY <1>2, <3>4
  <2>4. VerdictOf(t)'
    BY <1>0, <2>1, <2>3 DEF VerdictOf
  <2> QED BY <1>0, <2>4, QuietIsClean
<1> QED BY <1>1, <1>2 DEF TakeMutex

\* Ends of a chain that adopt or leave memory alone.
LEMMA ReturnIsClean ==
    ASSUME RefreshInv, NoFlow, Clean, NEW t \in Task, Chaining(t), ~Judged(t),
           UNCHANGED <<issued, spent, hist>>,
           \/ FinishTransient(t)
           \/ FinishAdopt(t) /\ Usable(disk)
           \/ RetainAndFail(t)
    PROVE  Clean'
<1>0. P(t) \in Proc /\ mem \in [Proc -> 0..MaxGen] /\ verdict \in [Proc -> [key : 0..MaxGen, sticky : BOOLEAN, aged : BOOLEAN]]
  BY TokenTypes DEF RefreshInv, DataType
<1>1. CASE FinishTransient(t)
  <2>1. Finish(t) /\ UNCHANGED <<disk, mem, expired, verdict>>
    BY <1>1 DEF FinishTransient, NoFlow, dataVars
  <2> QED BY <2>1, FinishIsLocal, OffChain, QuietIsClean
<1>2. CASE Finish(t) /\ Adopt(P(t)) /\ Usable(disk)
  <2>1. disk \notin hist.rejected[P(t)]
    BY <1>2, DiskIsNew DEF Usable
  <2>2. /\ UNCHANGED <<disk, expired>> /\ mem' = [mem EXCEPT ![P(t)] = disk]
        /\ \A p \in Proc : p # P(t) => verdict'[p] = verdict[p]
    BY <1>0, <1>2 DEF Adopt
  <2> QED BY <1>2, <2>1, <2>2, EndIsClean
<1>3. CASE RetainAndFail(t) /\ ~Adoptable(P(t), ch[t].reason)
  <2>1. mem[P(t)] \notin hist.rejected[P(t)]
    BY DEF Clean, VerdictOf
  <2>2. /\ Finish(t) /\ UNCHANGED <<disk, expired>> /\ mem' = [mem EXCEPT ![P(t)] = mem[P(t)]]
        /\ \A p \in Proc : p # P(t) => verdict'[p] = verdict[p]
    BY <1>0, <1>3 DEF RetainAndFail
  <2> QED BY <2>1, <2>2, EndIsClean
<1> QED BY <1>1, <1>2, <1>3 DEF FinishAdopt, RetainAndFail, Adoptable

LEMMA AfterLockIsClean ==
    ASSUME RefreshInv, NoFlow, Clean, NEW t \in Task, AfterLock(t) \/ AfterRelock(t)
    PROVE  Clean'
<1>0. /\ Local(t) /\ ch[t].pc \in {"lock", "relock"} /\ ~Judged(t) /\ Chaining(t)
      /\ UNCHANGED <<issued, spent, hist>>
  BY AfterLockLegal, AfterRelockLegal DEF Legal, AfterLock, AfterRelock, Judged, Chaining, idpVars
<1>1. CASE FinishTransient(t) \/ (FinishAdopt(t) /\ Adoptable(P(t), ch[t].reason))
  BY <1>0, <1>1, ReturnIsClean DEF Adoptable
<1>2. CASE /\ ~Adoptable(P(t), ch[t].reason) /\ UNCHANGED dataVars
           /\ Move(t, "revalidate") \/ Move(t, "claim")
  <2>1. /\ ch'[t].pc \in {"revalidate", "claim"} /\ ch'[t].reason = ch[t].reason
    BY <1>2, SetPc
  <2>2. ch[t].reason \in Reason
    BY TokenTypes DEF Chain
  <2>3. mem[P(t)] \notin hist.rejected[P(t)]
    BY <1>0 DEF Clean, VerdictOf
  <2>4. VerdictOf(t)'
    BY <1>0, <1>2, <2>1, <2>2, <2>3 DEF VerdictOf, Adoptable, Usable, dataVars
  <2> QED BY <1>0, <1>2, <2>4, QuietIsClean DEF dataVars
<1> QED BY <1>1, <1>2 DEF AfterLock, AfterRelock, LockTimedOut

\* A chain that holds the lock goes on to where it relies on no more than before.
LEMMA OnwardIsClean ==
    ASSUME RefreshInv, NoFlow, Clean, NEW t \in Task,
           Revalidate(t) \/ ClaimSlot(t) \/ ReceiveGrant(t)
    PROVE  Clean'
<1>0. /\ Local(t) /\ ch[t].pc \in {"revalidate", "claim", "granted"} /\ ~Judged(t) /\ Chaining(t)
      /\ UNCHANGED <<disk, mem, expired, verdict, issued, spent, hist>>
  BY RevalidateLegal, ClaimSlotLegal, ReceiveGrantLegal
  DEF Legal, Revalidate, ClaimSlot, ReceiveGrant, Judged, Chaining, Secured, Slotted, idpVars, dataVars
<1>1. /\ ch'[t].reason = ch[t].reason
      /\ ch[t].pc = "granted" => ch'[t].pc = "apply"
      /\ ch[t].pc # "granted" => ch'[t].pc \in {"claim", "relock", "gate"}
  BY SetPc DEF Revalidate, ClaimSlot, ReceiveGrant
<1>2. VerdictOf(t)
  BY DEF Clean
<1>3. VerdictOf(t)'
  BY <1>0, <1>1, <1>2 DEF VerdictOf, Usable
<1> QED BY <1>0, <1>3, QuietIsClean

LEMMA RefreshIsClean ==
    ASSUME RefreshInv, NoFlow, Clean, NEW t \in Task, Refresh(t)
    PROVE  Clean'
<1>0. /\ Local(t) /\ ch[t].pc = "gate" /\ ~Judged(t) /\ Chaining(t) /\ P(t) \in Proc
      /\ UNCHANGED <<issued, spent, hist>>
  BY RefreshLegal, TokenTypes DEF Legal, Refresh, Judged, Chaining, Secured, Slotted, idpVars
<1>1. VerdictOf(t)
  BY DEF Clean
<1>2. mem[P(t)] \notin hist.rejected[P(t)]
  BY <1>0, <1>1 DEF VerdictOf
<1>3. CASE FinishTransient(t)
  BY <1>0, <1>3, ReturnIsClean
<1>4. CASE ch' = [ch EXCEPT ![t].pc = "apply", ![t].cred = disk] /\ UNCHANGED dataVars
  <2>1. ch'[t].pc = "apply"
    BY <1>4, SetCred
  <2>2. VerdictOf(t)'
    BY <1>0, <1>2, <1>4, <2>1 DEF VerdictOf, dataVars
  <2> QED BY <1>0, <1>4, <2>2, QuietIsClean DEF dataVars
<1>5. ASSUME NEW cred, cred = resolve_refresh_credential(P(t), ch[t].reason), cred # 0,
             ch' = [ch EXCEPT ![t].pc = "exchange", ![t].cred = cred], UNCHANGED dataVars
      PROVE  Clean'
  <2>1. ch'[t].pc = "exchange" /\ ch'[t].cred = cred /\ ch'[t].reason = ch[t].reason
    BY <1>5 DEF RefreshInv, ChainType, Chain
  <2>2. cred = disk \/ (disk = 0 /\ cred = mem[P(t)])
    BY <1>5 DEF resolve_refresh_credential, expired_auth, current
  <2>3. cred \notin hist.rejected[P(t)]
    BY <1>0, <1>2, <1>5, <2>2, DiskIsNew
  <2>4. VerdictOf(t)'
    BY <1>0, <1>1, <1>2, <1>5, <2>1, <2>2, <2>3 DEF VerdictOf, Usable, dataVars
  <2> QED BY <1>0, <1>5, <2>4, QuietIsClean DEF dataVars
<1> QED BY <1>3, <1>4, <1>5 DEF Refresh

\* A token that the provider still rotates is the newest, and not lost: then
\* nothing was rejected yet.
LEMMA IdpAnswerIsClean ==
    ASSUME RefreshInv, TokenInv, NoFlow, Clean, NEW t \in Task, IdpAnswer(t)
    PROVE  Clean'
<1>0. /\ Local(t) /\ ch[t].pc = "exchange" /\ ~Judged(t) /\ Chaining(t)
      /\ UNCHANGED <<disk, mem, expired, verdict>>
  BY IdpAnswerLegal DEF Legal, IdpAnswer, Judged, Chaining, Secured, Slotted, dataVars
<1>1. VerdictOf(t)
  BY DEF Clean
<1>2. ASSUME NEW pc \in {"rejected", "failed", "refused"}, Move(t, pc), UNCHANGED <<idpVars, hist>>
      PROVE  Clean'
  <2>1. ch'[t].pc = pc /\ ch'[t].cred = ch[t].cred /\ ch'[t].reason = ch[t].reason
    BY <1>2, SetPc
  <2>2. VerdictOf(t)'
    BY <1>0, <1>1, <1>2, <2>1 DEF VerdictOf, Usable, idpVars, Chaining, Secured, Slotted, Judged
  <2> QED BY <1>0, <1>2, <2>2, QuietIsClean DEF idpVars
<1>3. ASSUME ch[t].cred \notin spent, ch'[t].pc \in {"granted", "failed", "rejected"},
             ch'[t].pc = "rejected" => ch'[t].cred = ch[t].cred /\ ch'[t].reason = ch[t].reason,
             hist'.rejected = hist.rejected
      PROVE  Clean'
  <2>1. ch[t].cred # 0
    BY <1>0 DEF RefreshInv, InOrder
  <2>2. issued \notin hist.lost
    BY <1>3, <2>1, KnownOnes, TokenTypes DEF TokenInv, Known
  <2>3. \A p \in Proc : hist'.rejected[p] = {}
    <3>1. \A p \in Proc : hist.rejected[p] = {}
      BY <2>2 DEF Clean, Barred
    <3> QED BY <1>3, <3>1
  <2>4. \A p \in Proc : Barred(p)'
    BY <2>3 DEF Barred
  <2>5. VerdictOf(t)'
    BY <1>0, <1>1, <1>3, <2>3, TokenTypes DEF VerdictOf, Usable
  <2>6. \A u \in Task \ {t} : VerdictOf(u)'
    <3> SUFFICES ASSUME NEW u \in Task \ {t} PROVE VerdictOf(u)'
      OBVIOUS
    <3>1. ch'[u] = ch[u] /\ VerdictOf(u) /\ P(u) \in Proc
      BY <1>0, TokenTypes DEF Local, Clean
    <3> QED BY <1>0, <2>3, <3>1 DEF VerdictOf, Usable, Chaining, Secured, Slotted, Judged, Deadly
  <2> QED BY <2>4, <2>5, <2>6 DEF Clean
<1>4. ch' = [ch EXCEPT ![t].pc = "granted", ![t].cred = issued + 1] => ch'[t].pc = "granted"
  BY DEF Chain, RefreshInv, ChainType
<1>5. \A end \in {"failed", "rejected"} :
        Move(t, end) => ch'[t].pc = end /\ ch'[t].cred = ch[t].cred /\ ch'[t].reason = ch[t].reason
  BY SetPc
<1>6. hist' = [hist EXCEPT !.lost = @ \cup {issued + 1}] => hist'.rejected = hist.rejected
  BY DEF RefreshInv, RestType
<1> QED BY <1>2, <1>3, <1>4, <1>5, <1>6 DEF IdpAnswer

\* The rejected token is what is on disk, or the disk is empty: there is no
\* sibling's token to retry with, and the newest token was lost.
LEMMA ReceiveRejectedIsClean ==
    ASSUME ~MayBreak, ~hist.unguarded, RefreshInv, TokenInv, NoFlow, Clean, NEW t \in Task,
           ReceiveRejected(t)
    PROVE  Clean'
<1>0. /\ Local(t) /\ ch[t].pc = "rejected" /\ ~Judged(t) /\ Chaining(t) /\ P(t) \in Proc
      /\ UNCHANGED <<disk, mem, expired, verdict, issued, spent>>
  BY ReceiveRejectedLegal, TokenTypes
  DEF Legal, ReceiveRejected, Judged, Chaining, Secured, Slotted, dataVars, idpVars
<1>1. VerdictOf(t)
  BY DEF Clean
<1>2. disk \in {0, ch[t].cred} /\ ch[t].cred \in spent /\ ch[t].cred # 0
  BY <1>0, <1>1 DEF VerdictOf, TokenInv, TokenOf, RefreshInv, InOrder
<1>3. Move(t, "denied")
  BY <1>2 DEF ReceiveRejected, Usable, refresh_token_superseded
<1>4. /\ ch'[t].pc = "denied" /\ ch'[t].cred = ch[t].cred /\ ch'[t].reason = ch[t].reason
  BY <1>3, SetPc
<1>5. issued \in hist.lost
  <2> SUFFICES ASSUME issued \notin hist.lost PROVE FALSE
    OBVIOUS
  <2>1. disk # issued
    BY <1>2, TokenTypes DEF TokenInv
  <2>2. PICK u \in Task : InHandOf(u)
    BY <2>1 DEF TokenInv
  <2>3. Holds(Own(u)) /\ Holds(Own(t))
    BY <1>0, <2>2 DEF InHandOf, RefreshInv, InOrder, Secured, Slotted
  <2> QED BY <1>0, <2>2, <2>3, SoleHolder DEF InHandOf
<1>6. /\ hist'.lost = hist.lost
      /\ hist'.rejected[P(t)] = hist.rejected[P(t)] \cup {ch[t].cred}
      /\ \A p \in Proc : p # P(t) => hist'.rejected[p] = hist.rejected[p]
  BY <1>0 DEF ReceiveRejected, RefreshInv, RestType
<1>7. \A u \in Task \ {t} : ch'[u] = ch[u]
  BY <1>0 DEF Local
<1>8. VerdictOf(t)'
  BY <1>0, <1>1, <1>4 DEF VerdictOf, Usable, Judged
<1>9. \A u \in Task \ {t} : VerdictOf(u)'
  <2> SUFFICES ASSUME NEW u \in Task \ {t}, Chaining(u)' PROVE VerdictOf(u)'
    BY OffChain
  <2>1. Chaining(u) /\ P(u) \in Proc
    BY <1>7, TokenTypes DEF Chaining, Secured, Slotted
  <2>2. P(u) # P(t)
    BY <1>0, <2>1, OneChain
  <2> QED BY <1>0, <1>6, <1>7, <2>1, <2>2
          DEF Clean, VerdictOf, Usable, Chaining, Secured, Slotted, Judged, Deadly
<1>10. \A p \in Proc : Barred(p)'
  <2> SUFFICES ASSUME NEW p \in Proc PROVE Barred(p)'
    OBVIOUS
  <2>1. Barred(p) /\ \A u \in Task : Judged(u) => u # t /\ ch'[u] = ch[u]
    BY <1>0, <1>7 DEF Clean
  <2>2. CASE p # P(t)
    BY <1>0, <1>6, <2>1, <2>2 DEF Barred, Judged, Deadly
  <2>3. CASE p = P(t)
    <3>1. mem[p] \notin hist.rejected[p]
      BY <1>0, <1>1, <2>3 DEF VerdictOf
    <3>2. Judged(t)'
      BY <1>4 DEF Judged
    <3>3. ASSUME NEW g \in hist'.rejected[p]
          PROVE  /\ g \in spent' /\ issued' \in hist'.lost
                 /\ \/ disk' = 0
                    \/ \E u \in Task : P(u) = p /\ Judged(u)' /\ ch'[u].cred = g /\ disk' = g
      <4>1. CASE g = ch[t].cred
        BY <1>0, <1>2, <1>4, <1>5, <1>6, <2>3, <3>2, <4>1
      <4>2. CASE g \in hist.rejected[p]
        BY <1>0, <1>6, <2>1, <2>3, <4>2 DEF Barred, Judged
      <4> QED BY <1>6, <2>3, <4>1, <4>2
    <3>4. mem'[p] \in hist'.rejected[p] => mem'[p] = ch[t].cred
      BY <1>0, <1>6, <2>3, <3>1
    <3> QED BY <1>4, <2>3, <3>2, <3>3, <3>4 DEF Barred
  <2> QED BY <2>2, <2>3
<1> QED BY <1>8, <1>9, <1>10 DEF Clean

\* ... and the verdict is recorded and the token discarded.
LEMMA ApplyRejectedIsClean ==
    ASSUME RefreshInv, TokenInv, NoFlow, Clean, NEW t \in Task, ApplyRejected(t)
    PROVE  Clean'
<1>0. /\ Local(t) /\ ch[t].pc = "denied" /\ Chaining(t) /\ P(t) \in Proc
      /\ UNCHANGED <<issued, spent, hist>>
  BY ApplyRejectedLegal, TokenTypes
  DEF Legal, ApplyRejected, Chaining, Secured, Slotted, dataVars, idpVars
<1>1. VerdictOf(t)
  BY DEF Clean
<1>2. disk \in {0, ch[t].cred} /\ ch[t].cred # 0
  BY <1>0, <1>1 DEF VerdictOf, RefreshInv, InOrder
<1>3. ~Adoptable(P(t), ch[t].reason) /\ ~refresh_token_superseded(ch[t].cred)
  BY <1>0, <1>1, <1>2 DEF VerdictOf, Adoptable, refresh_token_superseded
<1>4. /\ verdict' = [verdict EXCEPT ![P(t)] =
                       [key |-> ch[t].cred, sticky |-> TRUE, aged |-> FALSE]]
      /\ ch' = [ch EXCEPT ![t].pc = "clear", ![t].discard = Discarded(t)]
      /\ UNCHANGED <<disk, mem, expired>>
  BY <1>3 DEF ApplyRejected
<1>5. /\ ch'[t].pc = "clear" /\ ch'[t].cred = ch[t].cred /\ ch'[t].reason = ch[t].reason
      /\ ch'[t].discard = Discarded(t)
  BY <1>4 DEF RefreshInv, ChainType, Chain
<1>6. Deadly(P(t), ch[t].cred)' /\ \A p \in Proc : p # P(t) => verdict'[p] = verdict[p]
  <2>1. /\ verdict'[P(t)] = [key |-> ch[t].cred, sticky |-> TRUE, aged |-> FALSE]
        /\ \A p \in Proc : p # P(t) => verdict'[p] = verdict[p]
    BY <1>0, <1>4 DEF RefreshInv, DataType
  <2> QED BY <1>5, <2>1 DEF Deadly
<1>7. \A u \in Task \ {t} : ch'[u] = ch[u]
  BY <1>0 DEF Local
<1>8. VerdictOf(t)'
  <2>1. "disk" \in Discarded(t) \/ disk = 0
    BY <1>2 DEF Discarded
  <2>2. "mem" \in Discarded(t) \/ (disk = ch[t].cred /\ disk # mem[P(t)])
    BY DEF Discarded
  <2>3. disk # 0 /\ disk # mem[P(t)] => disk \in expired
    BY <1>0, <1>1 DEF VerdictOf, Usable
  <2> QED BY <1>0, <1>1, <1>2, <1>4, <1>5, <1>6, <2>1, <2>2, <2>3 DEF VerdictOf, Usable, Judged
<1>9. \A u \in Task \ {t} : VerdictOf(u)'
  <2> SUFFICES ASSUME NEW u \in Task \ {t}, Chaining(u)' PROVE VerdictOf(u)'
    BY OffChain
  <2>1. Chaining(u) /\ P(u) \in Proc
    BY <1>7, TokenTypes DEF Chaining, Secured, Slotted
  <2>2. P(u) # P(t)
    BY <1>0, <2>1, OneChain
  <2> QED BY <1>0, <1>4, <1>6, <1>7, <2>1, <2>2
          DEF Clean, VerdictOf, Usable, Chaining, Secured, Slotted, Judged, Deadly
<1>10. \A p \in Proc : Barred(p)'
  <2> SUFFICES ASSUME NEW p \in Proc PROVE Barred(p)'
    OBVIOUS
  <2>1. Barred(p) /\ \A u \in Task : Judged(u) => Judged(u)' /\ ch'[u].cred = ch[u].cred
    BY <1>5, <1>7 DEF Clean, Judged
  <2>2. \A g \in hist'.rejected[p] :
          /\ g \in spent' /\ issued' \in hist'.lost
          /\ \/ disk' = 0
             \/ \E u \in Task : P(u) = p /\ Judged(u)' /\ ch'[u].cred = g /\ disk' = g
    BY <1>0, <1>4, <2>1 DEF Barred
  <2>3. CASE p # P(t)
    <3>1. \A u \in Task : P(u) = p => ch'[u] = ch[u]
      BY <1>7, <2>3
    <3>2. mem'[p] = mem[p] /\ verdict'[p] = verdict[p]
      BY <1>4, <1>6, <2>3
    <3>3. mem'[p] \in hist'.rejected[p] =>
            \/ Deadly(p, mem[p])'
            \/ \E u \in Task : /\ P(u) = p /\ Judged(u)' /\ ch'[u].cred = mem'[p]
                               /\ ch'[u].pc = "clear" => "mem" \in ch'[u].discard
      BY <1>0, <2>1, <3>1, <3>2 DEF Barred, Judged, Deadly
    <3> QED BY <2>2, <3>3 DEF Barred
  <2>4. CASE p = P(t) /\ mem[p] = ch[t].cred
    <3>1. Deadly(p, mem[p])'
      BY <1>4, <1>5, <1>6, <2>4 DEF Deadly
    <3> QED BY <2>2, <3>1 DEF Barred
  <2>5. CASE p = P(t) /\ mem[p] # ch[t].cred
    <3>1. mem[p] \notin hist.rejected[p]
      <4> SUFFICES ASSUME mem[p] \in hist.rejected[p] PROVE FALSE
        OBVIOUS
      <4>1. mem[p] # 0
        BY DEF RefreshInv, RestType, Gen
      <4>2. disk = ch[t].cred
        BY <1>0, <1>1, <2>5, <4>1 DEF VerdictOf
      <4> QED BY <1>2, <2>1, <2>5, <4>2 DEF Barred
    <3> QED BY <1>0, <1>4, <2>2, <3>1 DEF Barred
  <2> QED BY <2>3, <2>4, <2>5
<1> QED BY <1>8, <1>9, <1>10 DEF Clean

\* The holder of the lock ends its activity; others in a chain wait for the lock.
LEMMA HolderEndIsClean ==
    ASSUME ~MayBreak, RefreshInv, Clean, NEW t \in Task, Holds(Own(t)), Finish(t),
           \A p \in Proc : Barred(p)',
           \A u \in Task \ {t} : Chaining(u) => mem'[P(u)] \notin hist'.rejected[P(u)]
    PROVE  Clean'
<1>0. Local(t) /\ ~Chaining(t)'
  BY FinishIsLocal
<1>1. \A u \in Task \ {t} : ch'[u] = ch[u] /\ ~Secured(u)
  BY <1>0, SoleHolder DEF Local, RefreshInv, InOrder
<1>2. \A u \in Task \ {t} : VerdictOf(u)'
  BY <1>1 DEF VerdictOf, Chaining, Secured, Slotted
<1> QED BY <1>0, <1>2, OffChain DEF Clean

LEMMA ApplyIsClean ==
    ASSUME Reliable, ~hist.unguarded, RefreshInv, TokenInv, Clean, NEW t \in Task, Apply(t)
    PROVE  Clean'
<1>0. ch[t].pc = "apply" /\ Finish(t) /\ ~Judged(t) /\ UNCHANGED <<issued, spent, hist>>
  BY DEF Apply, idpVars, Judged
<1>1. Holds(Own(t)) /\ ch[t].cred # 0 /\ ch[t].cred \in {disk, issued} /\ Known(ch[t].cred)
  BY <1>0 DEF RefreshInv, InOrder, Secured, TokenInv, TokenOf, Stands
<1>2. \A p \in Proc : hist.rejected[p] = {}
  <2> SUFFICES ASSUME NEW p \in Proc, NEW g \in hist.rejected[p] PROVE FALSE
    OBVIOUS
  <2>1. issued \in hist.lost
    BY DEF Clean, Barred
  <2>2. disk # 0
    BY <1>1, <2>1, TokenTypes DEF Known
  <2>3. PICK u \in Task : Judged(u)
    BY <2>2 DEF Clean, Barred
  <2>4. Holds(Own(u))
    BY <2>3 DEF Judged, RefreshInv, InOrder, Secured
  <2> QED BY <1>0, <1>1, <2>3, <2>4, SoleHolder DEF Reliable
<1>3. \A p \in Proc : Barred(p)'
  BY <1>0, <1>2 DEF Barred
<1>4. \A u \in Task : hist'.rejected[P(u)] = {}
  BY <1>0, <1>2, TokenTypes
<1> QED BY <1>0, <1>1, <1>3, <1>4, HolderEndIsClean DEF Reliable

\* Afterwards the disk is empty, and the rejected token is out of memory or
\* under the sticky verdict.
LEMMA ClearIsClean ==
    ASSUME Reliable, RefreshInv, TokenInv, Clean, NEW t \in Task, Clear(t)
    PROVE  Clean'
<1>0. /\ ch[t].pc = "clear" /\ Finish(t) /\ Chaining(t) /\ P(t) \in Proc
      /\ UNCHANGED <<verdict, issued, spent, hist>>
  BY TokenTypes DEF Clear, idpVars, Chaining, Secured
<1>1. Holds(Own(t)) /\ ch[t].cred # 0 /\ VerdictOf(t)
  BY <1>0 DEF RefreshInv, InOrder, Secured, Clean
<1>2. disk' = 0
  <2>1. Written = {TRUE}
    BY DEF Reliable, Written
  <2> QED BY <1>0, <1>1, <2>1 DEF Clear, VerdictOf
<1>3. /\ \A p \in Proc : p # P(t) => mem'[p] = mem[p]
      /\ IF "mem" \in ch[t].discard THEN mem'[P(t)] = 0 ELSE mem'[P(t)] = mem[P(t)]
  BY <1>0 DEF Clear, RefreshInv, DataType
<1>4. \A p \in Proc : 0 \notin hist.rejected[p]
  BY DEF RefreshInv, RestType, Gen
<1>5. \A u \in Task \ {t} : ~Judged(u) /\ (Chaining(u) => P(u) # P(t) /\ P(u) \in Proc)
  BY <1>0, <1>1, SoleHolder, OneChain, TokenTypes DEF Judged, RefreshInv, InOrder, Secured, Reliable
<1>6. \A p \in Proc : Barred(p)'
  <2> SUFFICES ASSUME NEW p \in Proc PROVE Barred(p)'
    OBVIOUS
  <2>1. Barred(p)
    BY DEF Clean
  <2>2. mem'[p] \in hist'.rejected[p] => Deadly(p, mem[p])'
    <3> SUFFICES ASSUME mem'[p] \in hist.rejected[p] PROVE Deadly(p, mem'[p])
      BY <1>0 DEF Deadly
    <3>1. CASE p # P(t)
      BY <1>3, <1>5, <2>1, <3>1 DEF Barred
    <3>2. CASE p = P(t)
      <4>1. "mem" \notin ch[t].discard /\ mem'[p] = mem[p]
        BY <1>3, <1>4, <3>2
      <4>2. disk = ch[t].cred /\ Deadly(p, ch[t].cred)
        BY <1>0, <1>1, <3>2, <4>1 DEF VerdictOf
      <4>3. disk = mem[p]
        BY <1>1, <2>1, <4>1, <4>2 DEF Barred
      <4> QED BY <4>1, <4>2, <4>3
    <3> QED BY <3>1, <3>2
  <2> QED BY <1>0, <1>2, <2>1, <2>2 DEF Barred
<1>7. \A u \in Task \ {t} : Chaining(u) => mem'[P(u)] \notin hist'.rejected[P(u)]
  BY <1>0, <1>3, <1>5 DEF Clean, VerdictOf
<1> QED BY <1>0, <1>1, <1>6, <1>7, HolderEndIsClean DEF Reliable

LEMMA EnrichWriteIsClean ==
    ASSUME Reliable, ~hist'.unguarded, RefreshInv, TokenInv, Clean, NEW t \in Task, EnrichWrite(t)
    PROVE  Clean'
<1>0. /\ ch[t].pc = "enrich_write" /\ Finish(t) /\ ~Judged(t) /\ P(t) \in Proc
      /\ UNCHANGED <<expired, verdict, issued, spent>>
  BY TokenTypes DEF EnrichWrite, idpVars, Judged
<1>1. hist' = hist /\ Holds(Own(t)) /\ ~hist.unguarded
  BY DEF EnrichWrite, RefreshInv, RestType
<1>2. disk = ch[t].cred /\ disk # 0
  BY <1>0, <1>1 DEF TokenInv, TokenOf, Stands, RefreshInv, InOrder
<1>3. disk' = disk /\ \A p \in Proc : mem'[p] \in {mem[p], disk}
  <2>1. Written = {TRUE}
    BY DEF Reliable, Written
  <2> QED BY <1>2, <2>1 DEF EnrichWrite, RefreshInv, DataType
<1>4. \A p \in Proc : disk \notin hist.rejected[p]
  BY <1>0, <1>1, <1>2, DiskIsNew DEF Reliable
<1>5. \A u \in Task : ~Judged(u)
  BY <1>0, <1>1, SoleHolder DEF Judged, RefreshInv, InOrder, Secured, Reliable
<1>6. \A p \in Proc : Barred(p)'
  BY <1>0, <1>1, <1>3, <1>4, <1>5 DEF Clean, Barred, Deadly
<1>7. \A u \in Task \ {t} : Chaining(u) => mem'[P(u)] \notin hist'.rejected[P(u)]
  <2>1. \A u \in Task : Chaining(u) => mem[P(u)] \notin hist.rejected[P(u)]
    BY <1>5 DEF Clean, VerdictOf
  <2> QED BY <1>1, <1>3, <1>4, <2>1, TokenTypes
<1> QED BY <1>0, <1>1, <1>6, <1>7, HolderEndIsClean DEF Reliable

\* Memory takes what is on disk: where that was rejected, the task that judges it
\* will remove it or has recorded the verdict.
LEMMA PickUpIsClean ==
    ASSUME RefreshInv, TokenInv, Clean, NEW p \in Proc, disk # 0,
           UNCHANGED <<disk, expired, issued, spent, hist, ch>>, mem' = [mem EXCEPT ![p] = disk],
           \/ UNCHANGED verdict
           \/ Usable(disk) /\ \A q \in Proc : q # p => verdict'[q] = verdict[q]
    PROVE  Clean'
<1>0. mem'[p] = disk /\ \A q \in Proc : q # p => mem'[q] = mem[q] /\ verdict'[q] = verdict[q]
  BY DEF RefreshInv, DataType
<1>1. \A u \in Task : VerdictOf(u)'
  <2> SUFFICES ASSUME NEW u \in Task PROVE VerdictOf(u)'
    OBVIOUS
  <2>1. VerdictOf(u) /\ P(u) \in Proc
    BY TokenTypes DEF Clean
  <2>2. CASE P(u) # p
    BY <1>0, <2>1, <2>2 DEF VerdictOf, Usable, Chaining, Secured, Slotted, Judged, Deadly
  <2>3. CASE P(u) = p
    <3>1. Chaining(u) /\ ~Judged(u) => disk \notin hist.rejected[p]
      BY <2>3, DiskIsNew
    <3>2. Chaining(u)' = Chaining(u) /\ Judged(u)' = Judged(u) /\ Usable(disk)' = Usable(disk)
      BY DEF Chaining, Secured, Slotted, Judged, Usable
    <3>3. ch[u].pc = "clear" /\ "mem" \notin ch[u].discard => UNCHANGED verdict
      BY <2>1 DEF VerdictOf, Usable
    <3> QED BY <1>0, <2>1, <2>3, <3>1, <3>2, <3>3 DEF VerdictOf, Deadly
  <2> QED BY <2>2, <2>3
<1>2. \A q \in Proc : Barred(q)'
  <2> SUFFICES ASSUME NEW q \in Proc PROVE Barred(q)'
    OBVIOUS
  <2>1. Barred(q)
    BY DEF Clean
  <2>2. CASE q # p
    BY <1>0, <2>1, <2>2 DEF Barred, Judged, Deadly
  <2>3. CASE q = p
    <3>1. disk \in hist.rejected[p] =>
            \/ Deadly(p, disk)'
            \/ \E u \in Task : /\ P(u) = p /\ Judged(u) /\ ch[u].cred = disk
                               /\ ch[u].pc = "clear" => "mem" \in ch[u].discard
      <4> SUFFICES ASSUME disk \in hist.rejected[p] PROVE
            \/ Deadly(p, disk)'
            \/ \E u \in Task : /\ P(u) = p /\ Judged(u) /\ ch[u].cred = disk
                               /\ ch[u].pc = "clear" => "mem" \in ch[u].discard
        OBVIOUS
      <4>1. PICK u \in Task : P(u) = p /\ Judged(u) /\ ch[u].cred = disk
        BY <2>1, <2>3 DEF Barred
      <4>2. VerdictOf(u)
        BY DEF Clean
      <4>3. CASE ch[u].pc = "clear" /\ "mem" \notin ch[u].discard
        <5>1. Deadly(p, disk) /\ UNCHANGED verdict
          BY <4>1, <4>2, <4>3 DEF VerdictOf, Usable
        <5> QED BY <5>1 DEF Deadly
      <4> QED BY <4>1, <4>3
    <3> QED BY <1>0, <2>1, <2>3, <3>1 DEF Barred, Judged, Deadly
  <2> QED BY <2>2, <2>3
<1> QED BY <1>1, <1>2 DEF Clean

\* The entry is gone from disk and a reload forgets what was in memory.
LEMMA ForgetIsClean ==
    ASSUME RefreshInv, TokenInv, Clean, NEW p \in Proc, disk = 0,
           UNCHANGED <<disk, expired, issued, spent, hist, ch>>, mem' = [mem EXCEPT ![p] = 0],
           \A q \in Proc : q # p => verdict'[q] = verdict[q]
    PROVE  Clean'
<1>0. /\ mem'[p] = 0 /\ \A q \in Proc : q # p => mem'[q] = mem[q]
      /\ \A q \in Proc : 0 \notin hist.rejected[q]
  BY DEF RefreshInv, DataType, RestType, Gen
<1>1. \A u \in Task : VerdictOf(u)'
  <2> SUFFICES ASSUME NEW u \in Task PROVE VerdictOf(u)'
    OBVIOUS
  <2>1. VerdictOf(u) /\ P(u) \in Proc /\ (ch[u].pc = "clear" => ch[u].cred # 0)
    BY TokenTypes DEF Clean, RefreshInv, InOrder
  <2>2. CASE P(u) # p
    BY <1>0, <2>1, <2>2 DEF VerdictOf, Usable, Chaining, Secured, Slotted, Judged, Deadly
  <2>3. CASE P(u) = p
    BY <1>0, <2>1, <2>3 DEF VerdictOf, Usable, Chaining, Secured, Slotted, Judged
  <2> QED BY <2>2, <2>3
<1>2. \A q \in Proc : Barred(q)'
  <2> SUFFICES ASSUME NEW q \in Proc PROVE Barred(q)'
    OBVIOUS
  <2>1. Barred(q)
    BY DEF Clean
  <2>2. CASE q # p
    BY <1>0, <2>1, <2>2 DEF Barred, Judged, Deadly
  <2>3. CASE q = p
    BY <1>0, <2>1, <2>3 DEF Barred
  <2> QED BY <2>2, <2>3
<1> QED BY <1>1, <1>2 DEF Clean

\* The beginnings and the enrichment's look at the file.
LEMMA BesideIsClean ==
    ASSUME RefreshInv, Clean, NEW t \in Task,
           \/ BeginLogout(t) \/ BeginEnrich(t) \/ EnrichRead(t)
           \/ \E r \in Reason : Begin(t, r)
    PROVE  Clean'
<1>0. /\ Local(t) /\ ~Judged(t) /\ UNCHANGED <<disk, mem, expired, verdict, issued, spent, hist>>
  BY BeginOtherLegal, BeginLegal, EnrichLegal
  DEF Legal, BeginLogout, BeginEnrich, EnrichRead, Begin, Judged, dataVars, idpVars
<1>1. CASE Finish(t)
  BY <1>0, <1>1, FinishIsLocal, OffChain, QuietIsClean
<1>2. CASE ~Finish(t)
  <2>1. ch'[t].pc \in {"logout", "enrich", "enrich_write", "mutex"}
    <3>1. \A r \in Reason : Begin(t, r) => ch'[t].pc = "mutex"
      BY DEF Begin, RefreshInv, ChainType, Rest
    <3>2. BeginEnrich(t) => ch'[t].pc = "enrich"
      BY SetCred DEF BeginEnrich
    <3>3. BeginLogout(t) \/ (EnrichRead(t) /\ ~Finish(t)) => ch'[t].pc \in {"logout", "enrich_write"}
      BY SetPc DEF BeginLogout, EnrichRead
    <3> QED BY <1>2, <3>1, <3>2, <3>3
  <2>2. ~Chaining(t)'
    BY <2>1 DEF Chaining, Secured, Slotted
  <2> QED BY <1>0, <2>2, OffChain, QuietIsClean
<1> QED BY <1>1, <1>2

LEMMA TaskStepIsClean ==
    ASSUME Reliable, RefreshInv, TokenInv, NoFlow, Clean, ~hist'.unguarded, ~hist.unguarded,
           NEW t \in Task, TaskStep(t)
    PROVE  Clean'
<1>1. CASE LockAnswers(t)
  <2>1. UNCHANGED <<disk, mem, expired, verdict, issued, spent, hist, ch>>
    BY <1>1 DEF LockAnswers, dataVars, idpVars
  <2> QED BY <2>1, StillIsClean
<1>2. CASE ReceiveRefused(t) \/ ReceiveFailed(t)
  <2>1. Chaining(t) /\ ~Judged(t) /\ UNCHANGED <<issued, spent, hist>>
    BY <1>2 DEF ReceiveRefused, ReceiveFailed, Chaining, Secured, Slotted, Judged, idpVars
  <2> QED BY <1>2, <2>1, ReturnIsClean DEF ReceiveRefused, ReceiveFailed
<1>3. ~Logout(t)
  BY DEF Logout, RefreshInv, RestType
<1>4. ~FlowLocked(t)
  BY DEF FlowLocked, NoFlow
<1>5. ~MayBreak
  BY DEF Reliable
<1> QED
  BY <1>1, <1>2, <1>3, <1>4, <1>5, TakeMutexIsClean, AfterLockIsClean, OnwardIsClean,
     RefreshIsClean, IdpAnswerIsClean, ReceiveRejectedIsClean, ApplyRejectedIsClean, ApplyIsClean,
     ClearIsClean, EnrichWriteIsClean, BesideIsClean
  DEF TaskStep

LEMMA UnguardedStays ==
    ASSUME RefreshInv, [Next]_vars, hist.unguarded
    PROVE  hist'.unguarded
<1> USE DEF RefreshInv, RestType
<1>1. ASSUME NEW t \in Task, TaskStep(t) PROVE hist'.unguarded
  <2>1. CASE IdpAnswer(t)
    BY <2>1 DEF IdpAnswer
  <2>2. CASE ReceiveRejected(t) \/ Logout(t) \/ EnrichWrite(t)
    BY <2>2 DEF ReceiveRejected, Logout, EnrichWrite
  <2> QED BY <1>1, <2>1, <2>2
          DEF TaskStep, LockAnswers, TakeMutex, AfterLock, Revalidate, AfterRelock, ClaimSlot,
              Refresh, ReceiveGrant, ReceiveRefused, ReceiveFailed, Apply, ApplyRejected, Clear,
              EnrichRead, FlowLocked
<1> QED BY <1>1
        DEF Next, Begin, AdoptDespiteVerdict, BeginLogout, BeginEnrich, BeginFlow, LockBreaks,
            Reload, WillSleep, HoldAck, DidWake, VerdictAges, Expire, vars

LEMMA VerdictNext ==
    ASSUME Reliable, "flow" \notin Events, RefreshInv, TokenInv, NoFlow, VerdictInv, [Next]_vars
    PROVE  VerdictInv'
<1> SUFFICES ASSUME ~hist'.unguarded PROVE Clean'
  BY DEF VerdictInv
<1>0. ~hist.unguarded /\ Clean
  BY UnguardedStays DEF VerdictInv
<1>1. ASSUME NEW t \in Task, TaskStep(t) PROVE Clean'
  BY <1>0, <1>1, TaskStepIsClean
<1>2. ASSUME NEW t \in Task, BeginLogout(t) \/ BeginEnrich(t) \/ \E r \in Reason : Begin(t, r)
      PROVE  Clean'
  BY <1>0, <1>2, BesideIsClean
<1>3. ASSUME NEW t \in Task, NEW r \in Reason, AdoptDespiteVerdict(t, r) PROVE Clean'
  <2>1. P(t) \in Proc /\ Usable(disk) /\ disk # 0
    BY <1>3, TokenTypes DEF AdoptDespiteVerdict, Adoptable, Usable
  <2>2. /\ UNCHANGED <<disk, expired, issued, spent, hist, ch>>
        /\ mem' = [mem EXCEPT ![P(t)] = disk]
        /\ \A q \in Proc : q # P(t) => verdict'[q] = verdict[q]
    BY <1>3 DEF AdoptDespiteVerdict, Adopt, idpVars, RefreshInv, DataType
  <2> QED BY <1>0, <2>1, <2>2, PickUpIsClean
<1>4. ASSUME NEW p \in Proc, Reload(p) PROVE Clean'
  <2>1. UNCHANGED <<disk, expired, issued, spent, hist, ch>>
    BY <1>4 DEF Reload, idpVars
  <2>2. CASE disk # 0
    BY <1>0, <1>4, <2>1, <2>2, PickUpIsClean DEF Reload
  <2>3. CASE disk = 0
    <3>1. mem' = [mem EXCEPT ![p] = 0] /\ \A q \in Proc : q # p => verdict'[q] = verdict[q]
      BY <1>4, <2>3 DEF Reload, RefreshInv, DataType
    <3> QED BY <1>0, <2>1, <2>3, <3>1, ForgetIsClean
  <2> QED BY <2>2, <2>3
<1>5. ASSUME NEW p \in Proc, VerdictAges(p) PROVE Clean'
  <2>1. /\ UNCHANGED <<disk, mem, expired, issued, spent, hist, ch>>
        /\ \A q \in Proc : verdict'[q].key = verdict[q].key /\ verdict'[q].sticky = verdict[q].sticky
    BY <1>5 DEF VerdictAges, idpVars, RefreshInv, DataType
  <2> QED BY <1>0, <2>1, StillIsClean
<1>6. CASE \/ \E p \in Proc : WillSleep(p) \/ HoldAck(p) \/ DidWake(p)
           \/ \E g \in Gen : Expire(g)
           \/ UNCHANGED vars
  <2>1. /\ UNCHANGED <<disk, mem, verdict, issued, spent, hist, ch>> /\ expired \subseteq expired'
    BY <1>6 DEF WillSleep, HoldAck, DidWake, Expire, vars, idpVars, dataVars
  <2> QED BY <1>0, <2>1, StillIsClean
<1>7. ~LockBreaks /\ \A t \in Task : ~BeginFlow(t)
  BY DEF LockBreaks, Break, Reliable, BeginFlow
<1> QED BY <1>1, <1>2, <1>3, <1>4, <1>5, <1>6, <1>7 DEF Next

LEMMA VerdictInit ==
    ASSUME Init
    PROVE  VerdictInv /\ NoFlow
<1>1. \A t \in Task : ch[t].pc = "idle" /\ ch[t].flow = 0
  BY DEF Init, Rest
<1>2. \A p \in Proc : hist.rejected[p] = {}
  BY DEF Init
<1> QED BY <1>1, <1>2 DEF VerdictInv, Clean, Barred, VerdictOf, Chaining, Secured, Slotted, NoFlow

\* "Never retried": with a reliable auth.json, unbroken locks and no expired path of
\* run_auth_flow, a process that was told invalid_grant for a token never sends it
\* again, until somebody logs out or an enrichment writes without the lock.
THEOREM RejectedIsNotRetried ==
    ASSUME Reliable, "flow" \notin Events
    PROVE  Spec => []NoRetryOfRejected
<1> DEFINE Inv == RefreshInv /\ TokenInv /\ NoFlow /\ VerdictInv
<1>1. Init => Inv
  BY InitHolds, TokensInit, VerdictInit
<1>2. Inv /\ [Next]_vars => Inv'
  BY NextKeeps, TokensNext, NoFlowNext, VerdictNext
<1>3. Inv => NoRetryOfRejected
  BY DEF VerdictInv, Clean, VerdictOf, NoRetryOfRejected
<1> QED BY <1>1, <1>2, <1>3, PTL DEF Spec
=============================================================================
