----------------------- MODULE CredentialRefreshProofs -----------------------
(***************************************************************************)
(* Proofs about CredentialRefresh for every finite set of tasks, every     *)
(* assignment of tasks to processes and every bound: the types, that only  *)
(* one participant is at the provider, and that no exchange is under way   *)
(* in a process that has acknowledged a system sleep.                      *)
(***************************************************************************)
EXTENDS CredentialRefresh, RefreshLockProofs, TLAPS

Chain == [pc : PC, reason : Reason, pre : 0..MaxGen, cred : 0..MaxGen,
          retried : BOOLEAN, discard : SUBSET {"mem", "disk"}, flow : 0..MaxGen]

\* The steps of a refresh_chain that hold the process's mutex, those among
\* them that hold the file lock too, and those that hold a slot in flight.
Slotted(t) == ch[t].pc \in {"gate", "exchange", "granted", "rejected", "failed", "refused"}
Secured(t) == Slotted(t) \/ ch[t].pc \in {"revalidate", "claim", "apply", "denied", "clear"}
Chaining(t) == Secured(t) \/ ch[t].pc \in {"lock", "relock"}

\* The types, but for the count in flight, which takes the invariant below.
DataType ==
    /\ disk \in 0..MaxGen
    /\ mem \in [Proc -> 0..MaxGen]
    /\ expired \subseteq Gen
    /\ verdict \in [Proc -> [key : 0..MaxGen, sticky : BOOLEAN, aged : BOOLEAN]]
ChainType ==
    /\ mutex \in [Proc -> Task \cup {NoTask}]
    /\ ch \in [Task -> Chain]
RestType ==
    /\ spent \subseteq Gen /\ issued \in Gen
    /\ budget \in [Proc -> [key : 0..MaxGen, count : 0..MaxTransient]]
    /\ enrich \subseteq [proc : Proc, gen : Gen]
    /\ power \in [Proc -> {"awake", "raised", "acked"}]
    /\ hist \in [rejected : [Proc -> SUBSET Gen], lost : SUBSET Gen, unguarded : BOOLEAN]

\* A task in the chain has the mutex, holds the lock from the grant on, and
\* what it carries to the provider, or back from it, is a credential.
InOrder(t) ==
    /\ Chaining(t) => mutex[P(t)] = t
    /\ Secured(t) => Holds(Own(t))
    /\ ch[t].pc \in {"exchange", "granted", "rejected", "failed", "refused", "apply",
                     "denied", "clear", "enrich", "enrich_write"} => ch[t].cred # 0

\* The mutex lets one task of a process have a slot, so the count is 0 or 1.
SlotCounted ==
    /\ inflight \in [Proc -> {0, 1}]
    /\ \A t \in Task : Slotted(t) => inflight[P(t)] = 1
    /\ \A p \in Proc : inflight[p] = 1 => \E t \in Task : P(t) = p /\ Slotted(t)

LockInv == GuardTypeOK /\ OneLive /\ NoneBroken

RefreshInv ==
    /\ LockInv /\ DataType /\ ChainType /\ RestType
    /\ \A t \in Task : InOrder(t)
    /\ SlotCounted /\ NoExchangeIntoSuspend

-----------------------------------------------------------------------------
(* The frame of a step of one task.                                        *)

\* Each task has its own two handles.
LEMMA OwnHandles ==
    /\ \A t \in Task : Own(t) \in Handle /\ Outer(t) \in Handle
    /\ \A t, u \in Task : Own(t) = Own(u) => t = u
    /\ \A t, u \in Task : Own(t) # Outer(u)
BY RefreshAssumption DEF Own, Outer

\* The step touches the chain, the handles and the mutex of no other task.
Local(t) ==
    /\ LockInv' /\ ChainType'
    /\ \A u \in Task \ {t} : ch'[u] = ch[u] /\ guard'[Own(u)] = guard[Own(u)]
    /\ \A u \in Task \ {t} : mutex[P(u)] = u => mutex'[P(u)] = u

\* The slot is kept, claimed or given back.
SlotStep(t) ==
    \/ (Slotted(t)' <=> Slotted(t)) /\ UNCHANGED inflight
    \/ /\ ~Slotted(t) /\ Chaining(t) /\ Slotted(t)'
       /\ inflight' = [inflight EXCEPT ![P(t)] = @ + 1]
    \/ /\ Slotted(t) /\ ~Slotted(t)'
       /\ inflight' = [inflight EXCEPT ![P(t)] = @ - 1]

\* An exchange begins with the gate down only.
GateStep(t) == UNCHANGED power /\ (Exchanging(t)' => Exchanging(t) \/ ~gated(P(t)))

Legal(t) ==
    Local(t) /\ InOrder(t)' /\ SlotStep(t) /\ GateStep(t) /\ DataType' /\ RestType'

\* Two chains of one process are never under way together.
LEMMA OneChain ==
    ASSUME RefreshInv, NEW t \in Task, NEW u \in Task, Chaining(t), Chaining(u), P(t) = P(u)
    PROVE  t = u
BY DEF RefreshInv, InOrder

LEMMA LegalKeeps ==
    ASSUME RefreshInv, NEW t \in Task, Legal(t)
    PROVE  RefreshInv'
<1> USE DEF RefreshInv, Legal, Local, LockInv
<1>0. /\ \A u \in Task : P(u) \in Proc
      /\ \A u \in Task \ {t} : (Slotted(u)' <=> Slotted(u)) /\ (Secured(u)' <=> Secured(u))
                               /\ (Chaining(u)' <=> Chaining(u)) /\ (Exchanging(u)' <=> Exchanging(u))
                               /\ (Holds(Own(u))' <=> Holds(Own(u)))
  BY RefreshAssumption DEF P, Slotted, Secured, Chaining, Exchanging, Holds
<1>1. \A u \in Task : InOrder(u)'
  BY <1>0 DEF InOrder
<1>2. SlotCounted'
  <2> USE DEF SlotCounted
  <2>1. CASE (Slotted(t)' <=> Slotted(t)) /\ UNCHANGED inflight
    BY <1>0, <2>1
  <2>2. CASE /\ ~Slotted(t) /\ Chaining(t) /\ Slotted(t)'
             /\ inflight' = [inflight EXCEPT ![P(t)] = @ + 1]
    <3>1. \A u \in Task : P(u) = P(t) => ~Slotted(u)
      BY <2>2, OneChain DEF Chaining, Secured
    <3>2. inflight[P(t)] = 0
      BY <1>0, <3>1
    <3> QED BY <1>0, <2>2, <3>1, <3>2
  <2>3. CASE Slotted(t) /\ ~Slotted(t)' /\ inflight' = [inflight EXCEPT ![P(t)] = @ - 1]
    <3>1. \A u \in Task \ {t} : Slotted(u) => P(u) # P(t)
      BY <2>3, OneChain DEF Chaining, Secured
    <3>2. inflight[P(t)] = 1
      BY <2>3
    <3> QED BY <1>0, <2>3, <3>1, <3>2
  <2> QED BY <2>1, <2>2, <2>3 DEF SlotStep
<1>3. NoExchangeIntoSuspend'
  BY <1>0 DEF NoExchangeIntoSuspend, GateStep, gated, P
<1> QED BY <1>1, <1>2, <1>3

-----------------------------------------------------------------------------
(* What the steps have in common.                                          *)

LEMMA RestIsChain == Rest \in Chain /\ NoVerdict \in [key : 0..MaxGen, sticky : BOOLEAN, aged : BOOLEAN]
BY RefreshAssumption DEF Rest, Chain, PC, Reason, NoVerdict

\* A chain that returns leaves everything of the other tasks as it was.
LEMMA FinishIsLocal ==
    ASSUME RefreshInv, NEW t \in Task, Finish(t)
    PROVE  /\ Local(t) /\ InOrder(t)'
           /\ ch'[t] = Rest /\ ~Slotted(t)' /\ ~Exchanging(t)' /\ ~Chaining(t)'
<1> USE DEF RefreshInv, Finish
<1>1. LockInv'
  BY DropKeeps DEF LockInv
<1>2. ChainType' /\ ch'[t] = Rest /\ \A u \in Task \ {t} : ch'[u] = ch[u]
  BY RestIsChain DEF ChainType
<1>3. \A u \in Task \ {t} : guard'[Own(u)] = guard[Own(u)]
  BY OwnHandles DEF Drop
<1>4. \A u \in Task \ {t} : mutex[P(u)] = u => mutex'[P(u)] = u
  BY DEF ChainType
<1>5. ~Slotted(t)' /\ ~Exchanging(t)' /\ ~Chaining(t)'
  BY <1>2 DEF Rest, Slotted, Exchanging, Chaining, Secured
<1>6. InOrder(t)'
  BY <1>2, <1>5 DEF InOrder, Rest, Chaining
<1> QED BY <1>1, <1>2, <1>3, <1>4, <1>5, <1>6 DEF Local

\* A chain returns, with its slot given back if it had one.
LEMMA EndIsLegal ==
    ASSUME RefreshInv, NEW t \in Task, Finish(t), DataType', RestType', UNCHANGED power,
           \/ ~Slotted(t) /\ UNCHANGED inflight
           \/ Slotted(t) /\ DropSlot(t)
    PROVE  Legal(t)
BY FinishIsLocal DEF Legal, SlotStep, GateStep, DropSlot

\* A step inside the chain, with the mutex and the lock as they are.
LEMMA InnerIsLegal ==
    ASSUME RefreshInv, NEW t \in Task, NEW new \in Chain, ch' = [ch EXCEPT ![t] = new],
           UNCHANGED <<guard, mutex>>, DataType', RestType', InOrder(t)', SlotStep(t), GateStep(t)
    PROVE  Legal(t)
<1>1. LockInv'
  BY DEF RefreshInv, LockInv, GuardTypeOK, OneLive, NoneBroken
<1>2. ChainType' /\ \A u \in Task \ {t} : ch'[u] = ch[u]
  BY DEF RefreshInv, ChainType
<1> QED BY <1>1, <1>2 DEF Legal, Local

\* Adopting the credential on disk, or ending a flow, keeps the types.
LEMMA AdoptTypes ==
    ASSUME DataType, NEW p \in Proc, Adopt(p)
    PROVE  DataType'
BY RestIsChain DEF DataType, Adopt

LEMMA SameTypes ==
    /\ DataType /\ UNCHANGED dataVars => DataType'
    /\ RestType /\ UNCHANGED <<budget, power, idpVars, enrich, hist>> => RestType'
BY DEF DataType, dataVars, RestType, idpVars

LEMMA TransientTypes ==
    ASSUME DataType, ChainType, NEW t \in Task, FinishTransient(t)
    PROVE  DataType'
<1>1. ch[t].flow \in 0..MaxGen /\ P(t) \in Proc
  BY RefreshAssumption DEF ChainType, Chain, P
<1> QED BY <1>1, RestIsChain DEF DataType, FinishTransient, dataVars

LEMMA DiskOrMem ==
    ASSUME DataType, NEW p \in Proc, NEW r
    PROVE  resolve_refresh_credential(p, r) \in 0..MaxGen
BY RefreshAssumption DEF DataType, resolve_refresh_credential, expired_auth, current

-----------------------------------------------------------------------------
(* The steps one by one.                                                   *)

\* What the proofs below keep using about a task.
Context(t) ==
    /\ RefreshInv /\ P(t) \in Proc /\ ch[t] \in Chain /\ InOrder(t)
    /\ DataType /\ RestType /\ ChainType

LEMMA InContext ==
    ASSUME RefreshInv, NEW t \in Task
    PROVE  Context(t)
BY RefreshAssumption DEF RefreshInv, ChainType, P, Context

\* Move changes the pc and nothing else of the chain.
LEMMA MoveIs ==
    ASSUME NEW t \in Task, Context(t), NEW pc \in PC, Move(t, pc)
    PROVE  \E new \in Chain : /\ ch' = [ch EXCEPT ![t] = new] /\ ch'[t] = new
                              /\ new.pc = pc /\ new.cred = ch[t].cred
<1> DEFINE new == [ch[t] EXCEPT !.pc = pc]
<1>1. new \in Chain /\ new.pc = pc /\ new.cred = ch[t].cred
  BY DEF Context, Chain
<1>2. ch' = [ch EXCEPT ![t] = new] /\ ch'[t] = new
  BY DEF Context, ChainType, Move
<1> QED BY <1>1, <1>2

LEMMA TakeMutexLegal ==
    ASSUME RefreshInv, NEW t \in Task, TakeMutex(t)
    PROVE  Legal(t)
<1> USE InContext DEF TakeMutex
<1>1. DataType' /\ RestType' /\ UNCHANGED <<power, inflight>>
  BY SameTypes DEF Context, sleepVars
<1>2. ~Slotted(t)
  BY DEF Slotted
<1>3. CASE Finish(t)
  BY <1>1, <1>2, <1>3, EndIsLegal
<1>4. CASE /\ mutex' = [mutex EXCEPT ![P(t)] = t]
           /\ ch' = [ch EXCEPT ![t].pc = "lock", ![t].pre = 0]
           /\ Lock(Own(t))
  <2> DEFINE new == [ch[t] EXCEPT !.pc = "lock", !.pre = 0]
  <2>0. new \in Chain
    <3>1. 0 \in 0..MaxGen /\ "lock" \in PC /\ ch[t] \in Chain
      BY RefreshAssumption DEF PC, Context
    <3> QED BY ONLY <3>1 DEF Chain
  <2>1. new \in Chain /\ ch' = [ch EXCEPT ![t] = new] /\ ch'[t] = new
    BY <1>4, <2>0 DEF Context, ChainType
  <2>2. new.pc = "lock"
    BY DEF Context, Chain
  <2> HIDE DEF new
  <2>3. ~Slotted(t)' /\ ~Secured(t)' /\ ~Exchanging(t)'
    BY <2>1, <2>2 DEF Slotted, Secured, Exchanging
  <2>4. mutex'[P(t)] = t
    BY <1>4 DEF Context, ChainType
  <2>5. InOrder(t)'
    BY <2>1, <2>2, <2>3, <2>4 DEF InOrder
  <2>6. LockInv'
    BY <1>4, HandleStepKeeps, OwnHandles DEF HandleStep, RefreshInv, LockInv
  <2>7. \A u \in Task \ {t} : guard'[Own(u)] = guard[Own(u)]
    BY <1>4, OwnHandles DEF Lock, Put, RefreshInv, LockInv, GuardTypeOK
  <2>8. \A u \in Task \ {t} : mutex[P(u)] = u => mutex'[P(u)] = u
    BY <1>4, RefreshAssumption DEF Context, ChainType
  <2>9. ChainType' /\ \A u \in Task \ {t} : ch'[u] = ch[u]
    BY <1>4, <2>1 DEF Context, ChainType
  <2> QED BY <1>1, <1>2, <2>3, <2>5, <2>6, <2>7, <2>8, <2>9 DEF Legal, Local, SlotStep, GateStep
<1> QED BY <1>3, <1>4

LEMMA AfterLockLegal ==
    ASSUME RefreshInv, NEW t \in Task, AfterLock(t)
    PROVE  Legal(t)
<1>0. Context(t)
  BY InContext
<1>1. RestType' /\ UNCHANGED <<power, inflight>>
  BY <1>0, SameTypes DEF Context, sleepVars, AfterLock
<1>2. ~Slotted(t) /\ mutex[P(t)] = t
  BY <1>0 DEF AfterLock, Slotted, Context, InOrder, Chaining
<1>3. CASE FinishAdopt(t)
  BY <1>0, <1>1, <1>2, <1>3, EndIsLegal, AdoptTypes DEF FinishAdopt, Context
<1>4. CASE FinishTransient(t)
  <2>1. DataType'
    BY <1>0, <1>4, TransientTypes DEF Context
  <2> QED BY <1>1, <1>2, <1>4, <2>1, EndIsLegal DEF FinishTransient
<1>5. CASE Holds(Own(t)) /\ Move(t, "revalidate") /\ UNCHANGED <<guard, dataVars, mutex>>
  <2>1. DataType'
    BY <1>0, <1>5, SameTypes DEF Context
  <2>2. PICK new \in Chain : ch' = [ch EXCEPT ![t] = new] /\ ch'[t] = new /\ new.pc = "revalidate"
    BY <1>0, <1>5, MoveIs DEF PC
  <2>3. ~Slotted(t)' /\ ~Exchanging(t)'
    BY <2>2 DEF Slotted, Exchanging
  <2>4. InOrder(t)'
    BY <1>2, <1>5, <2>2 DEF InOrder, Holds
  <2> QED BY <1>1, <1>2, <1>5, <2>1, <2>2, <2>3, <2>4, InnerIsLegal DEF SlotStep, GateStep
<1> QED BY <1>3, <1>4, <1>5 DEF AfterLock, LockTimedOut

LEMMA RevalidateLegal ==
    ASSUME RefreshInv, NEW t \in Task, Revalidate(t)
    PROVE  Legal(t)
<1> USE InContext DEF Revalidate
<1>1. DataType' /\ RestType' /\ UNCHANGED <<power, inflight>>
  BY SameTypes DEF Context, sleepVars
<1>2. ~Slotted(t) /\ mutex[P(t)] = t /\ mutex' = mutex /\ Holds(Own(t))
  BY DEF Slotted, Context, InOrder, Chaining, Secured
<1>3. CASE guard[Own(t)] = "live" /\ Move(t, "claim") /\ UNCHANGED guard
  <2>2. PICK new \in Chain : ch' = [ch EXCEPT ![t] = new] /\ ch'[t] = new /\ new.pc = "claim"
    BY <1>3, MoveIs DEF PC
  <2>3. ~Slotted(t)' /\ ~Exchanging(t)'
    BY <2>2 DEF Slotted, Exchanging
  <2>4. InOrder(t)'
    BY <1>2, <1>3, <2>2 DEF InOrder, Holds
  <2> QED BY <1>1, <1>2, <1>3, <2>2, <2>3, <2>4, InnerIsLegal DEF SlotStep, GateStep
<1>4. CASE guard[Own(t)] = "broken" /\ Move(t, "relock") /\ Put(Own(t), "waits")
  <2>2. PICK new \in Chain : ch' = [ch EXCEPT ![t] = new] /\ ch'[t] = new /\ new.pc = "relock"
    BY <1>4, MoveIs DEF PC
  <2>3. ~Slotted(t)' /\ ~Exchanging(t)' /\ ~Secured(t)'
    BY <2>2 DEF Slotted, Exchanging, Secured
  <2>4. InOrder(t)'
    BY <1>2, <2>2, <2>3 DEF InOrder
  <2>5. LockInv' /\ \A u \in Task \ {t} : guard'[Own(u)] = guard[Own(u)]
    BY <1>4, OwnHandles DEF RefreshInv, LockInv, GuardTypeOK, OneLive, NoneBroken, Put, Use
  <2>6. ChainType' /\ \A u \in Task \ {t} : ch'[u] = ch[u]
    BY <1>2, <2>2 DEF Context, ChainType
  <2> QED BY <1>1, <1>2, <2>3, <2>4, <2>5, <2>6 DEF Legal, Local, SlotStep, GateStep
<1> QED BY <1>3, <1>4

LEMMA AfterRelockLegal ==
    ASSUME RefreshInv, NEW t \in Task, AfterRelock(t)
    PROVE  Legal(t)
<1>0. Context(t)
  BY InContext
<1>1. RestType' /\ UNCHANGED <<power, inflight>>
  BY <1>0, SameTypes DEF Context, sleepVars, AfterRelock
<1>2. ~Slotted(t) /\ mutex[P(t)] = t
  BY <1>0 DEF AfterRelock, Slotted, Context, InOrder, Chaining
<1>3. CASE FinishAdopt(t)
  BY <1>0, <1>1, <1>2, <1>3, EndIsLegal, AdoptTypes DEF FinishAdopt, Context
<1>4. CASE FinishTransient(t)
  <2>1. DataType'
    BY <1>0, <1>4, TransientTypes DEF Context
  <2> QED BY <1>1, <1>2, <1>4, <2>1, EndIsLegal DEF FinishTransient
<1>5. CASE Holds(Own(t)) /\ Move(t, "claim") /\ UNCHANGED <<guard, dataVars, mutex>>
  <2>1. DataType'
    BY <1>0, <1>5, SameTypes DEF Context
  <2>2. PICK new \in Chain : ch' = [ch EXCEPT ![t] = new] /\ ch'[t] = new /\ new.pc = "claim"
    BY <1>0, <1>5, MoveIs DEF PC
  <2>3. ~Slotted(t)' /\ ~Exchanging(t)'
    BY <2>2 DEF Slotted, Exchanging
  <2>4. InOrder(t)'
    BY <1>2, <1>5, <2>2 DEF InOrder, Holds
  <2> QED BY <1>1, <1>2, <1>5, <2>1, <2>2, <2>3, <2>4, InnerIsLegal DEF SlotStep, GateStep
<1> QED BY <1>3, <1>4, <1>5 DEF AfterRelock

\* A step of a chain that holds the lock already.
LEMMA SecuredIsLegal ==
    ASSUME RefreshInv, NEW t \in Task, Secured(t), NEW new \in Chain,
           ch' = [ch EXCEPT ![t] = new], new.cred # 0 \/ new.pc = "gate",
           UNCHANGED <<guard, mutex, power>>, DataType', RestType', SlotStep(t),
           Exchanging(t)' => Exchanging(t) \/ ~gated(P(t))
    PROVE  Legal(t)
<1>1. mutex'[P(t)] = t /\ Holds(Own(t))'
  BY DEF RefreshInv, InOrder, Chaining, Holds
<1>2. ch'[t] = new
  BY DEF RefreshInv, ChainType
<1>3. InOrder(t)'
  BY <1>1, <1>2 DEF InOrder
<1> QED BY <1>3, InnerIsLegal DEF GateStep

LEMMA EditIs ==
    ASSUME NEW t \in Task, ch \in [Task -> Chain], NEW pc, NEW c, NEW d
    PROVE  /\ [ch EXCEPT ![t].pc = pc, ![t].cred = c]
                = [ch EXCEPT ![t] = [ch[t] EXCEPT !.pc = pc, !.cred = c]]
           /\ [ch EXCEPT ![t].pc = pc, ![t].cred = c, ![t].retried = TRUE]
                = [ch EXCEPT ![t] = [ch[t] EXCEPT !.pc = pc, !.cred = c, !.retried = TRUE]]
           /\ [ch EXCEPT ![t].pc = pc, ![t].discard = d]
                = [ch EXCEPT ![t] = [ch[t] EXCEPT !.pc = pc, !.discard = d]]
<1>1. [ch EXCEPT ![t].pc = pc] = [ch EXCEPT ![t] = [ch[t] EXCEPT !.pc = pc]]
  OBVIOUS
<1> QED BY <1>1

LEMMA ClaimSlotLegal ==
    ASSUME RefreshInv, NEW t \in Task, ClaimSlot(t)
    PROVE  Legal(t)
<1>0. Context(t)
  BY InContext
<1>1. DataType' /\ RestType' /\ UNCHANGED <<guard, mutex, power>>
  BY <1>0, SameTypes DEF Context, ClaimSlot
<1>2. PICK new \in Chain : ch' = [ch EXCEPT ![t] = new] /\ ch'[t] = new /\ new.pc = "gate"
  BY <1>0, MoveIs DEF PC, ClaimSlot
<1>3. Secured(t) /\ Chaining(t) /\ ~Slotted(t)
  BY DEF ClaimSlot, Secured, Chaining, Slotted
<1>4. SlotStep(t) /\ ~Exchanging(t)'
  BY <1>2, <1>3 DEF SlotStep, Slotted, ClaimSlot, Exchanging
<1> QED BY <1>1, <1>2, <1>3, <1>4, SecuredIsLegal

LEMMA FullBudgetTypes ==
    ASSUME NEW t \in Task, Context(t), FullBudget(P(t)) \/ UNCHANGED budget,
           UNCHANGED <<power, idpVars, enrich, hist>>
    PROVE  RestType'
<1>1. 0 \in 0..MaxGen /\ 0 \in 0..MaxTransient
  BY RefreshAssumption
<1> QED BY <1>1 DEF Context, RestType, FullBudget, idpVars

LEMMA RefreshLegal ==
    ASSUME RefreshInv, NEW t \in Task, Refresh(t)
    PROVE  Legal(t)
<1> DEFINE sibling == Usable(disk) /\ current(P(t)) # disk
           cred == resolve_refresh_credential(P(t), ch[t].reason)
<1>0. Context(t)
  BY InContext
<1>1. ch[t].pc = "gate" /\ UNCHANGED <<idpVars, enrich, hist>>
  BY DEF Refresh
<1>2. Secured(t) /\ Chaining(t) /\ Slotted(t) /\ ~Exchanging(t)
  BY <1>1 DEF Secured, Chaining, Slotted, Exchanging
<1>3. CASE FinishTransient(t) /\ DropSlot(t) /\ UNCHANGED budget
  <2>1. DataType'
    BY <1>0, <1>3, TransientTypes DEF Context
  <2>2. RestType' /\ UNCHANGED power
    BY <1>0, <1>1, <1>3, SameTypes DEF Context, DropSlot
  <2> QED BY <1>2, <1>3, <2>1, <2>2, EndIsLegal DEF FinishTransient
<1>4. CASE /\ ~gated(P(t)) /\ sibling
           /\ ch' = [ch EXCEPT ![t].pc = "apply", ![t].cred = disk]
           /\ FullBudget(P(t)) /\ DropSlot(t)
           /\ UNCHANGED <<guard, dataVars, mutex>>
  <2> DEFINE new == [ch[t] EXCEPT !.pc = "apply", !.cred = disk]
  <2>1. ch' = [ch EXCEPT ![t] = new] /\ ch'[t] = new
    BY <1>0, <1>4, EditIs DEF Context, ChainType
  <2>2. new \in Chain /\ new.pc = "apply" /\ new.cred = disk
    <3>1. "apply" \in PC /\ disk \in 0..MaxGen /\ ch[t] \in Chain
      BY <1>0 DEF PC, Context, DataType
    <3> QED BY ONLY <3>1 DEF Chain
  <2> HIDE DEF new
  <2>3. disk # 0
    BY <1>4 DEF Usable
  <2>4. DataType' /\ RestType' /\ UNCHANGED power
    BY <1>0, <1>1, <1>4, SameTypes, FullBudgetTypes DEF Context, DropSlot
  <2>5. SlotStep(t) /\ ~Exchanging(t)'
    BY <1>2, <1>4, <2>1, <2>2 DEF SlotStep, Slotted, DropSlot, Exchanging
  <2> QED BY <1>2, <1>4, <2>1, <2>2, <2>3, <2>4, <2>5, SecuredIsLegal
<1>5. CASE /\ ~gated(P(t)) /\ ~sibling /\ cred # 0
           /\ ch' = [ch EXCEPT ![t].pc = "exchange", ![t].cred = cred]
           /\ UNCHANGED <<guard, dataVars, budget, sleepVars, mutex>>
  <2> DEFINE new == [ch[t] EXCEPT !.pc = "exchange", !.cred = cred]
  <2>0. cred \in 0..MaxGen
    BY <1>0, DiskOrMem DEF Context
  <2>1. ch' = [ch EXCEPT ![t] = new] /\ ch'[t] = new
    BY <1>0, <1>5, EditIs DEF Context, ChainType
  <2>2. new \in Chain /\ new.pc = "exchange" /\ new.cred = cred
    <3>1. "exchange" \in PC /\ ch[t] \in Chain
      BY <1>0 DEF PC, Context
    <3> HIDE DEF cred
    <3> QED BY ONLY <2>0, <3>1 DEF Chain
  <2> HIDE DEF new
  <2>4. DataType' /\ RestType' /\ UNCHANGED power
    BY <1>0, <1>1, <1>5, SameTypes DEF Context, sleepVars
  <2>5. SlotStep(t)
    BY <1>2, <1>5, <2>1, <2>2 DEF SlotStep, Slotted, sleepVars
  <2> QED BY <1>2, <1>5, <2>1, <2>2, <2>4, <2>5, SecuredIsLegal
<1> QED BY <1>3, <1>4, <1>5 DEF Refresh

LEMMA IdpAnswerLegal ==
    ASSUME RefreshInv, NEW t \in Task, IdpAnswer(t)
    PROVE  Legal(t)
<1>0. Context(t) /\ ch[t].cred \in Gen /\ issued \in Gen
  BY InContext DEF Context, InOrder, IdpAnswer, Chain, Gen, RestType
<1>1. DataType' /\ UNCHANGED <<guard, mutex, power, inflight, budget, enrich>> /\ ch[t].pc = "exchange"
  BY <1>0, SameTypes DEF Context, IdpAnswer, sleepVars
<1>2. Secured(t) /\ Chaining(t) /\ Slotted(t) /\ Exchanging(t) /\ ch[t].cred # 0
  BY <1>0, <1>1 DEF Secured, Chaining, Slotted, Exchanging, Gen
<1>3. RestType'
  <2>1. CASE UNCHANGED <<idpVars, hist>>
    BY <1>0, <1>1, <2>1, SameTypes DEF Context
  <2>2. CASE /\ issued < MaxGen /\ spent' = spent \cup {ch[t].cred} /\ issued' = issued + 1
             /\ hist' = hist \/ hist' = [hist EXCEPT !.lost = @ \cup {issued + 1}]
    <3>1. issued + 1 \in Gen
      BY <1>0, <2>2, RefreshAssumption DEF Gen
    <3>2. hist' \in [rejected : [Proc -> SUBSET Gen], lost : SUBSET Gen, unguarded : BOOLEAN]
      BY <1>0, <2>2, <3>1 DEF Context, RestType
    <3> QED BY <1>0, <1>1, <2>2, <3>1, <3>2 DEF Context, RestType
  <2> QED BY <2>1, <2>2 DEF IdpAnswer
<1>4. \E new \in Chain : /\ ch' = [ch EXCEPT ![t] = new] /\ ch'[t] = new /\ new.cred # 0
                         /\ new.pc \in {"granted", "rejected", "failed", "refused"}
  <2>1. ASSUME NEW pc \in {"rejected", "failed", "refused"}, Move(t, pc) PROVE <1>4!:
    BY <1>0, <1>2, <2>1, MoveIs DEF PC
  <2>2. CASE /\ issued < MaxGen
             /\ ch' = [ch EXCEPT ![t].pc = "granted", ![t].cred = issued + 1]
    <3> DEFINE new == [ch[t] EXCEPT !.pc = "granted", !.cred = issued + 1]
    <3>1. issued + 1 \in 0..MaxGen /\ issued + 1 # 0
      BY <1>0, <2>2, RefreshAssumption DEF Gen
    <3>2. new \in Chain /\ new.pc = "granted" /\ new.cred = issued + 1
      <4>1. "granted" \in PC /\ ch[t] \in Chain
        BY <1>0 DEF PC, Context
      <4> QED BY ONLY <3>1, <4>1 DEF Chain
    <3>3. ch' = [ch EXCEPT ![t] = new] /\ ch'[t] = new
      BY <1>0, <2>2, EditIs DEF Context, ChainType
    <3> QED BY <3>1, <3>2, <3>3
  <2> QED BY <2>1, <2>2 DEF IdpAnswer
<1>5. PICK new \in Chain : /\ ch' = [ch EXCEPT ![t] = new] /\ ch'[t] = new /\ new.cred # 0
                           /\ new.pc \in {"granted", "rejected", "failed", "refused"}
  BY <1>4
<1>6. SlotStep(t)
  BY <1>1, <1>2, <1>5 DEF SlotStep, Slotted
<1> QED BY <1>1, <1>2, <1>3, <1>5, <1>6, SecuredIsLegal

LEMMA ReceiveGrantLegal ==
    ASSUME RefreshInv, NEW t \in Task, ReceiveGrant(t)
    PROVE  Legal(t)
<1>0. Context(t)
  BY InContext
<1>1. ch[t].pc = "granted" /\ UNCHANGED <<guard, mutex, power, dataVars, idpVars, enrich, hist>>
  BY DEF ReceiveGrant, DropSlot
<1>2. Secured(t) /\ Slotted(t) /\ ch[t].cred # 0
  BY <1>0, <1>1 DEF Secured, Slotted, Context, InOrder
<1>3. PICK new \in Chain : /\ ch' = [ch EXCEPT ![t] = new] /\ ch'[t] = new
                           /\ new.pc = "apply" /\ new.cred # 0
  BY <1>0, <1>2, MoveIs DEF PC, ReceiveGrant
<1>4. DataType' /\ RestType'
  BY <1>0, <1>1, SameTypes, FullBudgetTypes DEF Context, ReceiveGrant
<1>5. SlotStep(t) /\ ~Exchanging(t)'
  BY <1>2, <1>3 DEF SlotStep, Slotted, Exchanging, ReceiveGrant, DropSlot
<1> QED BY <1>1, <1>2, <1>3, <1>4, <1>5, SecuredIsLegal

LEMMA ReceiveRejectedLegal ==
    ASSUME RefreshInv, NEW t \in Task, ReceiveRejected(t)
    PROVE  Legal(t)
<1>0. Context(t) /\ disk \in 0..MaxGen /\ ch[t].cred \in 0..MaxGen
  BY InContext DEF Context, DataType, Chain
<1>1. ch[t].pc = "rejected" /\ UNCHANGED <<guard, mutex, power, dataVars, idpVars, enrich>>
  BY DEF ReceiveRejected, DropSlot, sleepVars
<1>2. Secured(t) /\ Slotted(t) /\ Exchanging(t) /\ ch[t].cred # 0
  BY <1>0, <1>1 DEF Secured, Slotted, Exchanging, Context, InOrder
<1>3. DataType' /\ RestType'
  <2>1. hist' \in [rejected : [Proc -> SUBSET Gen], lost : SUBSET Gen, unguarded : BOOLEAN]
    <3>1. ch[t].cred \in Gen
      BY <1>0, <1>2 DEF Gen
    <3>2. hist \in [rejected : [Proc -> SUBSET Gen], lost : SUBSET Gen, unguarded : BOOLEAN]
      BY <1>0 DEF Context, RestType
    <3> QED BY <3>1, <3>2 DEF ReceiveRejected
  <2>2. budget' \in [Proc -> [key : 0..MaxGen, count : 0..MaxTransient]]
    BY <1>0, RefreshAssumption DEF Context, RestType, ReceiveRejected, FullBudget
  <2> QED BY <1>0, <1>1, <2>1, <2>2, SameTypes DEF Context, RestType, idpVars
<1>4. CASE /\ Usable(disk) /\ ch' = [ch EXCEPT ![t].pc = "apply", ![t].cred = disk] /\ DropSlot(t)
  <2> DEFINE new == [ch[t] EXCEPT !.pc = "apply", !.cred = disk]
  <2>1. ch' = [ch EXCEPT ![t] = new] /\ ch'[t] = new
    BY <1>0, <1>4, EditIs DEF Context, ChainType
  <2>2. new \in Chain /\ new.pc = "apply" /\ new.cred = disk /\ disk # 0
    <3>1. "apply" \in PC /\ ch[t] \in Chain /\ disk # 0
      BY <1>0, <1>4 DEF PC, Context, Usable
    <3> QED BY ONLY <1>0, <3>1 DEF Chain
  <2> HIDE DEF new
  <2>3. SlotStep(t) /\ ~Exchanging(t)'
    BY <1>2, <1>4, <2>1, <2>2 DEF SlotStep, Slotted, Exchanging, DropSlot
  <2> QED BY <1>1, <1>2, <1>3, <2>1, <2>2, <2>3, SecuredIsLegal
<1>5. CASE /\ refresh_token_superseded(ch[t].cred) /\ UNCHANGED <<budget, sleepVars>>
           /\ ch' = [ch EXCEPT ![t].pc = "exchange", ![t].cred = disk, ![t].retried = TRUE]
  <2> DEFINE new == [ch[t] EXCEPT !.pc = "exchange", !.cred = disk, !.retried = TRUE]
  <2>1. ch' = [ch EXCEPT ![t] = new] /\ ch'[t] = new
    BY <1>0, <1>5, EditIs DEF Context, ChainType
  <2>2. new \in Chain /\ new.pc = "exchange" /\ new.cred = disk /\ disk # 0
    <3>1. "exchange" \in PC /\ ch[t] \in Chain /\ disk # 0
      BY <1>0, <1>5 DEF PC, Context, refresh_token_superseded
    <3> QED BY ONLY <1>0, <3>1 DEF Chain
  <2> HIDE DEF new
  <2>3. SlotStep(t)
    BY <1>2, <1>5, <2>1, <2>2 DEF SlotStep, Slotted, sleepVars
  <2> QED BY <1>1, <1>2, <1>3, <2>1, <2>2, <2>3, SecuredIsLegal
<1>6. CASE Move(t, "denied") /\ DropSlot(t) /\ UNCHANGED budget
  <2>1. PICK new \in Chain : /\ ch' = [ch EXCEPT ![t] = new] /\ ch'[t] = new
                             /\ new.pc = "denied" /\ new.cred # 0
    BY <1>0, <1>2, <1>6, MoveIs DEF PC
  <2>2. SlotStep(t) /\ ~Exchanging(t)'
    BY <1>2, <1>6, <2>1 DEF SlotStep, Slotted, Exchanging, DropSlot
  <2> QED BY <1>1, <1>2, <1>3, <2>1, <2>2, SecuredIsLegal
<1> QED BY <1>4, <1>5, <1>6 DEF ReceiveRejected

LEMMA RetainTypes ==
    ASSUME NEW t \in Task, Context(t), RetainAndFail(t)
    PROVE  DataType'
<1>1. ch[t].cred \in 0..MaxGen /\ P(t) \in Proc /\ DataType
  BY DEF Context, Chain
<1>2. CASE Adopt(P(t))
  BY <1>1, <1>2, AdoptTypes
<1>3. CASE /\ verdict' = [verdict EXCEPT ![P(t)] =
                            [key |-> ch[t].cred, sticky |-> FALSE, aged |-> FALSE]]
           /\ UNCHANGED <<disk, mem, expired>>
  BY <1>1, <1>3 DEF DataType
<1> QED BY <1>2, <1>3 DEF RetainAndFail

LEMMA ReceiveRefusedLegal ==
    ASSUME RefreshInv, NEW t \in Task, ReceiveRefused(t)
    PROVE  Legal(t)
<1>0. Context(t)
  BY InContext
<1>1. DataType' /\ RestType' /\ UNCHANGED power
  BY <1>0, RetainTypes, SameTypes DEF ReceiveRefused, DropSlot, Context
<1>2. Slotted(t)
  BY DEF Slotted, ReceiveRefused
<1> QED BY <1>1, <1>2, EndIsLegal DEF ReceiveRefused, RetainAndFail

LEMMA ReceiveFailedLegal ==
    ASSUME RefreshInv, NEW t \in Task, ReceiveFailed(t)
    PROVE  Legal(t)
<1>0. Context(t) /\ ch[t].cred \in 0..MaxGen /\ P(t) \in Proc
  BY InContext DEF Context, Chain
<1>1. Slotted(t) /\ DropSlot(t) /\ UNCHANGED power
  BY DEF Slotted, ReceiveFailed, DropSlot
<1>2. Finish(t) /\ DataType'
  BY <1>0, TransientTypes, RetainTypes DEF ReceiveFailed, FinishTransient, RetainAndFail, Context
<1>3. RestType'
  <2>1. budget \in [Proc -> [key : 0..MaxGen, count : 0..MaxTransient]]
    BY <1>0 DEF Context, RestType
  <2>2. Blips(t) \in Nat
    BY <1>0, <2>1, RefreshAssumption DEF Blips
  <2>3. \/ Blips(t) \in 0..MaxTransient /\ Charge(t)
        \/ FullBudget(P(t)) \/ UNCHANGED budget
    BY <2>2, RefreshAssumption DEF ReceiveFailed
  <2>4. budget' \in [Proc -> [key : 0..MaxGen, count : 0..MaxTransient]]
    BY <1>0, <2>1, <2>3, RefreshAssumption DEF Charge, FullBudget
  <2> QED BY <1>0, <1>1, <2>4 DEF Context, RestType, ReceiveFailed, idpVars
<1> QED BY <1>1, <1>2, <1>3, EndIsLegal

LEMMA ApplyLegal ==
    ASSUME RefreshInv, NEW t \in Task, Apply(t)
    PROVE  Legal(t)
<1>0. /\ Context(t) /\ ch[t].cred \in Gen /\ ch[t].flow \in 0..MaxGen /\ P(t) \in Proc
      /\ ch[t].cred \in 0..MaxGen
  BY InContext DEF Context, Chain, InOrder, Apply, Gen
<1>1. Finish(t) /\ UNCHANGED <<power, inflight>> /\ ~Slotted(t)
  BY DEF Slotted, Apply, sleepVars
<1>2. DataType'
  BY <1>0, RestIsChain DEF Context, DataType, Apply
<1>3. RestType'
  BY <1>0 DEF Context, RestType, Apply, idpVars, sleepVars
<1> QED BY <1>1, <1>2, <1>3, EndIsLegal

LEMMA ApplyRejectedLegal ==
    ASSUME RefreshInv, NEW t \in Task, ApplyRejected(t)
    PROVE  Legal(t)
<1>0. Context(t) /\ ch[t].cred \in 0..MaxGen /\ P(t) \in Proc /\ ch[t].cred # 0 /\ ch[t] \in Chain
  BY InContext DEF Context, Chain, InOrder, ApplyRejected
<1>1. /\ UNCHANGED <<power, inflight>> /\ ~Slotted(t) /\ Secured(t)
      /\ RestType' /\ ch[t].pc = "denied"
  BY <1>0, SameTypes DEF Slotted, Secured, ApplyRejected, sleepVars, Context
<1>2. CASE FinishAdopt(t)
  BY <1>0, <1>1, <1>2, AdoptTypes, EndIsLegal DEF FinishAdopt, Context
<1>3. CASE FinishTransient(t)
  <2>1. DataType' /\ Finish(t)
    BY <1>0, <1>3, TransientTypes DEF Context, FinishTransient
  <2> QED BY <1>1, <2>1, EndIsLegal
<1>4. CASE /\ verdict' = [verdict EXCEPT ![P(t)] =
                           [key |-> ch[t].cred, sticky |-> TRUE, aged |-> FALSE]]
           /\ ch' = [ch EXCEPT ![t].pc = "clear", ![t].discard = Discarded(t)]
           /\ UNCHANGED <<guard, disk, mem, expired, mutex>>
  <2> DEFINE new == [ch[t] EXCEPT !.pc = "clear", !.discard = Discarded(t)]
  <2>1. ch' = [ch EXCEPT ![t] = new] /\ ch'[t] = new
    BY <1>0, <1>4, EditIs DEF Context, ChainType
  <2>2. new \in Chain /\ new.pc = "clear" /\ new.cred = ch[t].cred
    <3>1. "clear" \in PC /\ Discarded(t) \in SUBSET {"mem", "disk"}
      BY DEF PC, Discarded
    <3> QED BY ONLY <1>0, <3>1 DEF Chain
  <2> HIDE DEF new
  <2>3. DataType'
    BY <1>0, <1>4 DEF Context, DataType
  <2>4. SlotStep(t) /\ ~Exchanging(t)'
    BY <1>1, <2>1, <2>2 DEF SlotStep, Slotted, Exchanging
  <2> QED BY <1>0, <1>1, <1>4, <2>1, <2>2, <2>3, <2>4, SecuredIsLegal
<1> QED BY <1>2, <1>3, <1>4 DEF ApplyRejected

LEMMA ClearLegal ==
    ASSUME RefreshInv, NEW t \in Task, Clear(t)
    PROVE  Legal(t)
<1>0. Context(t) /\ P(t) \in Proc
  BY InContext DEF Context
<1>1. /\ Finish(t) /\ UNCHANGED <<power, inflight>> /\ ~Slotted(t) /\ RestType'
  BY <1>0, SameTypes DEF Slotted, Clear, sleepVars, Context
<1>2. DataType'
  BY <1>0, RefreshAssumption DEF Context, DataType, Clear
<1> QED BY <1>1, <1>2, EndIsLegal

LEMMA LogoutLegal ==
    ASSUME RefreshInv, NEW t \in Task, Logout(t)
    PROVE  Legal(t)
<1>0. Context(t) /\ P(t) \in Proc
  BY InContext DEF Context
<1>1. /\ Finish(t) /\ UNCHANGED <<power, inflight, idpVars, budget, enrich, expired>> /\ ~Slotted(t)
  BY <1>0 DEF Slotted, Logout, sleepVars
<1>2. DataType'
  <2>1. PICK ok \in Written :
         IF Holds(Own(t)) /\ ~ok
           THEN UNCHANGED <<disk, mem, verdict>>
           ELSE /\ disk' = IF Holds(Own(t)) THEN 0 ELSE disk
                /\ mem' = [mem EXCEPT ![P(t)] = 0]
                /\ verdict' = [verdict EXCEPT ![P(t)] = NoVerdict]
    BY DEF Logout
  <2>2. CASE UNCHANGED <<disk, mem, verdict>>
    BY <1>0, <1>1, <2>2 DEF DataType, Context
  <2>3. CASE ~(Holds(Own(t)) /\ ~ok)
    BY <1>0, <1>1, <2>1, <2>3, RestIsChain, RefreshAssumption DEF DataType, Context
  <2> QED BY <2>1, <2>2, <2>3
<1>3. RestType'
  <2>1. hist' \in [rejected : [Proc -> SUBSET Gen], lost : SUBSET Gen, unguarded : BOOLEAN]
    BY <1>0 DEF Context, RestType, Logout
  <2> QED BY <1>0, <1>1, <2>1 DEF Context, RestType, idpVars
<1> QED BY <1>1, <1>2, <1>3, EndIsLegal

LEMMA EnrichLegal ==
    ASSUME RefreshInv, NEW t \in Task, EnrichRead(t) \/ EnrichWrite(t)
    PROVE  Legal(t)
<1>0. Context(t) /\ P(t) \in Proc /\ ch[t].cred \in 0..MaxGen /\ ch[t].cred # 0
  BY InContext DEF Context, Chain, InOrder, EnrichRead, EnrichWrite
<1>1. UNCHANGED <<power, inflight, idpVars, budget, enrich>> /\ ~Slotted(t)
  BY DEF Slotted, EnrichRead, EnrichWrite, sleepVars
<1>2. DataType'
  BY <1>0, RefreshAssumption, SameTypes DEF Context, DataType, EnrichRead, EnrichWrite
<1>3. RestType'
  <2>1. hist' \in [rejected : [Proc -> SUBSET Gen], lost : SUBSET Gen, unguarded : BOOLEAN]
    <3>1. hist \in [rejected : [Proc -> SUBSET Gen], lost : SUBSET Gen, unguarded : BOOLEAN]
      BY <1>0 DEF Context, RestType
    <3>2. CASE hist' = [hist EXCEPT !.unguarded = @ \/ ~Holds(Own(t))]
      <4>1. (hist.unguarded \/ ~Holds(Own(t))) \in BOOLEAN
        OBVIOUS
      <4> QED BY <3>1, <3>2, <4>1
    <3> QED BY <3>1, <3>2 DEF EnrichRead, EnrichWrite
  <2> QED BY <1>0, <1>1, <2>1 DEF Context, RestType, idpVars
<1>4. CASE Finish(t)
  BY <1>1, <1>2, <1>3, <1>4, EndIsLegal
<1>5. CASE Move(t, "enrich_write") /\ UNCHANGED <<guard, mutex>>
  <2>1. PICK new \in Chain : /\ ch' = [ch EXCEPT ![t] = new] /\ ch'[t] = new
                             /\ new.pc = "enrich_write" /\ new.cred # 0
    BY <1>0, <1>5, MoveIs DEF PC
  <2>2. ~Slotted(t)' /\ ~Exchanging(t)' /\ InOrder(t)'
    BY <2>1 DEF Slotted, Exchanging, InOrder, Chaining, Secured
  <2> QED BY <1>1, <1>2, <1>3, <1>5, <2>1, <2>2, InnerIsLegal DEF SlotStep, GateStep
<1> QED BY <1>4, <1>5 DEF EnrichRead, EnrichWrite

LEMMA FlowLockedLegal ==
    ASSUME RefreshInv, NEW t \in Task, FlowLocked(t)
    PROVE  Legal(t)
<1>0. Context(t) /\ P(t) \in Proc /\ disk \in 0..MaxGen
  BY InContext DEF Context, DataType
<1>1. UNCHANGED <<power, inflight>> /\ ~Slotted(t) /\ RestType'
  BY <1>0, SameTypes DEF Slotted, FlowLocked, sleepVars, Context
<1>2. CASE FinishAdopt(t)
  BY <1>0, <1>1, <1>2, AdoptTypes, EndIsLegal DEF FinishAdopt, Context
<1>3. CASE Finish(t) /\ UNCHANGED dataVars
  BY <1>0, <1>1, <1>3, SameTypes, EndIsLegal DEF Context
<1>4. CASE /\ ch' = [ch EXCEPT ![t] = [Rest EXCEPT !.pc = "mutex", !.flow = disk]]
           /\ UNCHANGED <<guard, dataVars, mutex>>
  <2> DEFINE new == [Rest EXCEPT !.pc = "mutex", !.flow = disk]
  <2>1. new \in Chain /\ new.pc = "mutex"
    <3>1. "mutex" \in PC /\ Rest \in Chain
      BY RestIsChain DEF PC
    <3> QED BY ONLY <1>0, <3>1 DEF Chain
  <2>2. ch' = [ch EXCEPT ![t] = new] /\ ch'[t] = new
    BY <1>0, <1>4 DEF Context, ChainType
  <2> HIDE DEF new
  <2>3. ~Slotted(t)' /\ ~Exchanging(t)' /\ InOrder(t)'
    BY <2>1, <2>2 DEF Slotted, Exchanging, InOrder, Chaining, Secured
  <2>4. DataType'
    BY <1>0, <1>4, SameTypes DEF Context
  <2> QED BY <1>1, <1>4, <2>1, <2>2, <2>3, <2>4, InnerIsLegal DEF SlotStep, GateStep
<1> QED BY <1>2, <1>3, <1>4 DEF FlowLocked

LEMMA LockAnswersLegal ==
    ASSUME RefreshInv, NEW t \in Task, LockAnswers(t)
    PROVE  Legal(t)
<1>0. Context(t)
  BY InContext
<1>1. UNCHANGED <<power, inflight, ch, mutex>> /\ DataType' /\ RestType'
  BY <1>0, SameTypes DEF LockAnswers, sleepVars, Context
<1>2. PICK h \in {Own(t), Outer(t)} : Grant(h) \/ GrantUnlinked(h) \/ Deny(h)
  BY DEF LockAnswers
<1>3. h \in Handle
  BY OwnHandles
<1>4. LockInv'
  BY <1>2, <1>3, HandleStepKeeps DEF HandleStep, RefreshInv, LockInv
<1>5. \A g \in Handle \ {h} : guard'[g] = guard[g]
  BY <1>2, <1>3 DEF Grant, GrantUnlinked, Deny, Put, RefreshInv, LockInv, GuardTypeOK
<1>6. ~Holds(h)
  BY <1>2 DEF Grant, GrantUnlinked, Deny, Holds
<1>7. \A u \in Task \ {t} : guard'[Own(u)] = guard[Own(u)]
  BY <1>5, OwnHandles
<1>8. InOrder(t)'
  <2>1. Holds(Own(t)) => Holds(Own(t))'
    BY <1>5, <1>6, OwnHandles DEF Holds
  <2> QED BY <1>0, <1>1, <2>1 DEF Context, InOrder, Chaining, Secured, Slotted
<1>9. ChainType'
  BY <1>0, <1>1 DEF Context, ChainType
<1> QED BY <1>1, <1>4, <1>7, <1>8, <1>9
        DEF Legal, Local, SlotStep, GateStep, Slotted, Exchanging

\* The activities that start: nothing of the chain is held yet.
LEMMA StartIsLegal ==
    ASSUME RefreshInv, NEW t \in Task, NEW new \in Chain, ch' = [ch EXCEPT ![t] = new],
           ch[t].pc = "idle", new.pc \in {"mutex", "logout", "enrich", "flow"},
           new.pc = "enrich" => new.cred # 0,
           NEW h \in {Own(t), Outer(t)}, Lock(h) \/ TryLock(h) \/ UNCHANGED guard,
           UNCHANGED <<power, inflight, mutex>>, DataType', RestType'
    PROVE  Legal(t)
<1>1. h \in Handle
  BY OwnHandles
<1>2. LockInv'
  <2>1. CASE UNCHANGED guard
    BY <2>1 DEF RefreshInv, LockInv, GuardTypeOK, OneLive, NoneBroken
  <2> QED BY <1>1, <2>1, HandleStepKeeps DEF HandleStep, RefreshInv, LockInv
<1>3. \A u \in Task \ {t} : guard'[Own(u)] = guard[Own(u)]
  BY <1>1, OwnHandles DEF Lock, TryLock, Put, RefreshInv, LockInv, GuardTypeOK
<1>4. ChainType' /\ ch'[t] = new /\ \A u \in Task \ {t} : ch'[u] = ch[u]
  BY DEF RefreshInv, ChainType
<1>5. InOrder(t)' /\ ~Slotted(t)' /\ ~Slotted(t) /\ ~Exchanging(t)'
  BY <1>4 DEF InOrder, Chaining, Secured, Slotted, Exchanging
<1> QED BY <1>2, <1>3, <1>4, <1>5 DEF Legal, Local, SlotStep, GateStep

LEMMA BeginLegal ==
    ASSUME RefreshInv, NEW t \in Task, NEW r \in Reason, Begin(t, r)
    PROVE  Legal(t)
<1> DEFINE new == [Rest EXCEPT !.pc = "mutex", !.reason = r, !.pre = current(P(t))]
<1>0. Context(t) /\ current(P(t)) \in 0..MaxGen
  BY InContext, RefreshAssumption DEF Context, DataType, current
<1>1. new \in Chain /\ new.pc = "mutex"
  <2>1. "mutex" \in PC /\ Rest \in Chain
    BY RestIsChain DEF PC
  <2> QED BY <1>0, <2>1 DEF Chain
<1>2. ch' = [ch EXCEPT ![t] = new] /\ ch[t].pc = "idle"
  BY DEF Begin
<1> HIDE DEF new
<1>3. UNCHANGED <<guard, power, inflight, mutex>> /\ DataType' /\ RestType'
  BY <1>0, SameTypes DEF Begin, sleepVars, Context
<1> QED BY <1>1, <1>2, <1>3, StartIsLegal

LEMMA BeginOtherLegal ==
    ASSUME RefreshInv, NEW t \in Task, BeginLogout(t) \/ BeginFlow(t) \/ BeginEnrich(t)
    PROVE  Legal(t)
<1>0. Context(t)
  BY InContext
<1>1. ch[t].pc = "idle" /\ UNCHANGED <<power, inflight, mutex>> /\ DataType'
  BY <1>0, SameTypes DEF Context, BeginLogout, BeginFlow, BeginEnrich, sleepVars
<1>2. RestType'
  BY <1>0 DEF Context, RestType, BeginLogout, BeginFlow, BeginEnrich, sleepVars, idpVars
<1>3. CASE BeginLogout(t)
  <2>1. PICK new \in Chain : ch' = [ch EXCEPT ![t] = new] /\ new.pc = "logout"
    BY <1>0, <1>3, MoveIs DEF PC, BeginLogout
  <2> QED BY <1>1, <1>2, <1>3, <2>1, StartIsLegal DEF BeginLogout
<1>4. CASE BeginFlow(t)
  <2>1. PICK new \in Chain : ch' = [ch EXCEPT ![t] = new] /\ new.pc = "flow"
    BY <1>0, <1>4, MoveIs DEF PC, BeginFlow
  <2> QED BY <1>1, <1>2, <1>4, <2>1, StartIsLegal DEF BeginFlow
<1>5. CASE BeginEnrich(t)
  <2>1. PICK e \in enrich : ch' = [ch EXCEPT ![t].pc = "enrich", ![t].cred = e.gen]
    BY <1>5 DEF BeginEnrich
  <2> DEFINE new == [ch[t] EXCEPT !.pc = "enrich", !.cred = e.gen]
  <2>2. e.gen \in 0..MaxGen /\ e.gen # 0
    BY <1>0 DEF Context, RestType, Gen
  <2>3. ch' = [ch EXCEPT ![t] = new]
    BY <1>0, <2>1, EditIs DEF Context, ChainType
  <2>4. new \in Chain /\ new.pc = "enrich" /\ new.cred = e.gen
    <3>1. "enrich" \in PC /\ ch[t] \in Chain
      BY <1>0 DEF PC, Context
    <3> QED BY ONLY <2>2, <3>1 DEF Chain
  <2> HIDE DEF new
  <2> QED BY <1>1, <1>2, <1>5, <2>2, <2>3, <2>4, StartIsLegal DEF BeginEnrich
<1> QED BY <1>3, <1>4, <1>5

-----------------------------------------------------------------------------
(* The steps of no task.                                                   *)

\* A sleep is acknowledged with nothing in flight.
LEMMA QuietKeeps ==
    ASSUME RefreshInv, UNCHANGED <<guard, mutex, ch, inflight>>, DataType', RestType',
           \A p \in Proc : power'[p] = "acked" => power[p] = "acked" \/ inflight[p] = 0
    PROVE  RefreshInv'
<1> USE DEF RefreshInv
<1>1. LockInv' /\ ChainType' /\ SlotCounted'
  BY DEF LockInv, GuardTypeOK, OneLive, NoneBroken, ChainType, SlotCounted, Slotted
<1>2. \A t \in Task : InOrder(t)'
  BY DEF InOrder, Chaining, Secured, Slotted, Holds
<1>3. \A t \in Task : inflight[P(t)] = 0 => ~Exchanging(t)
  BY DEF SlotCounted, Slotted, Exchanging
<1>4. NoExchangeIntoSuspend'
  BY <1>3, RefreshAssumption DEF NoExchangeIntoSuspend, Exchanging
<1> QED BY <1>1, <1>2, <1>4

LEMMA LockBreaksKeeps ==
    ASSUME RefreshInv, LockBreaks
    PROVE  RefreshInv'
<1> USE DEF RefreshInv
<1>1. UNCHANGED <<power, inflight, ch, mutex>> /\ DataType' /\ RestType'
  BY SameTypes DEF LockBreaks, sleepVars
<1>2. PICK h \in Handle : Break(h)
  BY DEF LockBreaks
<1>3. LockInv'
  BY <1>2, HandleStepKeeps DEF HandleStep, LockInv
<1>4. \A g \in Handle : Holds(g) => Holds(g)'
  BY <1>2 DEF Break, Put, Holds, LockInv, GuardTypeOK
<1>5. \A t \in Task : InOrder(t)'
  BY <1>1, <1>4, OwnHandles DEF InOrder, Chaining, Secured, Slotted
<1>6. ChainType' /\ SlotCounted' /\ NoExchangeIntoSuspend'
  BY <1>1 DEF ChainType, SlotCounted, Slotted, NoExchangeIntoSuspend, Exchanging
<1> QED BY <1>1, <1>3, <1>5, <1>6

LEMMA OutsideKeeps ==
    ASSUME RefreshInv,
           \/ \E t \in Task, r \in Reason : AdoptDespiteVerdict(t, r)
           \/ \E p \in Proc : Reload(p) \/ WillSleep(p) \/ HoldAck(p) \/ DidWake(p)
                                \/ VerdictAges(p)
           \/ \E g \in Gen : Expire(g)
           \/ UNCHANGED vars
    PROVE  RefreshInv'
<1>0. DataType /\ RestType
  BY DEF RefreshInv
<1>1. ASSUME NEW t \in Task, NEW r \in Reason, AdoptDespiteVerdict(t, r) PROVE RefreshInv'
  <2>1. P(t) \in Proc
    BY RefreshAssumption DEF P
  <2>2. DataType' /\ RestType' /\ UNCHANGED <<guard, mutex, ch, inflight, power>>
    BY <1>0, <1>1, <2>1, AdoptTypes, SameTypes DEF AdoptDespiteVerdict, sleepVars
  <2> QED BY <2>2, QuietKeeps
<1>2. ASSUME NEW p \in Proc, Reload(p) \/ VerdictAges(p) PROVE RefreshInv'
  <2>1. DataType'
    <3>1. CASE Reload(p)
      <4>1. 0 \in 0..MaxGen
        BY RefreshAssumption
      <4> QED BY <1>0, <3>1, <4>1, RestIsChain DEF DataType, Reload
    <3>2. CASE VerdictAges(p)
      BY <1>0, <3>2 DEF DataType, VerdictAges
    <3> QED BY <1>2, <3>1, <3>2
  <2>2. RestType' /\ UNCHANGED <<guard, mutex, ch, inflight, power>>
    BY <1>0, <1>2, SameTypes DEF Reload, VerdictAges, sleepVars
  <2> QED BY <2>1, <2>2, QuietKeeps
<1>3. ASSUME NEW p \in Proc, WillSleep(p) \/ HoldAck(p) \/ DidWake(p) PROVE RefreshInv'
  <2>1. DataType' /\ UNCHANGED <<guard, mutex, ch, inflight>>
    BY <1>0, <1>3, SameTypes DEF WillSleep, HoldAck, DidWake
  <2>2. RestType'
    BY <1>0, <1>3 DEF RestType, WillSleep, HoldAck, DidWake, idpVars
  <2>3. \A q \in Proc : power'[q] = "acked" => power[q] = "acked" \/ inflight[q] = 0
    BY <1>0, <1>3 DEF RestType, WillSleep, HoldAck, DidWake
  <2> QED BY <2>1, <2>2, <2>3, QuietKeeps
<1>4. ASSUME NEW g \in Gen, Expire(g) PROVE RefreshInv'
  <2>1. DataType' /\ RestType' /\ UNCHANGED <<guard, mutex, ch, inflight, power>>
    BY <1>0, <1>4, SameTypes DEF DataType, Expire, sleepVars
  <2> QED BY <2>1, QuietKeeps
<1>5. CASE UNCHANGED vars
  <2>1. DataType' /\ RestType' /\ UNCHANGED <<guard, mutex, ch, inflight, power>>
    BY <1>0, <1>5, SameTypes DEF vars, sleepVars
  <2> QED BY <2>1, QuietKeeps
<1> QED BY <1>1, <1>2, <1>3, <1>4, <1>5

-----------------------------------------------------------------------------
(* The theorems.                                                           *)

LEMMA InitHolds ==
    ASSUME Init
    PROVE  RefreshInv
<1> USE RefreshAssumption, RestIsChain DEF Init
<1>1. LockInv
  BY LockInitHolds DEF LockInv
<1>2. DataType /\ ChainType
  BY DEF DataType, ChainType
<1>3. RestType
  BY DEF RestType, Gen
<1>4. \A t \in Task : ch[t].pc = "idle"
  BY DEF Rest
<1>5. SlotCounted /\ NoExchangeIntoSuspend /\ \A t \in Task : InOrder(t)
  BY <1>4 DEF SlotCounted, NoExchangeIntoSuspend, InOrder, Chaining, Secured, Slotted, Exchanging
<1> QED BY <1>1, <1>2, <1>3, <1>5 DEF RefreshInv

LEMMA TaskStepLegal ==
    ASSUME RefreshInv, NEW t \in Task, TaskStep(t)
    PROVE  Legal(t)
BY LockAnswersLegal, TakeMutexLegal, AfterLockLegal, RevalidateLegal, AfterRelockLegal,
   ClaimSlotLegal, RefreshLegal, IdpAnswerLegal, ReceiveGrantLegal, ReceiveRejectedLegal,
   ReceiveRefusedLegal, ReceiveFailedLegal, ApplyLegal, ApplyRejectedLegal, ClearLegal,
   LogoutLegal, EnrichLegal, FlowLockedLegal
DEF TaskStep

LEMMA NextKeeps ==
    ASSUME RefreshInv, [Next]_vars
    PROVE  RefreshInv'
<1>1. ASSUME NEW t \in Task, TaskStep(t) PROVE RefreshInv'
  BY <1>1, TaskStepLegal, LegalKeeps
<1>2. ASSUME NEW t \in Task, NEW r \in Reason, Begin(t, r) PROVE RefreshInv'
  BY <1>2, BeginLegal, LegalKeeps
<1>3. ASSUME NEW t \in Task, BeginLogout(t) \/ BeginFlow(t) \/ BeginEnrich(t) PROVE RefreshInv'
  BY <1>3, BeginOtherLegal, LegalKeeps
<1> QED BY <1>1, <1>2, <1>3, LockBreaksKeeps, OutsideKeeps DEF Next

LEMMA Invariance == Spec => []RefreshInv
<1>1. Init => RefreshInv
  BY InitHolds
<1>2. RefreshInv /\ [Next]_vars => RefreshInv'
  BY NextKeeps
<1> QED BY <1>1, <1>2, PTL DEF Spec

\* Every step of every activity keeps the state of CredentialRefresh well typed;
\* in particular refresh_in_flight is 0 or 1, which takes the mutex, since ClaimSlot
\* only adds.
THEOREM TypeCorrect == Spec => []TypeOK
<1>1. RefreshInv => TypeOK
  <2> SUFFICES ASSUME RefreshInv PROVE TypeOK
    OBVIOUS
  <2> QED BY DEF RefreshInv, SlotCounted, LockInv, DataType, ChainType, RestType, Chain, TypeOK
<1> QED BY <1>1, Invariance, PTL

\* "Only one participant ever spends a given refresh token" (manager.rs): no two
\* refresh_chains are at the provider together, if all tasks share a process and
\* its refresh_lock, or if no waiter breaks the lock of auth.json under its holder.
THEOREM OnlyOneSpends ==
    ASSUME ~MayBreak \/ \A t, u \in Task : P(t) = P(u)
    PROVE  Spec => []OneSpender
<1>1. RefreshInv => OneSpender
  <2> SUFFICES ASSUME RefreshInv, NEW t \in Task, NEW u \in Task, Exchanging(t), Exchanging(u)
               PROVE  t = u
    BY DEF OneSpender
  <2>1. Secured(t) /\ Secured(u) /\ Chaining(t) /\ Chaining(u)
    BY DEF Exchanging, Secured, Slotted, Chaining
  <2>2. CASE ~MayBreak
    <3>1. guard[Own(t)] = "live" /\ guard[Own(u)] = "live"
      BY <2>1, <2>2, OwnHandles DEF RefreshInv, InOrder, Holds, LockInv, NoneBroken
    <3> QED BY <3>1, OwnHandles DEF RefreshInv, LockInv, OneLive
  <2>3. CASE P(t) = P(u)
    BY <2>1, <2>3, OneChain
  <2> QED BY <2>2, <2>3
<1> QED BY <1>1, Invariance, PTL

\* Whatever locks are broken: two chains of one process are never at the
\* provider together, thanks to refresh_lock alone.
THEOREM OneSpenderPerProcess ==
    Spec => [](\A t, u \in Task : P(t) = P(u) /\ Exchanging(t) /\ Exchanging(u) => t = u)
<1>1. RefreshInv => \A t, u \in Task : P(t) = P(u) /\ Exchanging(t) /\ Exchanging(u) => t = u
  BY OneChain DEF Exchanging, Secured, Slotted, Chaining
<1> QED BY <1>1, Invariance, PTL

\* Once hold_sleep_ack has acknowledged a sleep, no exchange of that process is
\* under way until it wakes: the slot is claimed before the gate is read.
THEOREM SuspendIsSafe == Spec => []NoExchangeIntoSuspend
<1>1. RefreshInv => NoExchangeIntoSuspend
  BY DEF RefreshInv
<1> QED BY <1>1, Invariance, PTL
=============================================================================
