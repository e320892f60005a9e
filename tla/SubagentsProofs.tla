--------------------------- MODULE SubagentsProofs ---------------------------
(***************************************************************************)
(* Proofs about the subagent coordinator: its types, that a completion is  *)
(* handed to somebody who is there to take it, that no child and no        *)
(* summary outlives a session's life, and that the iterations of a loop    *)
(* task stay apart.                                                        *)
(***************************************************************************)
EXTENDS Subagents, TLAPS, FiniteSetTheorems, WellFoundedInduction

Op == {"Spawn", "Query", "CancelOne", "CancelPrompt", "CancelWorkflow", "Completions",
       "Teardown", "Outstanding", "LoopQuery", "LoopUnitActive"}
Cmd == [op : Op, id : Child \cup {None}] \cup [op : Op, id : Child \cup {None}, by : Waiter]

KidRec == [st : {"none", "sent", "pending", "active", "completed", "refused"}, kind : Kind,
           by : Child \cup {None}, surface : BOOLEAN, unit : Child \cup {None},
           handle_only : BOOLEAN, deadline : BOOLEAN, reply : BOOLEAN, killed : BOOLEAN]
Answered(k) == \A c \in Child : k[c].reply => k[c].st \in {"pending", "active"}
Bounded(s, n) == s \in Seq(Child) /\ Len(s) <= n

\* The types, with the sequences as sequences.
KidType == kid \in [Child -> KidRec] /\ Answered(kid)
RunType ==
    /\ cancelled \in [Child -> BOOLEAN]
    /\ run \in [Child -> {"none", "start", "ready", "reported", "refused", "live", "ended", "over"}]
    /\ outcome \in [Child -> {"none", "ok", "failed", "cancelled"}]
    /\ caller \in [Child -> {"none", "waiting", "gone", "answered", "handed_off"}]
    /\ told \in [Child -> [to : SUBSET {"caller", "waiter", "surface"}, life : 0..MaxLife]]
QueryType ==
    query \in [Waiter -> [st : {"idle", "sent", "blocked", "progress", "answered", "gone"},
                          on : Child \cup {None}]]
SeqType == cmds \in Seq(Cmd) /\ Bounded(completed, MaxCompleted) /\ Bounded(buffer, MaxBuffer)
EnvType ==
    /\ session \in [resident : BOOLEAN, life : 1..MaxLife, torn : 0..MaxLife]
    /\ session.torn <= session.life /\ (session.resident => session.torn < session.life)
    /\ flow \in [cancel : BOOLEAN, drain : {"idle", "sent", "waiting", "drained", "given_up"}]
    /\ loop \in [pc : {"idle", "query", "progress", "queried", "unit", "clear"},
                 on : Child \cup {None}, last : Child \cup {None}]
    /\ events \in Scenarios
Typed == KidType /\ RunType /\ QueryType /\ SeqType /\ EnvType

\* Children are requested in the order of their numbers.
Numbered == \A c, d \in Child : c < d /\ kid[d].st # "none" => kid[c].st # "none"

\* A child's entry, its run, its result and its caller go together; what was
\* not made one of the session never gets a session of its own.  A child that
\* starts is of some life; one that another child requests is of the life of
\* its spawner, which has started.
Together(c) ==
    /\ kid[c].st \in {"none", "sent", "refused"} => run[c] = "none"
    /\ kid[c].st = "pending" => run[c] \in {"start", "ready", "reported", "refused", "ended"}
    /\ kid[c].st = "active" => run[c] \in {"live", "ended"}
    /\ kid[c].st = "completed" => run[c] = "over"
    /\ run[c] \notin {"ended", "over"} => outcome[c] = "none"
    /\ caller[c] = "answered" => kid[c].st \in {"completed", "refused"}
    /\ kid[c].by # None => /\ run[c] \in {"none", "start", "ended", "over"}
                           /\ kid[c].st # "active"
                           /\ kid[kid[c].by].st # "none"
                           /\ told[c].life = told[kid[c].by].life
                           /\ run[kid[c].by] \notin {"none", "start"}
    /\ kid[c].kind = "nested" /\ kid[c].st # "none" => told[c].life # None
    /\ run[c] \in {"ready", "reported", "refused", "live"} \/ kid[c].st = "active"
          => told[c].life # None
    /\ kid[c].st = "sent" /\ kid[c].unit # None => kid[c].unit = c /\ kid[c].by = None

Spawns(i) == cmds[i].op = "Spawn"

\* A request is in the channel once.
SpawnInv ==
    /\ \A i \in 1..Len(cmds) : Spawns(i) => cmds[i].id \in Child /\ kid[cmds[i].id].st = "sent"
    /\ \A i, j \in 1..Len(cmds) : Spawns(i) /\ Spawns(j) /\ cmds[i].id = cmds[j].id => i = j

Free(c) == told[c].life = None \/ told[c].life > session.torn

\* What is of a life that was torn down has a teardown before it.
LiveInv ==
    \A c \in Child : Live(c) /\ InSession(c) /\ (~cancelled[c] \/ kid[c].surface) =>
        Free(c) \/ Teardowns # {}
SentInv ==
    \A i \in 1..Len(cmds) : Spawns(i) /\ InSession(cmds[i].id) =>
        Free(cmds[i].id) \/ \E j \in 1..Len(cmds) : i < j /\ cmds[j].op = "Teardown"
BufferInv ==
    \A i \in 1..Len(buffer) :
        /\ kid[buffer[i]].st = "completed"
        /\ InSession(buffer[i]) => Free(buffer[i]) \/ Teardowns # {}

\* The fire awaits at most one answer, and asks for the last iteration after
\* that iteration's request.
AskInv ==
    /\ \A i \in 1..Len(cmds) : cmds[i].op = "LoopQuery" => loop.pc = "query"
    /\ \A i \in 1..Len(cmds) : cmds[i].op = "LoopUnitActive" => loop.pc = "unit"
    /\ \A i, j \in 1..Len(cmds) :
          cmds[i].op = cmds[j].op /\ cmds[i].op \in {"LoopQuery", "LoopUnitActive"} => i = j
    /\ \A i \in 1..Len(cmds) : Spawns(i) /\ kid[cmds[i].id].unit # None =>
          /\ cmds[i].id = loop.last /\ loop.pc \in {"idle", "query"}
          /\ \A j \in 1..Len(cmds) : cmds[j].op = "LoopQuery" => i < j

Erred(u) == outcome[u] \in {"failed", "cancelled"}

\* What is live of the loop task is of the last iteration, or of one that
\* ended in an error; a fire that may go on has found no other.
UnitInv ==
    \A c \in Child : Live(c) /\ kid[c].unit # None =>
        /\ Erred(kid[c].unit) \/ kid[c].unit = loop.last
        /\ loop.pc = "clear" => Erred(kid[c].unit)

KidInv == Numbered /\ (\A c \in Child : Together(c)) /\ CompletionHeard
LifeInv == LiveInv /\ SentInv /\ BufferInv

IInv == Typed /\ KidInv /\ SpawnInv /\ LifeInv /\ AskInv /\ UnitInv

-----------------------------------------------------------------------------
(* Children, numbers and sequences.                                        *)

LEMMA Bounds ==
    /\ {MaxChild, MaxCmds, MaxLife, MaxBuffer, MaxCompleted} \subseteq Nat \ {0}
    /\ Child \subseteq Nat /\ IsFiniteSet(Child) /\ None \notin Child
BY CoordinatorAssumption, FS_Interval DEF Child, None

LEMMA Least ==
    ASSUME NEW T, T \subseteq Nat, T # {}
    PROVE  \E m \in T : \A k \in T : m <= k
<1> DEFINE Less == OpToRel(<, Nat)
<1>1. IsWellFoundedOn(Less, Nat)
  BY NatLessThanWellFounded
<1>2. \A x, y \in Nat : x < y => <<x, y>> \in Less
  BY DEF OpToRel
<1> HIDE DEF Less
<1>3. PICK m \in T : \A k \in T : ~(<<k, m>> \in Less)
  BY <1>1, WFMin
<1>4. ASSUME NEW k \in T PROVE m <= k
  <2>1. m \in Nat /\ k \in Nat
    OBVIOUS
  <2>2. ~(k < m)
    BY <2>1, <1>2, <1>3, Zenon
  <2> QED BY <2>1, <2>2
<1> QED BY <1>4

\* A finite set of numbers has a k-th one, for every k up to its size.
LEMMA Ranked ==
    ASSUME NEW S, S \subseteq Nat, IsFiniteSet(S), NEW n \in 1..Cardinality(S)
    PROVE  \E i \in S : Cardinality({j \in S : j <= i}) = n
<1> DEFINE Below(i) == {j \in S : j <= i}
           Missed == {k \in 1..Cardinality(S) : \A i \in S : Cardinality(Below(i)) # k}
<1> SUFFICES ASSUME Missed # {} PROVE FALSE
  OBVIOUS
<1>1. Cardinality(S) \in Nat /\ Missed \subseteq Nat
  BY FS_CardinalityType
<1>2. PICK k \in Missed : \A l \in Missed : k <= l
  BY <1>1, Least
<1>3. k \in Nat /\ k >= 1 /\ k <= Cardinality(S) /\ \A i \in S : Cardinality(Below(i)) # k
  BY <1>1, <1>2
<1>4. PICK D : /\ D \subseteq S /\ IsFiniteSet(D) /\ Cardinality(D) = k - 1
               /\ \A i \in D, j \in S : j <= i => j \in D
  <2>1. CASE k = 1
    <3>1. {} \subseteq S /\ IsFiniteSet({}) /\ Cardinality({}) = k - 1
      BY <2>1, FS_EmptySet
    <3> QED BY <3>1
  <2>2. CASE k > 1
    <3>1. k - 1 \in 1..Cardinality(S) /\ k - 1 \notin Missed
      BY <1>1, <1>2, <1>3, <2>2
    <3>2. PICK i \in S : Cardinality(Below(i)) = k - 1
      BY <3>1
    <3>3. Below(i) \subseteq S /\ IsFiniteSet(Below(i))
      BY FS_Subset
    <3>4. \A j \in Below(i), l \in S : l <= j => l \in Below(i)
      OBVIOUS
    <3> QED BY <3>2, <3>3, <3>4
  <2> QED BY <1>3, <2>1, <2>2
<1>5. S \ D # {}
  <2>1. SUFFICES ASSUME S \ D = {} PROVE FALSE
    OBVIOUS
  <2>2. D = S
    BY <1>4, <2>1
  <2> QED BY <1>1, <1>3, <1>4, <2>2
<1>6. PICK m \in S \ D : \A l \in S \ D : m <= l
  BY <1>5, Least
<1>7. Below(m) = D \cup {m}
  <2>1. m \in Nat /\ m \notin D /\ D \subseteq Nat
    BY <1>4, <1>6
  <2>2. ASSUME NEW l \in S, l <= m PROVE l \in D \cup {m}
    BY <1>6, <2>1, <2>2
  <2>3. ASSUME NEW l \in D PROVE l <= m
    BY <1>4, <1>6, <2>1
  <2> QED BY <1>4, <1>6, <2>1, <2>2, <2>3
<1>8. Cardinality(D \cup {m}) = k
  <2>1. m \notin D
    BY <1>6
  <2>2. Cardinality(D \cup {m}) = Cardinality(D) + 1
    BY <1>4, <2>1, FS_AddElement
  <2> QED BY <1>3, <1>4, <2>2
<1> QED BY <1>3, <1>6, <1>7, <1>8

\* Without keeps nothing but elements of the sequence outside of S.
LEMMA WithoutFacts ==
    ASSUME NEW T, NEW s \in Seq(T), NEW S
    PROVE  /\ Without(s, S) \in Seq(T) /\ Len(Without(s, S)) <= Len(s)
           /\ \A k \in 1..Len(Without(s, S)) :
                 \E i \in 1..Len(s) : Without(s, S)[k] = s[i] /\ s[i] \notin S
<1> DEFINE keep == {i \in 1..Len(s) : s[i] \notin S}
           nth(k) == CHOOSE i \in keep : Cardinality({j \in keep : j <= i}) = k
<1>1. IsFiniteSet(keep) /\ keep \subseteq Nat /\ Cardinality(keep) \in Nat
      /\ Cardinality(keep) <= Len(s)
  <2>1. IsFiniteSet(1..Len(s)) /\ Cardinality(1..Len(s)) = Len(s)
    <3>1. Len(s) \in Nat
      OBVIOUS
    <3> QED BY <3>1, FS_Interval
  <2> QED BY <2>1, FS_Subset, FS_CardinalityType
<1>2. ASSUME NEW k \in 1..Cardinality(keep) PROVE nth(k) \in keep
  BY <1>1, Ranked
<1>3. Without(s, S) = [k \in 1..Cardinality(keep) |-> s[nth(k)]]
  BY DEF Without
<1> HIDE DEF keep, nth
<1>4. \A k \in 1..Cardinality(keep) : nth(k) \in 1..Len(s) /\ s[nth(k)] \notin S
  BY <1>2 DEF keep
<1>5. Without(s, S) \in [1..Cardinality(keep) -> T]
  BY <1>3, <1>4
<1>6. Without(s, S) \in Seq(T) /\ Len(Without(s, S)) = Cardinality(keep)
  BY <1>1, <1>5
<1> QED BY <1>1, <1>3, <1>4, <1>6

Members(s) == {s[i] : i \in 1..Len(s)}

LEMMA NewestFacts ==
    ASSUME NEW s \in Seq(Child), NEW x \in Child, NEW n \in Nat \ {0},
           NEW b, b = Newest(Append(s, x), n)
    PROVE  /\ b \in Seq(Child) /\ Len(b) <= n
           /\ Members(b) \subseteq Members(s) \cup {x}
<1> DEFINE a == Append(s, x)
<1>0. n <= n
  OBVIOUS
<1>1. a \in Seq(Child) /\ Len(a) = Len(s) + 1 /\ Len(s) \in Nat
      /\ \A i \in 1..Len(a) : a[i] = x \/ \E j \in 1..Len(s) : a[i] = s[j]
  OBVIOUS
<1>4. b = Newest(a, n)
  OBVIOUS
<1> HIDE DEF a
<1>2. CASE Len(a) > n
  <2>1. Newest(a, n) = SubSeq(a, Len(a) - n + 1, Len(a))
    BY <1>2 DEF Newest
  <2>2. SubSeq(a, Len(a) - n + 1, Len(a)) \in Seq(Child)
        /\ Len(SubSeq(a, Len(a) - n + 1, Len(a))) = n
        /\ \A k \in 1..n : SubSeq(a, Len(a) - n + 1, Len(a))[k] = a[Len(a) - n + k]
    BY <1>1, <1>2
  <2>3. \A k \in 1..n : Len(a) - n + k \in 1..Len(a)
    BY <1>1, <1>2
  <2>4. \A k \in 1..n : \/ Newest(a, n)[k] = x
                         \/ \E j \in 1..Len(s) : Newest(a, n)[k] = s[j]
    BY <1>1, <2>1, <2>2, <2>3
  <2>5. Newest(a, n) \in Seq(Child) /\ Len(Newest(a, n)) = n
    BY <2>1, <2>2
  <2>6. /\ b \in Seq(Child) /\ Len(b) = n
        /\ \A k \in 1..n : b[k] = x \/ \E j \in 1..Len(s) : b[k] = s[j]
    BY <1>4, <2>4, <2>5, Zenon
  <2> QED BY <1>0, <2>6 DEF Members
<1>3. CASE ~(Len(a) > n)
  <2>1. b = a
    BY <1>3, <1>4 DEF Newest
  <2>2. Len(b) <= n
    BY <1>1, <1>3, <2>1
  <2> QED BY <1>1, <2>1, <2>2 DEF Members
<1> QED BY <1>2, <1>3

LEMMA NextChild ==
    ASSUME Numbered, NEW c, c = Cardinality({d \in Child : kid[d].st # "none"}) + 1,
           c <= MaxChild
    PROVE  /\ c \in Child /\ kid[c].st = "none"
           /\ \A d \in Child : d < c => kid[d].st # "none"
<1> DEFINE S == {d \in Child : kid[d].st # "none"}
<1>1. IsFiniteSet(S) /\ Cardinality(S) \in Nat /\ S \subseteq Child
  BY Bounds, FS_Subset, FS_CardinalityType
<1>2. c \in Child
  BY <1>1, Bounds DEF Child
<1>3. ASSUME NEW n \in Nat, 1..n \subseteq S PROVE n < c
  <2>1. IsFiniteSet(1..n) /\ Cardinality(1..n) = n
    BY FS_Interval
  <2>2. Cardinality(1..n) <= Cardinality(S)
    BY <1>1, <1>3, <2>1, FS_Subset
  <2> QED BY <1>1, <2>1, <2>2
<1>4. c \notin S
  <2>1. SUFFICES ASSUME c \in S PROVE FALSE
    OBVIOUS
  <2>2. \A d \in 1..c : d \in Child
    BY <1>2, Bounds DEF Child
  <2>3. c \in Nat
    BY <1>2, Bounds
  <2>4. ASSUME NEW d \in 1..c PROVE d \in S
    <3>1. d \in Child /\ (d = c \/ d < c)
      BY <2>2, <2>3
    <3> QED BY <1>2, <2>1, <3>1 DEF Numbered
  <2>5. 1..c \subseteq S
    BY <2>4
  <2>6. c < c
    BY <1>3, <2>3, <2>5
  <2> QED BY <2>3, <2>6
<1>5. ASSUME NEW d \in Child, d < c PROVE d \in S
  <2>1. SUFFICES ASSUME d \notin S PROVE FALSE
    OBVIOUS
  <2>2. d \in Nat /\ d - 1 \in Nat
    BY Bounds DEF Child
  <2>3. S \subseteq 1..(d - 1)
    <3>1. ASSUME NEW e \in S PROVE e \in 1..(d - 1)
      <4>1. e \in Nat /\ e >= 1 /\ ~(d < e) /\ e # d
        BY <2>1, Bounds DEF Numbered, Child
      <4> QED BY <2>2, <4>1
    <3> QED BY <3>1
  <2>4. IsFiniteSet(1..(d - 1)) /\ Cardinality(1..(d - 1)) = d - 1
    BY <2>2, FS_Interval
  <2>5. Cardinality(S) <= d - 1
    BY <2>3, <2>4, FS_Subset
  <2> QED BY <1>1, <1>5, <2>2, <2>5
<1> QED BY <1>2, <1>4, <1>5

-----------------------------------------------------------------------------
(* Steps that leave the stages of the children alone.                      *)

Alike(k) ==
    /\ k \in [Child -> KidRec] /\ Answered(k)
    /\ \A c \in Child :
          /\ k[c].st = kid[c].st /\ k[c].by = kid[c].by /\ k[c].unit = kid[c].unit
          /\ k[c].kind = kid[c].kind /\ (k[c].surface => kid[c].surface)
          /\ ~Live(c) => k[c] = kid[c]

LEMMA SameIsAlike ==
    ASSUME Typed
    PROVE  Alike(kid)
BY DEF Typed, KidType, Alike

LEMMA ReapedAlike ==
    ASSUME Typed
    PROVE  Alike(Reaped)
<1>1. Reaped = [c \in Child |-> Reaped[c]] /\ DOMAIN Reaped = Child
  BY DEF Reaped
<1>2. ASSUME NEW c \in Child
      PROVE  /\ Reaped[c] \in KidRec
             /\ Reaped[c].reply => Reaped[c].st \in {"pending", "active"}
             /\ Reaped[c].st = kid[c].st /\ Reaped[c].by = kid[c].by
             /\ Reaped[c].unit = kid[c].unit /\ Reaped[c].kind = kid[c].kind
             /\ Reaped[c].surface => kid[c].surface
             /\ ~Live(c) => Reaped[c] = kid[c]
  <2>1. kid[c] \in KidRec /\ (kid[c].reply => kid[c].st \in {"pending", "active"})
    BY DEF Typed, KidType, Answered
  <2>2. Reaped[c] \in {kid[c], [kid[c] EXCEPT !.reply = FALSE],
                       [kid[c] EXCEPT !.reply = FALSE, !.handle_only = TRUE, !.deadline = FALSE]}
        /\ (~Live(c) => Reaped[c] = kid[c])
    BY DEF Reaped, Abandoned
  <2> QED BY <2>1, <2>2 DEF KidRec
<1> QED BY <1>1, <1>2 DEF Alike, Answered

LEMMA CancelAllFacts ==
    ASSUME Typed, NEW S
    PROVE  /\ CancelAll(S) \in [Child -> BOOLEAN]
           /\ \A c \in Child : /\ cancelled[c] => CancelAll(S)[c]
                               /\ c \in S => CancelAll(S)[c]
BY Zenon DEF CancelAll

\* A step of this kind: no child is requested, spawned, promoted or finished.
Quiet ==
    /\ Alike(kid') /\ UNCHANGED <<run, outcome, told>>
    /\ \A c \in Child : caller'[c] = "answered" => caller[c] = "answered"

LEMMA QuietKid ==
    ASSUME IInv, Quiet
    PROVE  KidInv'
<1>1. Numbered'
  BY DEF IInv, KidInv, Numbered, Quiet, Alike
<1>2. ASSUME NEW c \in Child PROVE Together(c)'
  <2>1. Together(c)
    BY DEF IInv, KidInv
  <2>2. kid[c].by # None => kid[c].by \in Child
    BY DEF IInv, Typed, KidType, KidRec
  <2>3. kid[c].by # None => kid'[kid[c].by].st = kid[kid[c].by].st
    BY <2>2 DEF Quiet, Alike
  <2>4. /\ kid'[c].st = kid[c].st /\ kid'[c].by = kid[c].by /\ kid'[c].unit = kid[c].unit
        /\ kid'[c].kind = kid[c].kind
    BY DEF Quiet, Alike
  <2>5. run' = run /\ outcome'[c] = outcome[c] /\ told' = told
        /\ (caller'[c] = "answered" => caller[c] = "answered")
    BY DEF Quiet
  <2> QED BY <2>1, <2>3, <2>4, <2>5 DEF Together
<1>3. CompletionHeard'
  BY DEF IInv, KidInv, CompletionHeard, Quiet, Alike, Live
<1> QED BY <1>1, <1>2, <1>3 DEF KidInv

-----------------------------------------------------------------------------
(* What a step does to the channel: it takes the first k commands and      *)
(* appends no request, and every teardown behind them stays.               *)

SpawnsFollow(k) ==
    \A i \in 1..Len(cmds') : cmds'[i].op = "Spawn" =>
        i + k \in 1..Len(cmds) /\ cmds'[i] = cmds[i + k]
LoopsFollow(k) ==
    \A i \in 1..Len(cmds') : cmds'[i].op \in {"LoopQuery", "LoopUnitActive"} =>
        i + k \in 1..Len(cmds) /\ cmds'[i] = cmds[i + k]
TeardownsStay(k) ==
    \A j \in 1..Len(cmds) : cmds[j].op = "Teardown" /\ j > k =>
        j - k \in 1..Len(cmds') /\ cmds'[j - k].op = "Teardown"
Moves(k) == k \in {0, 1} /\ cmds' \in Seq(Cmd) /\ SpawnsFollow(k) /\ TeardownsStay(k)

LEMMA ChannelSame ==
    ASSUME Typed, UNCHANGED cmds
    PROVE  Moves(0) /\ LoopsFollow(0)
BY DEF Typed, SeqType, Moves, SpawnsFollow, LoopsFollow, TeardownsStay

LEMMA ChannelAppend ==
    ASSUME Typed, NEW e \in Cmd, e.op # "Spawn", cmds' = Append(cmds, e)
    PROVE  Moves(0) /\ (e.op \notin {"LoopQuery", "LoopUnitActive"} => LoopsFollow(0))
<1>1. cmds \in Seq(Cmd) /\ cmds' \in Seq(Cmd) /\ Len(cmds') = Len(cmds) + 1 /\ Len(cmds) \in Nat
      /\ (\A i \in 1..Len(cmds) : cmds'[i] = cmds[i]) /\ cmds'[Len(cmds) + 1] = e
  BY DEF Typed, SeqType
<1>2. \A i \in 1..Len(cmds') : i \in 1..Len(cmds) \/ i = Len(cmds) + 1
  BY <1>1
<1> QED BY <1>1, <1>2 DEF Moves, SpawnsFollow, LoopsFollow, TeardownsStay

LEMMA ChannelTake ==
    ASSUME Typed, NEW op, Take(op)
    PROVE  /\ Moves(1) /\ LoopsFollow(1)
           /\ 1 \in 1..Len(cmds) /\ cmds[1].op = op /\ Head(cmds) = cmds[1] /\ cmds[1] \in Cmd
<1>1. cmds \in Seq(Cmd) /\ cmds # <<>> /\ cmds' = Tail(cmds) /\ Head(cmds).op = op
  BY DEF Typed, SeqType, Take
<1>2. cmds' \in Seq(Cmd) /\ Len(cmds') = Len(cmds) - 1 /\ Len(cmds) \in Nat /\ Len(cmds) >= 1
      /\ (\A i \in 1..Len(cmds') : cmds'[i] = cmds[i + 1]) /\ Head(cmds) = cmds[1]
      /\ cmds[1] \in Cmd
  BY <1>1
<1>3. \A i \in 1..Len(cmds') : i + 1 \in 1..Len(cmds)
  BY <1>2
<1>4. \A j \in 1..Len(cmds) : j > 1 => j - 1 \in 1..Len(cmds') /\ (j - 1) + 1 = j
  BY <1>2
<1>5. TeardownsStay(1)
  BY <1>2, <1>4 DEF TeardownsStay
<1> QED BY <1>1, <1>2, <1>3, <1>5 DEF Moves, SpawnsFollow, LoopsFollow

LEMMA UnheardFacts ==
    ASSUME Typed
    PROVE  /\ Unheard(cmds) \in Seq(Cmd) /\ Len(Unheard(cmds)) = Len(cmds)
           /\ \A i \in 1..Len(cmds) :
                /\ Unheard(cmds)[i].op \notin {"LoopQuery", "LoopUnitActive"}
                /\ Unheard(cmds)[i].op = "Spawn" => Unheard(cmds)[i] = cmds[i]
                /\ cmds[i].op = "Teardown" => Unheard(cmds)[i].op = "Teardown"
<1>1. cmds \in Seq(Cmd) /\ Len(cmds) \in Nat
  BY DEF Typed, SeqType
<1>2. [op |-> "Outstanding", id |-> None] \in Cmd
  BY DEF Cmd, Op
<1>3. Unheard(cmds) \in [1..Len(cmds) -> Cmd]
  BY <1>1, <1>2 DEF Unheard
<1>4. Unheard(cmds) \in Seq(Cmd) /\ Len(Unheard(cmds)) = Len(cmds)
  BY <1>1, <1>3
<1> QED BY <1>1, <1>4 DEF Unheard

LEMMA CalmSpawns ==
    ASSUME IInv, Alike(kid'), NEW k, Moves(k)
    PROVE  SpawnInv'
<1>1. k \in Nat /\ cmds \in Seq(Cmd) /\ Len(cmds) \in Nat /\ Len(cmds') \in Nat
  BY DEF Moves, IInv, Typed, SeqType
<1>2. ASSUME NEW i \in 1..Len(cmds'), Spawns(i)'
      PROVE  i + k \in 1..Len(cmds) /\ Spawns(i + k) /\ cmds'[i] = cmds[i + k]
  BY <1>2 DEF Moves, SpawnsFollow, Spawns
<1>3. ASSUME NEW i \in 1..Len(cmds'), Spawns(i)'
      PROVE  cmds'[i].id \in Child /\ kid'[cmds'[i].id].st = "sent"
  BY <1>2, <1>3 DEF IInv, SpawnInv, Alike
<1>4. ASSUME NEW i \in 1..Len(cmds'), NEW j \in 1..Len(cmds'), Spawns(i)', Spawns(j)',
             cmds'[i].id = cmds'[j].id
      PROVE  i = j
  <2>1. i + k = j + k
    BY <1>2, <1>4 DEF IInv, SpawnInv
  <2> QED BY <1>1, <2>1
<1> QED BY <1>3, <1>4 DEF SpawnInv

LEMMA CalmSent ==
    ASSUME IInv, Alike(kid'), UNCHANGED <<told, session>>, NEW k, Moves(k)
    PROVE  SentInv'
<1>1. k \in Nat /\ Len(cmds) \in Nat /\ Len(cmds') \in Nat
  BY DEF Moves, IInv, Typed, SeqType
<1>2. SUFFICES ASSUME NEW i \in 1..Len(cmds'), cmds'[i].op = "Spawn", kid'[cmds'[i].id].by = None,
                      ~(told'[cmds'[i].id].life = None \/ told'[cmds'[i].id].life > session'.torn)
               PROVE  \E j \in 1..Len(cmds') : i < j /\ cmds'[j].op = "Teardown"
  BY DEF SentInv, Spawns, InSession, Free
<1>3. i + k \in 1..Len(cmds) /\ Spawns(i + k) /\ cmds'[i] = cmds[i + k]
  BY <1>2 DEF Moves, SpawnsFollow, Spawns
<1>4. cmds[i + k].id \in Child
  BY <1>3 DEF IInv, SpawnInv
<1>5. InSession(cmds[i + k].id) /\ ~Free(cmds[i + k].id)
  BY <1>2, <1>3, <1>4 DEF InSession, Free, Alike
<1>6. PICK j \in 1..Len(cmds) : i + k < j /\ cmds[j].op = "Teardown"
  BY <1>3, <1>5 DEF IInv, LifeInv, SentInv
<1>7. j - k \in 1..Len(cmds') /\ cmds'[j - k].op = "Teardown"
  BY <1>1, <1>6 DEF Moves, TeardownsStay
<1> QED BY <1>1, <1>6, <1>7

LEMMA TeardownLeft ==
    ASSUME NEW k, Moves(k), cmds \in Seq(Cmd), k = 1 => cmds[1].op # "Teardown", Teardowns # {}
    PROVE  Teardowns' # {}
<1>1. PICK j \in 1..Len(cmds) : cmds[j].op = "Teardown"
  BY DEF Teardowns
<1>2. j > k
  BY <1>1 DEF Moves
<1> QED BY <1>1, <1>2 DEF Moves, TeardownsStay, Teardowns

LEMMA CalmLife ==
    ASSUME IInv, Quiet, NEW k, Moves(k), k = 1 => cmds[1].op # "Teardown",
           UNCHANGED session, \A c \in Child : cancelled[c] => cancelled'[c],
           \A i \in 1..Len(buffer') : \E j \in 1..Len(buffer) : buffer'[i] = buffer[j]
    PROVE  LifeInv'
<1>1. Teardowns # {} => Teardowns' # {}
  BY TeardownLeft DEF IInv, Typed, SeqType
<1>2. \A c : Free(c)' <=> Free(c)
  BY DEF Quiet, Free
<1>3. LiveInv'
  BY <1>1, <1>2 DEF IInv, LifeInv, LiveInv, Quiet, Alike, Live, InSession
<1>4. SentInv'
  BY CalmSent DEF Quiet
<1>5. ASSUME NEW i \in 1..Len(buffer')
      PROVE  /\ kid'[buffer'[i]].st = "completed"
             /\ kid'[buffer'[i]].by = None =>
                   (told'[buffer'[i]].life = None \/ told'[buffer'[i]].life > session'.torn) \/ Teardowns' # {}
  <2>1. PICK j \in 1..Len(buffer) : buffer'[i] = buffer[j]
    OBVIOUS
  <2>2. buffer[j] \in Child
    BY DEF IInv, Typed, SeqType, Bounded
  <2>3. kid'[buffer[j]].st = kid[buffer[j]].st /\ kid'[buffer[j]].by = kid[buffer[j]].by
    BY <2>2 DEF Quiet, Alike
  <2>4. /\ kid[buffer[j]].st = "completed"
        /\ InSession(buffer[j]) => Free(buffer[j]) \/ Teardowns # {}
    BY DEF IInv, LifeInv, BufferInv
  <2>5. session' = session /\ told' = told
    BY DEF Quiet
  <2> QED BY <1>1, <2>1, <2>3, <2>4, <2>5 DEF InSession, Free
<1>6. BufferInv'
  BY <1>5 DEF BufferInv, InSession, Free
<1> QED BY <1>3, <1>4, <1>6 DEF LifeInv

LEMMA CalmAsks ==
    ASSUME IInv, Alike(kid'), UNCHANGED loop, NEW k, Moves(k), LoopsFollow(k)
    PROVE  AskInv'
<1>1. k \in Nat /\ Len(cmds) \in Nat /\ Len(cmds') \in Nat
  BY DEF Moves, IInv, Typed, SeqType
<1>2. \A i \in 1..Len(cmds') : cmds'[i].op \in {"Spawn", "LoopQuery", "LoopUnitActive"} =>
          i + k \in 1..Len(cmds) /\ cmds'[i] = cmds[i + k]
  BY DEF Moves, SpawnsFollow, LoopsFollow
<1>3. AskInv
  BY DEF IInv
<1>5. \A i \in 1..Len(cmds') : /\ cmds'[i].op = "LoopQuery" => loop'.pc = "query"
                               /\ cmds'[i].op = "LoopUnitActive" => loop'.pc = "unit"
  BY <1>2, <1>3 DEF AskInv
<1>6. ASSUME NEW i \in 1..Len(cmds'), NEW j \in 1..Len(cmds'), cmds'[i].op = cmds'[j].op,
             cmds'[i].op \in {"LoopQuery", "LoopUnitActive"}
      PROVE  i = j
  <2>1. i + k = j + k
    BY <1>2, <1>3, <1>6 DEF AskInv
  <2> QED BY <1>1, <2>1
<1>7. ASSUME NEW i \in 1..Len(cmds'), Spawns(i)', kid'[cmds'[i].id].unit # None
      PROVE  /\ cmds'[i].id = loop'.last /\ loop'.pc \in {"idle", "query"}
             /\ \A j \in 1..Len(cmds') : cmds'[j].op = "LoopQuery" => i < j
  <2>1. i + k \in 1..Len(cmds) /\ Spawns(i + k) /\ cmds'[i] = cmds[i + k]
    BY <1>2, <1>7 DEF Spawns
  <2>2. cmds[i + k].id \in Child
    BY <2>1 DEF IInv, SpawnInv
  <2>3. kid[cmds[i + k].id].unit # None
    BY <1>7, <2>1, <2>2 DEF Alike
  <2>4. /\ cmds[i + k].id = loop.last /\ loop.pc \in {"idle", "query"}
        /\ \A j \in 1..Len(cmds) : cmds[j].op = "LoopQuery" => i + k < j
    BY <1>3, <2>1, <2>3 DEF AskInv
  <2>5. ASSUME NEW j \in 1..Len(cmds'), cmds'[j].op = "LoopQuery" PROVE i < j
    <3>1. i + k < j + k
      BY <1>2, <2>4, <2>5
    <3> QED BY <1>1, <3>1
  <2> QED BY <2>1, <2>4, <2>5
<1> QED BY <1>5, <1>6, <1>7 DEF AskInv

LEMMA CalmUnits ==
    ASSUME IInv, Alike(kid'), UNCHANGED <<loop, outcome>>
    PROVE  UnitInv'
BY DEF IInv, UnitInv, Alike, Live, Erred

\* All of the above together, for a step that does not concern the loop task.
LEMMA Calm ==
    ASSUME IInv, Quiet, NEW k, Moves(k), LoopsFollow(k), k = 1 => cmds[1].op # "Teardown",
           UNCHANGED <<session, loop>>, \A c \in Child : cancelled[c] => cancelled'[c],
           \A i \in 1..Len(buffer') : \E j \in 1..Len(buffer) : buffer'[i] = buffer[j], Typed'
    PROVE  IInv'
BY QuietKid, CalmSpawns, CalmLife, CalmAsks, CalmUnits DEF IInv, Quiet

-----------------------------------------------------------------------------
(* The parties that send commands.                                         *)

LEMMA DropCallerKeeps ==
    ASSUME IInv, NEW c \in Child, DropCaller(c)
    PROVE  IInv'
<1>1. Typed
  BY DEF IInv
<1>2. UNCHANGED <<cmds, kid, completed, run, outcome, query, buffer, session, flow, loop, events, told>>
  BY DEF DropCaller, envVars
<1>3. /\ caller' = [caller EXCEPT ![c] = "gone"]
      /\ cancelled' = [cancelled EXCEPT ![c] = @ \/ is_workflow(c)]
  BY DEF DropCaller
<1>4. cancelled' \in [Child -> BOOLEAN] /\ \A d \in Child : cancelled[d] => cancelled'[d]
  BY <1>1, <1>3, Zenon DEF Typed, RunType
<1>5. Typed'
  BY <1>1, <1>2, <1>3, <1>4
     DEF Typed, KidType, RunType, QueryType, SeqType, EnvType, Bounded, Answered
<1>6. Quiet
  BY <1>1, <1>2, <1>3, SameIsAlike DEF Quiet, Typed, RunType
<1>7. Moves(0) /\ LoopsFollow(0)
  BY <1>1, <1>2, ChannelSame
<1> QED BY <1>2, <1>4, <1>5, <1>6, <1>7, Calm

LEMMA CancelToolCallKeeps ==
    ASSUME IInv, NEW c \in Child, CancelToolCall(c)
    PROVE  IInv'
<1>1. Typed
  BY DEF IInv
<1>2. UNCHANGED <<cmds, kid, completed, run, outcome, caller, query, buffer, session, flow, loop,
                  events, told>>
  BY DEF CancelToolCall, envVars
<1>3. cancelled' \in [Child -> BOOLEAN] /\ \A d \in Child : cancelled[d] => cancelled'[d]
  BY <1>1, Zenon DEF Typed, RunType, CancelToolCall
<1>4. Typed'
  BY <1>1, <1>2, <1>3
     DEF Typed, KidType, RunType, QueryType, SeqType, EnvType, Bounded, Answered
<1>5. Quiet
  BY <1>1, <1>2, SameIsAlike DEF Quiet
<1>6. Moves(0) /\ LoopsFollow(0)
  BY <1>1, <1>2, ChannelSame
<1> QED BY <1>2, <1>3, <1>4, <1>5, <1>6, Calm

\* A step of a party that sends at most a command of no consequence for the
\* invariant, or that only its own state tells.
LEMMA SendKeeps ==
    ASSUME IInv, NEW k, k \in {0}, Moves(k), LoopsFollow(k), QueryType', EnvType',
           UNCHANGED <<kid, completed, cancelled, run, outcome, caller, buffer, session, loop, told>>
    PROVE  IInv'
<1>1. Typed /\ cmds' \in Seq(Cmd)
  BY DEF IInv, Moves
<1>2. Typed'
  BY <1>1 DEF Typed, KidType, RunType, SeqType, Bounded, Answered
<1>3. Quiet
  BY <1>1, SameIsAlike DEF Quiet
<1> QED BY <1>2, <1>3, Calm

LEMMA AskQueryKeeps ==
    ASSUME IInv, NEW w \in Waiter, AskQuery(w)
    PROVE  IInv'
<1>1. Typed
  BY DEF IInv
<1>2. PICK c \in Child : /\ cmds' = Append(cmds, [op |-> "Query", id |-> c, by |-> w])
                         /\ query' = [query EXCEPT ![w] = [st |-> "sent", on |-> c]]
  BY DEF AskQuery
<1>3. [op |-> "Query", id |-> c, by |-> w] \in Cmd
  BY DEF Cmd, Op
<1>4. Moves(0) /\ LoopsFollow(0)
  BY <1>1, <1>2, <1>3, ChannelAppend
<1>5. QueryType'
  BY <1>1, <1>2 DEF Typed, QueryType
<1>6. UNCHANGED <<kid, completed, cancelled, run, outcome, caller, buffer, session, loop, flow, events, told>>
  BY DEF AskQuery, envVars
<1>7. EnvType'
  BY <1>1, <1>6 DEF Typed, EnvType
<1> QED BY <1>4, <1>5, <1>6, <1>7, SendKeeps

LEMMA SessionAsksKeeps ==
    ASSUME IInv, SessionAsks
    PROVE  IInv'
<1>1. Typed
  BY DEF IInv
<1>2. PICK op \in Ask, c \in Child \cup {None} : cmds' = Append(cmds, [op |-> op, id |-> c])
  BY DEF SessionAsks, Send
<1>3. [op |-> op, id |-> c] \in Cmd /\ op \notin {"Spawn", "LoopQuery", "LoopUnitActive"}
  BY DEF Cmd, Op, Ask
<1>4. Moves(0) /\ LoopsFollow(0)
  BY <1>1, <1>2, <1>3, ChannelAppend
<1>5. UNCHANGED <<kid, completed, cancelled, run, outcome, caller, query, buffer, session, loop, flow,
                  events, told>>
  BY DEF SessionAsks, envVars
<1>6. QueryType' /\ EnvType'
  BY <1>1, <1>5 DEF Typed, QueryType, EnvType
<1> QED BY <1>4, <1>5, <1>6, SendKeeps

LEMMA FlowKeeps ==
    ASSUME IInv, CancelFlow \/ cancel_and_drain_children \/ DrainTimeout
    PROVE  IInv'
<1>1. Typed
  BY DEF IInv
<1>2. UNCHANGED <<kid, completed, cancelled, run, outcome, caller, query, buffer, session, loop,
                  events, told>>
  BY DEF CancelFlow, cancel_and_drain_children, DrainTimeout
<1>3. QueryType' /\ EnvType'
  BY <1>1, <1>2 DEF Typed, QueryType, EnvType, CancelFlow, cancel_and_drain_children, DrainTimeout
<1>4. Moves(0) /\ LoopsFollow(0)
  <2>1. CASE CancelFlow \/ DrainTimeout
    BY <1>1, <2>1, ChannelSame DEF CancelFlow, DrainTimeout
  <2>2. CASE cancel_and_drain_children
    <3>1. [op |-> "CancelWorkflow", id |-> None] \in Cmd
      BY DEF Cmd, Op
    <3>2. cmds' = Append(cmds, [op |-> "CancelWorkflow", id |-> None])
      BY <2>2 DEF cancel_and_drain_children, Send
    <3> QED BY <1>1, <3>1, <3>2, ChannelAppend
  <2> QED BY <2>1, <2>2
<1> QED BY <1>2, <1>3, <1>4, SendKeeps

LEMMA WaiterKeeps ==
    ASSUME IInv, NEW w \in Waiter,
           \/ DropQuery(w)
           \/ /\ query' = [query EXCEPT ![w].st = "answered"]
              /\ UNCHANGED <<cmds, kid, completed, cancelled, run, outcome, caller, buffer,
                             events, session, flow, loop, told>>
    PROVE  IInv'
<1>1. Typed
  BY DEF IInv
<1>2. UNCHANGED <<cmds, kid, completed, cancelled, run, outcome, caller, buffer, session, loop,
                  flow, events, told>>
  BY DEF DropQuery, envVars
<1>3. QueryType' /\ EnvType'
  BY <1>1, <1>2 DEF Typed, QueryType, EnvType, DropQuery
<1>4. Moves(0) /\ LoopsFollow(0)
  BY <1>1, <1>2, ChannelSame
<1> QED BY <1>2, <1>3, <1>4, SendKeeps

-----------------------------------------------------------------------------
(* The commands that leave the stages of the children alone.               *)

\* The actor takes a command other than a teardown or the loop's.
LEMMA CommandKeeps ==
    ASSUME IInv, NEW op, Take(op), op # "Teardown", Alike(kid'), QueryType', EnvType',
           UNCHANGED <<completed, run, outcome, caller, told, session, loop>>,
           cancelled' \in [Child -> BOOLEAN], \A c \in Child : cancelled[c] => cancelled'[c],
           Bounded(buffer', MaxBuffer),
           \A i \in 1..Len(buffer') : \E j \in 1..Len(buffer) : buffer'[i] = buffer[j]
    PROVE  IInv'
<1>1. Typed
  BY DEF IInv
<1>2. Moves(1) /\ LoopsFollow(1) /\ cmds[1].op # "Teardown"
  BY <1>1, ChannelTake
<1>3. cmds' \in Seq(Cmd)
  BY <1>2 DEF Moves
<1>4. Typed'
  BY <1>1, <1>3 DEF Typed, KidType, RunType, SeqType, Bounded, Alike, Answered
<1>5. Quiet
  BY DEF Quiet
<1> QED BY <1>2, <1>4, <1>5, Calm

LEMMA HandleQueryKeeps ==
    ASSUME IInv, handle_query
    PROVE  IInv'
<1>1. Typed
  BY DEF IInv
<1>2. /\ Take("Query") /\ kid' = Reaped /\ cancelled' = CancelAll({})
      /\ UNCHANGED <<completed, run, outcome, caller, told, buffer, session, loop, flow, events>>
  BY DEF handle_query, cmdOnly, envVars
<1>3. QueryType'
  BY <1>1 DEF Typed, QueryType, handle_query
<1>4. EnvType' /\ Bounded(buffer', MaxBuffer)
  BY <1>1, <1>2 DEF Typed, EnvType, SeqType, Bounded
<1> QED BY <1>1, <1>2, <1>3, <1>4, ReapedAlike, CancelAllFacts, CommandKeeps

LEMMA CancelOneKeeps ==
    ASSUME IInv, cancel_one
    PROVE  IInv'
<1>1. Typed
  BY DEF IInv
<1> DEFINE hit == {c \in Child : c = Target /\ Live(c) /\ InSession(c)}
<1>2. /\ Take("CancelOne")
      /\ kid' = [c \in Child |-> IF c \in hit THEN [Reaped[c] EXCEPT !.killed = TRUE] ELSE Reaped[c]]
      /\ cancelled' = CancelAll(hit)
      /\ UNCHANGED <<completed, run, outcome, caller, told, query, buffer, session, loop, flow, events>>
  BY DEF cancel_one, cmdOnly, envVars
<1>3. Alike(kid')
  <2>1. Alike(Reaped)
    BY <1>1, ReapedAlike
  <2>2. ASSUME NEW c \in Child
        PROVE  /\ kid'[c] \in KidRec
               /\ kid'[c].reply = Reaped[c].reply /\ kid'[c].st = Reaped[c].st
               /\ kid'[c].by = Reaped[c].by /\ kid'[c].unit = Reaped[c].unit
               /\ kid'[c].kind = Reaped[c].kind /\ kid'[c].surface = Reaped[c].surface
               /\ ~Live(c) => kid'[c] = Reaped[c]
    <3>1. Reaped[c] \in KidRec
      BY <2>1 DEF Alike
    <3>2. kid'[c] = IF c \in hit THEN [Reaped[c] EXCEPT !.killed = TRUE] ELSE Reaped[c]
      BY <1>2
    <3>3. ~Live(c) => c \notin hit
      OBVIOUS
    <3> HIDE DEF hit
    <3> QED BY <3>1, <3>2, <3>3 DEF KidRec
  <2>3. kid' \in [Child -> KidRec]
    BY <1>2, <2>2
  <2>4. Answered(kid')
    BY <2>1, <2>2 DEF Alike, Answered
  <2>5. \A c \in Child :
          /\ kid'[c].st = kid[c].st /\ kid'[c].by = kid[c].by /\ kid'[c].unit = kid[c].unit
          /\ kid'[c].kind = kid[c].kind /\ (kid'[c].surface => kid[c].surface)
          /\ ~Live(c) => kid'[c] = kid[c]
    BY <2>1, <2>2 DEF Alike
  <2> QED BY <2>3, <2>4, <2>5 DEF Alike
<1>4. QueryType' /\ EnvType' /\ Bounded(buffer', MaxBuffer)
  BY <1>1, <1>2 DEF Typed, QueryType, EnvType, SeqType, Bounded
<1> HIDE DEF hit
<1> QED BY <1>1, <1>2, <1>3, <1>4, CancelAllFacts, CommandKeeps

LEMMA CancelPromptKeeps ==
    ASSUME IInv, cancel_parent_prompt
    PROVE  IInv'
<1>1. Typed
  BY DEF IInv
<1>2. PICK S : /\ Take("CancelPrompt") /\ kid' = Reaped /\ cancelled' = CancelAll(S)
               /\ UNCHANGED <<completed, run, outcome, caller, told, query, buffer, session, loop,
                              flow, events>>
  BY DEF cancel_parent_prompt, cmdOnly, envVars
<1>3. QueryType' /\ EnvType' /\ Bounded(buffer', MaxBuffer)
  BY <1>1, <1>2 DEF Typed, QueryType, EnvType, SeqType, Bounded
<1> QED BY <1>1, <1>2, <1>3, ReapedAlike, CancelAllFacts, CommandKeeps

LEMMA CancelWorkflowKeeps ==
    ASSUME IInv, cancel_workflow_children
    PROVE  IInv'
<1>1. Typed
  BY DEF IInv
<1>2. /\ Take("CancelWorkflow") /\ kid' = Reaped /\ cancelled' = CancelAll(workflow_outstanding)
      /\ UNCHANGED <<completed, run, outcome, caller, told, query, buffer, session, loop, events>>
  BY DEF cancel_workflow_children, cmdOnly
<1>3. QueryType' /\ Bounded(buffer', MaxBuffer)
  BY <1>1, <1>2 DEF Typed, QueryType, SeqType, Bounded
<1>4. EnvType'
  BY <1>1, <1>2 DEF Typed, EnvType, cancel_workflow_children
<1> QED BY <1>1, <1>2, <1>3, <1>4, ReapedAlike, CancelAllFacts, CommandKeeps

LEMMA BufferWithout ==
    ASSUME Typed, NEW S
    PROVE  /\ Bounded(Without(buffer, S), MaxBuffer)
           /\ \A i \in 1..Len(Without(buffer, S)) : \E j \in 1..Len(buffer) :
                 Without(buffer, S)[i] = buffer[j] /\ buffer[j] \notin S
<1>1. buffer \in Seq(Child) /\ Len(buffer) <= MaxBuffer /\ MaxBuffer \in Nat /\ Len(buffer) \in Nat
  BY Bounds DEF Typed, SeqType, Bounded
<1>2. /\ Without(buffer, S) \in Seq(Child) /\ Len(Without(buffer, S)) <= Len(buffer)
      /\ \A k \in 1..Len(Without(buffer, S)) :
           \E i \in 1..Len(buffer) : Without(buffer, S)[k] = buffer[i] /\ buffer[i] \notin S
  BY <1>1, WithoutFacts
<1>3. Len(Without(buffer, S)) \in Nat
  BY <1>2
<1> QED BY <1>1, <1>2, <1>3 DEF Bounded

LEMMA CompletionsKeeps ==
    ASSUME IInv, Completions
    PROVE  IInv'
<1>1. Typed
  BY DEF IInv
<1>2. PICK S : /\ Take("Completions") /\ kid' = Reaped /\ cancelled' = CancelAll({})
               /\ buffer' = Without(buffer, S)
               /\ UNCHANGED <<completed, run, outcome, caller, told, query, session, loop,
                              flow, events>>
  BY DEF Completions, cmdOnly, envVars
<1>3. QueryType' /\ EnvType'
  BY <1>1, <1>2 DEF Typed, QueryType, EnvType
<1>4. /\ Bounded(buffer', MaxBuffer)
      /\ \A i \in 1..Len(buffer') : \E j \in 1..Len(buffer) : buffer'[i] = buffer[j]
  BY <1>1, <1>2, BufferWithout
<1> QED BY <1>1, <1>2, <1>3, <1>4, ReapedAlike, CancelAllFacts, CommandKeeps

LEMMA OutstandingKeeps ==
    ASSUME IInv, Outstanding
    PROVE  IInv'
<1>1. Typed
  BY DEF IInv
<1>2. /\ Take("Outstanding") /\ kid' = Reaped /\ cancelled' = CancelAll({})
      /\ UNCHANGED <<completed, run, outcome, caller, told, query, buffer, session, loop, flow, events>>
  BY DEF Outstanding, cmdOnly, envVars
<1>3. QueryType' /\ EnvType' /\ Bounded(buffer', MaxBuffer)
  BY <1>1, <1>2 DEF Typed, QueryType, EnvType, SeqType, Bounded
<1> QED BY <1>1, <1>2, <1>3, ReapedAlike, CancelAllFacts, CommandKeeps

LEMMA BackgroundKeeps ==
    ASSUME IInv, NEW c \in Child, background_at_deadline(c)
    PROVE  IInv'
<1>1. Typed /\ Alike(Reaped)
  BY ReapedAlike DEF IInv
<1>2. /\ Live(c) /\ cancelled' = CancelAll({})
      /\ kid' = [Reaped EXCEPT ![c] = [@ EXCEPT !.reply = FALSE, !.handle_only = TRUE,
                                                !.deadline = FALSE]]
      /\ caller' = [caller EXCEPT ![c] = IF @ = "waiting" THEN "handed_off" ELSE @]
      /\ UNCHANGED <<cmds, completed, run, outcome, query, buffer, session, loop, flow, events, told>>
  BY DEF background_at_deadline, envVars
<1>3. Alike(kid')
  <2>1. /\ Reaped[c] \in KidRec
        /\ kid'[c] = [Reaped[c] EXCEPT !.reply = FALSE, !.handle_only = TRUE, !.deadline = FALSE]
        /\ \A d \in Child : d # c => kid'[d] = Reaped[d]
    BY <1>1, <1>2 DEF Alike
  <2>2. /\ kid'[c] \in KidRec /\ kid'[c].reply = FALSE /\ kid'[c].st = Reaped[c].st
        /\ kid'[c].by = Reaped[c].by /\ kid'[c].unit = Reaped[c].unit
        /\ kid'[c].kind = Reaped[c].kind /\ kid'[c].surface = Reaped[c].surface
    BY <2>1 DEF KidRec
  <2>3. kid' \in [Child -> KidRec]
    BY <1>1, <1>2, <2>2 DEF Alike
  <2>4. Answered(kid')
    BY <1>1, <2>1, <2>2 DEF Alike, Answered
  <2>5. \A d \in Child :
          /\ kid'[d].st = kid[d].st /\ kid'[d].by = kid[d].by /\ kid'[d].unit = kid[d].unit
          /\ kid'[d].kind = kid[d].kind /\ (kid'[d].surface => kid[d].surface)
          /\ ~Live(d) => kid'[d] = kid[d]
    BY <1>1, <1>2, <2>1, <2>2 DEF Alike
  <2> QED BY <2>3, <2>4, <2>5 DEF Alike
<1>4. cancelled' \in [Child -> BOOLEAN] /\ \A d \in Child : cancelled[d] => cancelled'[d]
  BY <1>1, <1>2, CancelAllFacts
<1>5. caller' \in [Child -> {"none", "waiting", "gone", "answered", "handed_off"}]
      /\ \A d \in Child : caller'[d] = "answered" => caller[d] = "answered"
  BY <1>1, <1>2 DEF Typed, RunType
<1>6. Typed'
  BY <1>1, <1>2, <1>3, <1>4, <1>5
     DEF Typed, KidType, RunType, QueryType, SeqType, EnvType, Bounded, Alike, Answered
<1>7. Quiet
  BY <1>2, <1>3, <1>5 DEF Quiet
<1>8. Moves(0) /\ LoopsFollow(0)
  BY <1>1, <1>2, ChannelSame
<1> QED BY <1>2, <1>4, <1>6, <1>7, <1>8, Calm

LEMMA ExpireQueryKeeps ==
    ASSUME IInv, NEW w \in Waiter, ExpireQuery(w)
    PROVE  IInv'
<1>1. Typed /\ Alike(Reaped)
  BY ReapedAlike DEF IInv
<1>2. /\ kid' = Reaped /\ cancelled' = CancelAll({})
      /\ UNCHANGED <<cmds, completed, run, outcome, caller, buffer, session, loop, flow, events, told>>
  BY DEF ExpireQuery, cmdOnly, envVars
<1>3. QueryType'
  BY <1>1 DEF Typed, QueryType, ExpireQuery
<1>4. cancelled' \in [Child -> BOOLEAN] /\ \A d \in Child : cancelled[d] => cancelled'[d]
  BY <1>1, <1>2, CancelAllFacts
<1>5. Typed'
  BY <1>1, <1>2, <1>3, <1>4
     DEF Typed, KidType, RunType, SeqType, EnvType, Bounded, Alike, Answered
<1>6. Quiet
  BY <1>1, <1>2 DEF Quiet
<1>7. Moves(0) /\ LoopsFollow(0)
  BY <1>1, <1>2, ChannelSame
<1> QED BY <1>2, <1>4, <1>5, <1>6, <1>7, Calm

\* The teardown of a life is taken: what is live is cancelled and silent, the
\* buffer has nothing of the session, and what is still in the channel came
\* after it or has a teardown of its own behind it.
LEMMA TeardownKeeps ==
    ASSUME IInv, TeardownSession
    PROVE  IInv'
<1>1. Typed /\ Alike(Reaped)
  BY ReapedAlike DEF IInv
<1> DEFINE Owned == {c \in Child : Live(c) /\ InSession(c)}
<1>2. /\ Take("Teardown") /\ cancelled' = CancelAll(Owned)
      /\ buffer' = Without(buffer, {c \in Child : InSession(c)})
      /\ UNCHANGED <<completed, run, outcome, caller, told, query, session, loop, flow, events>>
  BY DEF TeardownSession, cmdOnly, envVars
<1>3. kid' = [c \in Child |-> IF Live(c) /\ InSession(c)
                              THEN [Reaped[c] EXCEPT !.surface = FALSE] ELSE Reaped[c]]
  BY DEF TeardownSession
<1>4. ASSUME NEW c \in Child
      PROVE  /\ kid'[c] \in KidRec
             /\ kid'[c].reply = Reaped[c].reply /\ kid'[c].st = Reaped[c].st
             /\ kid'[c].by = Reaped[c].by /\ kid'[c].unit = Reaped[c].unit
             /\ kid'[c].kind = Reaped[c].kind /\ (kid'[c].surface => Reaped[c].surface)
             /\ ~Live(c) => kid'[c] = Reaped[c]
             /\ c \in Owned => ~kid'[c].surface
  <2>1. Reaped[c] \in KidRec
    BY <1>1 DEF Alike
  <2>2. kid'[c] = IF Live(c) /\ InSession(c) THEN [Reaped[c] EXCEPT !.surface = FALSE] ELSE Reaped[c]
    BY <1>3
  <2> QED BY <2>1, <2>2 DEF KidRec
<1>5. Alike(kid')
  <2>1. kid' \in [Child -> KidRec]
    BY <1>3, <1>4
  <2>2. Answered(kid')
    BY <1>1, <1>4 DEF Alike, Answered
  <2> QED BY <1>1, <1>4, <2>1, <2>2 DEF Alike
<1>6. Moves(1) /\ LoopsFollow(1)
  BY <1>1, <1>2, ChannelTake
<1>7. cancelled' \in [Child -> BOOLEAN] /\ \A c \in Owned : cancelled'[c]
  BY <1>1, <1>2, CancelAllFacts
<1>8. /\ Bounded(buffer', MaxBuffer)
      /\ \A i \in 1..Len(buffer') : \E j \in 1..Len(buffer) :
           buffer'[i] = buffer[j] /\ buffer[j] \notin {c \in Child : InSession(c)}
  BY <1>1, <1>2, BufferWithout
<1>9. Typed'
  <2>1. cmds' \in Seq(Cmd)
    BY <1>6 DEF Moves
  <2> QED BY <1>1, <1>2, <1>5, <1>7, <1>8, <2>1
       DEF Typed, KidType, RunType, QueryType, SeqType, EnvType, Bounded, Alike, Answered
<1>10. Quiet
  BY <1>2, <1>5 DEF Quiet
<1>11. LiveInv'
  <2>1. \A c \in Child : kid'[c].st \in {"pending", "active"} /\ kid'[c].by = None => c \in Owned
    BY <1>5 DEF Alike, Live, InSession
  <2> HIDE DEF Owned
  <2> QED BY <1>4, <1>7, <2>1 DEF LiveInv, Live, InSession
<1>12. BufferInv'
  <2>1. ASSUME NEW i \in 1..Len(buffer')
        PROVE  kid'[buffer'[i]].st = "completed" /\ kid'[buffer'[i]].by # None
    <3>1. PICK j \in 1..Len(buffer) :
             buffer'[i] = buffer[j] /\ buffer[j] \notin {c \in Child : InSession(c)}
      BY <1>8
    <3>2. buffer[j] \in Child /\ kid[buffer[j]].st = "completed"
      BY <1>1 DEF Typed, SeqType, Bounded, IInv, LifeInv, BufferInv
    <3>3. kid[buffer[j]].by # None
      BY <3>1, <3>2 DEF InSession
    <3> QED BY <1>5, <3>1, <3>2, <3>3 DEF Alike
  <2> QED BY <2>1 DEF BufferInv, InSession
<1>13. SpawnInv' /\ SentInv' /\ AskInv' /\ UnitInv'
  BY <1>2, <1>5, <1>6, CalmSpawns, CalmSent, CalmAsks, CalmUnits
<1> QED BY <1>9, <1>10, <1>11, <1>12, <1>13, QuietKid DEF IInv, LifeInv

-----------------------------------------------------------------------------
(* The session and the loop task.                                          *)

LEMMA RemoveKeeps ==
    ASSUME IInv, remove_session
    PROVE  IInv'
<1>1. Typed
  BY DEF IInv
<1> DEFINE e == [op |-> "Teardown", id |-> None]
<1>2. /\ cmds' = Append(cmds, e)
      /\ session' = [session EXCEPT !.resident = FALSE, !.torn = session.life]
      /\ UNCHANGED <<kid, completed, cancelled, run, outcome, caller, query, buffer, events, flow,
                     loop, told>>
  BY DEF remove_session, Send, sessionOnly
<1>3. e \in Cmd /\ e.op = "Teardown"
  BY DEF Cmd, Op
<1> HIDE DEF e
<1>4. Moves(0) /\ LoopsFollow(0)
  BY <1>1, <1>2, <1>3, ChannelAppend
<1>5. /\ cmds' \in Seq(Cmd) /\ Len(cmds) \in Nat /\ Len(cmds') = Len(cmds) + 1
      /\ cmds'[Len(cmds) + 1] = e
  BY <1>1, <1>2, <1>3 DEF Typed, SeqType
<1>6. session' \in [resident : BOOLEAN, life : 1..MaxLife, torn : 0..MaxLife]
      /\ ~session'.resident /\ session'.torn = session'.life /\ session'.life \in Nat
  <2>1. session.life \in 0..MaxLife
    BY <1>1, Bounds DEF Typed, EnvType
  <2>2. session' \in [resident : BOOLEAN, life : 1..MaxLife, torn : 0..MaxLife]
    BY <1>1, <1>2, <2>1 DEF Typed, EnvType
  <2>3. ~session'.resident /\ session'.torn = session.life /\ session'.life = session.life
    BY <1>1, <1>2 DEF Typed, EnvType
  <2> QED BY <2>1, <2>2, <2>3, Bounds
<1>7. EnvType'
  BY <1>1, <1>2, <1>6 DEF Typed, EnvType
<1>8. Typed'
  BY <1>1, <1>2, <1>5, <1>7 DEF Typed, KidType, RunType, QueryType, SeqType, Bounded, Answered
<1>9. Quiet
  BY <1>1, <1>2, SameIsAlike DEF Quiet
<1>10. Len(cmds) + 1 \in 1..Len(cmds') /\ cmds'[Len(cmds) + 1].op = "Teardown"
  BY <1>3, <1>5
<1>11. LiveInv'
  BY <1>10 DEF LiveInv, Teardowns
<1>12. BufferInv'
  BY <1>2, <1>10 DEF IInv, LifeInv, BufferInv, Teardowns
<1>13. SentInv'
  <2>1. \A i \in 1..Len(cmds') : cmds'[i].op = "Spawn" => i < Len(cmds) + 1
    BY <1>5, <1>10
  <2> QED BY <1>10, <2>1 DEF SentInv, Spawns
<1>14. SpawnInv' /\ AskInv' /\ UnitInv'
  BY <1>2, <1>4, <1>9, CalmSpawns, CalmAsks, CalmUnits DEF Quiet
<1> QED BY <1>8, <1>9, <1>11, <1>12, <1>13, <1>14, QuietKid DEF IInv, LifeInv

\* A session that is unloaded: nothing depends on its being resident.
LEMMA EvictKeeps ==
    ASSUME IInv, handle_evict_sessions
    PROVE  IInv'
<1>1. Typed
  BY DEF IInv
<1>2. /\ session' = [session EXCEPT !.resident = FALSE]
      /\ UNCHANGED <<cmds, kid, completed, cancelled, run, outcome, caller, query, buffer, events,
                     flow, loop, told>>
  BY DEF handle_evict_sessions, sessionOnly
<1>3. session' \in [resident : BOOLEAN, life : 1..MaxLife, torn : 0..MaxLife]
      /\ ~session'.resident /\ session'.torn = session.torn /\ session'.life = session.life
  BY <1>1, <1>2 DEF Typed, EnvType
<1>4. Typed'
  BY <1>1, <1>2, <1>3
     DEF Typed, KidType, RunType, QueryType, SeqType, EnvType, Bounded, Answered
<1>5. Quiet /\ Moves(0) /\ LoopsFollow(0)
  BY <1>1, <1>2, SameIsAlike, ChannelSame DEF Quiet
<1>6. LiveInv' /\ SentInv' /\ BufferInv'
  BY <1>2, <1>3
     DEF IInv, LifeInv, LiveInv, SentInv, BufferInv, Live, InSession, Spawns, Free, Teardowns
<1>7. SpawnInv' /\ AskInv' /\ UnitInv'
  BY <1>2, <1>5, CalmSpawns, CalmAsks, CalmUnits DEF Quiet
<1> QED BY <1>4, <1>5, <1>6, <1>7, QuietKid DEF IInv, LifeInv

\* The lives that were torn down stay as they are; what a fire asked is unheard.
LEMMA ResumeKeeps ==
    ASSUME IInv, ResumeSession
    PROVE  IInv'
<1>1. Typed
  BY DEF IInv
<1>2. /\ ~session.resident /\ session.life < MaxLife
      /\ session' = [session EXCEPT !.resident = TRUE, !.life = @ + 1]
      /\ cmds' = Unheard(cmds) /\ loop' = [loop EXCEPT !.pc = "idle", !.on = None]
      /\ UNCHANGED <<kid, completed, cancelled, run, outcome, caller, query, buffer, events,
                     flow, told>>
  BY DEF ResumeSession, sessionOnly
<1>3. /\ session' \in [resident : BOOLEAN, life : 1..MaxLife, torn : 0..MaxLife]
      /\ session'.torn = session.torn /\ session'.torn < session'.life /\ session'.torn <= session'.life
  <2>1. session.life + 1 \in 1..MaxLife /\ session.life \in Nat /\ session.torn \in Nat
        /\ session.torn < session.life + 1
    BY <1>1, <1>2, Bounds DEF Typed, EnvType
  <2>2. session' \in [resident : BOOLEAN, life : 1..MaxLife, torn : 0..MaxLife]
        /\ session'.torn = session.torn /\ session'.life = session.life + 1
    BY <1>1, <1>2, <2>1 DEF Typed, EnvType
  <2> QED BY <2>1, <2>2
<1>4. loop'.pc = "idle" /\ loop'.last = loop.last
      /\ loop' \in [pc : {"idle", "query", "progress", "queried", "unit", "clear"},
                    on : Child \cup {None}, last : Child \cup {None}]
  BY <1>1, <1>2 DEF Typed, EnvType
<1>5. /\ cmds' \in Seq(Cmd) /\ Len(cmds') = Len(cmds) /\ Len(cmds) \in Nat
      /\ \A i \in 1..Len(cmds) : /\ cmds'[i].op \notin {"LoopQuery", "LoopUnitActive"}
                                 /\ cmds'[i].op = "Spawn" => cmds'[i] = cmds[i]
                                 /\ cmds[i].op = "Teardown" => cmds'[i].op = "Teardown"
  <2>1. Len(cmds) \in Nat
    BY <1>1 DEF Typed, SeqType
  <2> QED BY <1>1, <1>2, <2>1, UnheardFacts
<1>6. Moves(0)
  BY <1>5 DEF Moves, SpawnsFollow, TeardownsStay
<1>7. Typed'
  BY <1>1, <1>2, <1>3, <1>4, <1>5
     DEF Typed, KidType, RunType, QueryType, SeqType, EnvType, Bounded, Answered
<1>8. Quiet
  BY <1>1, <1>2, SameIsAlike DEF Quiet
<1>9. Teardowns # {} => Teardowns' # {}
  BY <1>5 DEF Teardowns
<1>10. LiveInv' /\ BufferInv'
  BY <1>2, <1>3, <1>9 DEF IInv, LifeInv, LiveInv, BufferInv, Live, InSession, Free
<1>11. SentInv'
  <2>1. SUFFICES ASSUME NEW i \in 1..Len(cmds'), cmds'[i].op = "Spawn", kid'[cmds'[i].id].by = None,
                        ~(told'[cmds'[i].id].life = None \/ told'[cmds'[i].id].life > session'.torn)
                 PROVE  \E j \in 1..Len(cmds') : i < j /\ cmds'[j].op = "Teardown"
    BY DEF SentInv, Spawns, InSession, Free
  <2>2. i \in 1..Len(cmds) /\ cmds'[i] = cmds[i]
    BY <1>5, <2>1
  <2>3. Spawns(i) /\ InSession(cmds[i].id) /\ ~Free(cmds[i].id)
    BY <1>2, <1>3, <2>1, <2>2 DEF Spawns, InSession, Free
  <2>4. PICK j \in 1..Len(cmds) : i < j /\ cmds[j].op = "Teardown"
    BY <2>2, <2>3 DEF IInv, LifeInv, SentInv
  <2> QED BY <1>5, <2>4
<1>12. AskInv'
  <2>1. \A i \in 1..Len(cmds') : cmds'[i].op = "Spawn" /\ kid'[cmds'[i].id].unit # None =>
            cmds'[i].id = loop'.last
    BY <1>2, <1>4, <1>5 DEF IInv, AskInv, Spawns
  <2> QED BY <1>4, <1>5, <2>1 DEF AskInv, Spawns
<1>13. UnitInv'
  BY <1>2, <1>4 DEF IInv, UnitInv, Live, Erred
<1>14. SpawnInv'
  BY <1>6, <1>8, CalmSpawns DEF Quiet
<1> QED BY <1>7, <1>8, <1>10, <1>11, <1>12, <1>13, <1>14, QuietKid DEF IInv, LifeInv

LEMMA LoopKeeps ==
    ASSUME IInv, NEW k, Moves(k), k = 1 => cmds[1].op # "Teardown", Alike(kid'),
           UNCHANGED <<run, outcome, caller, told, session, flow, events, buffer, completed, query>>,
           cancelled' \in [Child -> BOOLEAN], \A c \in Child : cancelled[c] => cancelled'[c],
           loop' \in [pc : {"idle", "query", "progress", "queried", "unit", "clear"},
                      on : Child \cup {None}, last : Child \cup {None}],
           AskInv', UnitInv'
    PROVE  IInv'
<1>1. Typed /\ cmds' \in Seq(Cmd)
  BY DEF IInv, Moves
<1>2. Typed'
  BY <1>1 DEF Typed, KidType, RunType, QueryType, SeqType, EnvType, Bounded, Alike, Answered
<1>3. Quiet
  BY DEF Quiet
<1> QED BY <1>2, <1>3, QuietKid, CalmSpawns, CalmLife DEF IInv

\* The fire's place in the channel when nothing of the loop task is there.
LEMMA AsksNone ==
    ASSUME \A i \in 1..Len(cmds') : cmds'[i].op \notin {"LoopQuery", "LoopUnitActive"},
           \A i \in 1..Len(cmds') : cmds'[i].op = "Spawn" => kid'[cmds'[i].id].unit = None
    PROVE  AskInv'
BY DEF AskInv, Spawns

LEMMA LoopFireKeeps ==
    ASSUME IInv, LoopFire
    PROVE  IInv'
<1>1. Typed /\ AskInv /\ Alike(kid)
  BY SameIsAlike DEF IInv
<1>2. /\ session.resident /\ loop.pc = "idle"
      /\ UNCHANGED <<kid, completed, cancelled, run, outcome, caller, query, buffer, events,
                     session, flow, told>>
  BY DEF LoopFire, loopOnly
<1>3. cmds \in Seq(Cmd) /\ Len(cmds) \in Nat
  BY <1>1 DEF Typed, SeqType
<1>4. \A i \in 1..Len(cmds) : cmds[i].op \notin {"LoopQuery", "LoopUnitActive"}
  BY <1>1, <1>2 DEF AskInv
<1>5. CASE loop.last = None /\ loop' = [loop EXCEPT !.pc = "clear"] /\ UNCHANGED cmds
  <2>1. \A i \in 1..Len(cmds') : cmds'[i].op = "Spawn" => kid'[cmds'[i].id].unit = None
    BY <1>1, <1>2, <1>5, Bounds DEF IInv, SpawnInv, AskInv, Spawns
  <2>2. AskInv'
    BY <1>2, <1>4, <1>5, <2>1, AsksNone
  <2>3. loop'.pc = "clear" /\ loop'.last = None
        /\ loop' \in [pc : {"idle", "query", "progress", "queried", "unit", "clear"},
                      on : Child \cup {None}, last : Child \cup {None}]
    BY <1>1, <1>5 DEF Typed, EnvType
  <2>4. UnitInv'
    BY <1>2, <1>5, <2>3 DEF IInv, UnitInv, Live, Erred
  <2>5. Moves(0)
    BY <1>1, <1>5, ChannelSame
  <2> QED BY <1>1, <1>2, <2>2, <2>3, <2>4, <2>5, LoopKeeps DEF Typed, RunType
<1>6. CASE /\ loop.last # None /\ Send("LoopQuery", loop.last)
           /\ loop' = [loop EXCEPT !.pc = "query", !.on = loop.last]
  <2>1. loop'.pc = "query" /\ loop'.last = loop.last
        /\ loop' \in [pc : {"idle", "query", "progress", "queried", "unit", "clear"},
                      on : Child \cup {None}, last : Child \cup {None}]
    BY <1>1, <1>6 DEF Typed, EnvType
  <2> DEFINE e == [op |-> "LoopQuery", id |-> loop.last]
  <2>2. e \in Cmd /\ e.op = "LoopQuery" /\ cmds' = Append(cmds, e)
    BY <1>1, <1>6 DEF Typed, EnvType, Cmd, Op, Send
  <2> HIDE DEF e
  <2>3. /\ Len(cmds') = Len(cmds) + 1 /\ cmds'[Len(cmds) + 1] = e
        /\ \A i \in 1..Len(cmds) : cmds'[i] = cmds[i]
    BY <1>3, <2>2
  <2>4. \A i \in 1..Len(cmds') : i \in 1..Len(cmds) \/ i = Len(cmds) + 1
    BY <1>3, <2>3
  <2>5. \A i \in 1..Len(cmds') : cmds'[i].op \in {"LoopQuery", "LoopUnitActive"} =>
            i = Len(cmds) + 1 /\ cmds'[i].op = "LoopQuery"
    BY <1>4, <2>2, <2>3, <2>4
  <2>6. \A i \in 1..Len(cmds') : cmds'[i].op = "Spawn" =>
            /\ i < Len(cmds) + 1
            /\ kid'[cmds'[i].id].unit # None => cmds'[i].id = loop'.last
    BY <1>1, <1>2, <1>3, <2>1, <2>2, <2>3, <2>4 DEF AskInv, Spawns
  <2>7. AskInv'
    BY <1>2, <2>1, <2>5, <2>6 DEF AskInv, Spawns
  <2>8. UnitInv'
    BY <1>2, <2>1 DEF IInv, UnitInv, Live, Erred
  <2>9. Moves(0)
    BY <1>1, <2>2, ChannelAppend
  <2> QED BY <1>1, <1>2, <2>1, <2>7, <2>8, <2>9, LoopKeeps DEF Typed, RunType
<1> QED BY <1>5, <1>6 DEF LoopFire

LEMMA AskUnitKeeps ==
    ASSUME IInv, AskUnit
    PROVE  IInv'
<1>1. Typed /\ AskInv /\ Alike(kid)
  BY SameIsAlike DEF IInv
<1>2. /\ loop.pc = "queried" /\ Send("LoopUnitActive", None)
      /\ loop' = [loop EXCEPT !.pc = "unit"]
      /\ UNCHANGED <<kid, completed, cancelled, run, outcome, caller, query, buffer, events,
                     session, flow, told>>
  BY DEF AskUnit, loopOnly
<1>3. cmds \in Seq(Cmd) /\ Len(cmds) \in Nat
  BY <1>1 DEF Typed, SeqType
<1>4. loop'.pc = "unit" /\ loop'.last = loop.last
      /\ loop' \in [pc : {"idle", "query", "progress", "queried", "unit", "clear"},
                    on : Child \cup {None}, last : Child \cup {None}]
  BY <1>1, <1>2 DEF Typed, EnvType
<1> DEFINE e == [op |-> "LoopUnitActive", id |-> None]
<1>5. e \in Cmd /\ e.op = "LoopUnitActive" /\ cmds' = Append(cmds, e)
  BY <1>2 DEF Cmd, Op, Send
<1> HIDE DEF e
<1>6. /\ Len(cmds') = Len(cmds) + 1 /\ cmds'[Len(cmds) + 1] = e
      /\ \A i \in 1..Len(cmds) : cmds'[i] = cmds[i]
  BY <1>3, <1>5
<1>7. \A i \in 1..Len(cmds') : i \in 1..Len(cmds) \/ i = Len(cmds) + 1
  BY <1>3, <1>6
<1>8. \A i \in 1..Len(cmds) : /\ cmds[i].op \notin {"LoopQuery", "LoopUnitActive"}
                              /\ cmds[i].op = "Spawn" => kid[cmds[i].id].unit = None
  BY <1>1, <1>2 DEF AskInv, Spawns
<1>9. \A i \in 1..Len(cmds') : cmds'[i].op \in {"LoopQuery", "LoopUnitActive"} =>
          i = Len(cmds) + 1 /\ cmds'[i].op = "LoopUnitActive"
  BY <1>5, <1>6, <1>7, <1>8
<1>10. \A i \in 1..Len(cmds') : cmds'[i].op = "Spawn" => kid'[cmds'[i].id].unit = None
  BY <1>2, <1>5, <1>6, <1>7, <1>8
<1>11. AskInv'
  BY <1>1, <1>2, <1>4, <1>9, <1>10 DEF AskInv, Spawns
<1>12. UnitInv'
  BY <1>2, <1>4 DEF IInv, UnitInv, Live, Erred
<1>13. Moves(0)
  BY <1>1, <1>5, ChannelAppend
<1> QED BY <1>1, <1>2, <1>4, <1>11, <1>12, <1>13, LoopKeeps DEF Typed, RunType

LEMMA LoopTimeoutKeeps ==
    ASSUME IInv, LoopTimeout
    PROVE  IInv'
<1>1. Typed /\ AskInv /\ Alike(kid)
  BY SameIsAlike DEF IInv
<1>2. /\ cmds' = Unheard(cmds) /\ loop' = [loop EXCEPT !.pc = "idle", !.on = None]
      /\ UNCHANGED <<kid, completed, cancelled, run, outcome, caller, query, buffer, events,
                     session, flow, told>>
  BY DEF LoopTimeout, loopOnly
<1>3. loop'.pc = "idle" /\ loop'.last = loop.last
      /\ loop' \in [pc : {"idle", "query", "progress", "queried", "unit", "clear"},
                    on : Child \cup {None}, last : Child \cup {None}]
  BY <1>1, <1>2 DEF Typed, EnvType
<1>4. /\ cmds' \in Seq(Cmd) /\ Len(cmds') = Len(cmds) /\ Len(cmds) \in Nat
      /\ \A i \in 1..Len(cmds) : /\ cmds'[i].op \notin {"LoopQuery", "LoopUnitActive"}
                                 /\ cmds'[i].op = "Spawn" => cmds'[i] = cmds[i]
                                 /\ cmds[i].op = "Teardown" => cmds'[i].op = "Teardown"
  <2>1. Len(cmds) \in Nat
    BY <1>1 DEF Typed, SeqType
  <2> QED BY <1>1, <1>2, <2>1, UnheardFacts
<1>5. Moves(0)
  BY <1>4 DEF Moves, SpawnsFollow, TeardownsStay
<1>6. \A i \in 1..Len(cmds') : cmds'[i].op = "Spawn" /\ kid'[cmds'[i].id].unit # None =>
          cmds'[i].id = loop'.last
  BY <1>1, <1>2, <1>3, <1>4 DEF AskInv, Spawns
<1>7. AskInv'
  BY <1>3, <1>4, <1>6 DEF AskInv, Spawns
<1>8. UnitInv'
  BY <1>2, <1>3 DEF IInv, UnitInv, Live, Erred
<1> QED BY <1>1, <1>2, <1>3, <1>5, <1>7, <1>8, LoopKeeps DEF Typed, RunType

LEMMA ClearAnchorKeeps ==
    ASSUME IInv, NEW c \in Child, ClearAnchor(c)
    PROVE  IInv'
<1>1. Typed /\ AskInv /\ Alike(kid)
  BY SameIsAlike DEF IInv
<1>2. /\ loop.last = c /\ caller[c] = "answered" /\ Erred(c)
      /\ loop' = [loop EXCEPT !.last = None]
      /\ UNCHANGED <<cmds, kid, completed, cancelled, run, outcome, caller, query, buffer, events,
                     session, flow, told>>
  BY DEF ClearAnchor, loopOnly, Erred
<1>3. loop'.pc = loop.pc /\ loop'.last = None
      /\ loop' \in [pc : {"idle", "query", "progress", "queried", "unit", "clear"},
                    on : Child \cup {None}, last : Child \cup {None}]
  BY <1>1, <1>2 DEF Typed, EnvType
<1>4. \A i \in 1..Len(cmds) : cmds[i].op = "Spawn" => kid[cmds[i].id].unit = None
  <2>1. kid[c].st \in {"completed", "refused"}
    BY <1>2 DEF IInv, KidInv, Together
  <2>2. \A i \in 1..Len(cmds) : cmds[i].op = "Spawn" => cmds[i].id # c
    BY <2>1 DEF IInv, SpawnInv, Spawns
  <2> QED BY <1>1, <1>2, <2>2 DEF AskInv, Spawns
<1>5. AskInv'
  BY <1>1, <1>2, <1>3, <1>4 DEF AskInv, Spawns
<1>6. UnitInv'
  BY <1>2, <1>3 DEF IInv, UnitInv, Live, Erred
<1>7. Moves(0)
  BY <1>1, <1>2, ChannelSame
<1> QED BY <1>1, <1>2, <1>3, <1>5, <1>6, <1>7, LoopKeeps DEF Typed, RunType

LEMMA LoopQueryKeeps ==
    ASSUME IInv, LoopQuery
    PROVE  IInv'
<1>1. Typed /\ AskInv /\ Alike(Reaped)
  BY ReapedAlike DEF IInv
<1>2. /\ Take("LoopQuery") /\ kid' = Reaped /\ cancelled' = CancelAll({})
      /\ UNCHANGED <<completed, run, outcome, caller, told, query, buffer, session, flow, events>>
  BY DEF LoopQuery, cmdOnly
<1>3. PICK pc \in {"progress", "idle", "queried"} : loop' = [loop EXCEPT !.pc = pc]
  BY DEF LoopQuery
<1>4. loop'.pc = pc /\ loop'.last = loop.last
      /\ loop' \in [pc : {"idle", "query", "progress", "queried", "unit", "clear"},
                    on : Child \cup {None}, last : Child \cup {None}]
  BY <1>1, <1>3 DEF Typed, EnvType
<1>5. /\ Moves(1) /\ LoopsFollow(1) /\ 1 \in 1..Len(cmds) /\ cmds[1].op = "LoopQuery"
      /\ Len(cmds') \in Nat
  BY <1>1, <1>2, ChannelTake DEF Moves
<1>6. loop.pc = "query"
  BY <1>1, <1>5 DEF AskInv
<1>7. \A i \in 1..Len(cmds') : cmds'[i].op \notin {"LoopQuery", "LoopUnitActive"}
  <2>1. SUFFICES ASSUME NEW i \in 1..Len(cmds'), cmds'[i].op \in {"LoopQuery", "LoopUnitActive"}
                 PROVE  FALSE
    OBVIOUS
  <2>2. i + 1 \in 1..Len(cmds) /\ cmds[i + 1].op \in {"LoopQuery", "LoopUnitActive"}
    BY <1>5, <2>1 DEF LoopsFollow
  <2>3. cmds[i + 1].op = "LoopQuery"
    BY <1>1, <1>6, <2>2 DEF AskInv
  <2>4. i + 1 = 1
    BY <1>1, <1>5, <2>2, <2>3 DEF AskInv
  <2> QED BY <1>5, <2>4
<1>8. \A i \in 1..Len(cmds') : cmds'[i].op = "Spawn" => kid'[cmds'[i].id].unit = None
  <2>1. SUFFICES ASSUME NEW i \in 1..Len(cmds'), cmds'[i].op = "Spawn",
                        kid'[cmds'[i].id].unit # None
                 PROVE  FALSE
    OBVIOUS
  <2>2. i + 1 \in 1..Len(cmds) /\ Spawns(i + 1) /\ cmds'[i] = cmds[i + 1]
    BY <1>5, <2>1 DEF Moves, SpawnsFollow, Spawns
  <2>3. kid[cmds[i + 1].id].unit # None
    BY <1>1, <1>2, <2>1, <2>2 DEF Alike, IInv, SpawnInv
  <2>4. i + 1 < 1
    BY <1>1, <1>5, <2>2, <2>3 DEF AskInv
  <2> QED BY <1>5, <2>4
<1>9. AskInv'
  BY <1>2, <1>6, <1>7, <1>8, AsksNone
<1>10. UnitInv'
  BY <1>1, <1>2, <1>4 DEF IInv, UnitInv, Live, Erred, Alike
<1> QED BY <1>1, <1>2, <1>4, <1>5, <1>9, <1>10, CancelAllFacts, LoopKeeps

LEMMA LoopUnitActiveKeeps ==
    ASSUME IInv, LoopUnitActive
    PROVE  IInv'
<1>1. Typed /\ AskInv /\ Alike(Reaped)
  BY ReapedAlike DEF IInv
<1>2. /\ Take("LoopUnitActive") /\ kid' = Reaped /\ cancelled' = CancelAll({})
      /\ UNCHANGED <<completed, run, outcome, caller, told, query, buffer, session, flow, events>>
  BY DEF LoopUnitActive, cmdOnly
<1>3. PICK pc \in {"idle", "clear"} :
        /\ loop' = [loop EXCEPT !.pc = pc]
        /\ pc = "clear" => ~\E c \in Child : Live(c) /\ kid[c].unit # None
  BY DEF LoopUnitActive
<1>4. loop'.pc = pc /\ loop'.last = loop.last
      /\ loop' \in [pc : {"idle", "query", "progress", "queried", "unit", "clear"},
                    on : Child \cup {None}, last : Child \cup {None}]
  BY <1>1, <1>3 DEF Typed, EnvType
<1>5. /\ Moves(1) /\ LoopsFollow(1) /\ 1 \in 1..Len(cmds) /\ cmds[1].op = "LoopUnitActive"
      /\ Len(cmds') \in Nat
  BY <1>1, <1>2, ChannelTake DEF Moves
<1>6. loop.pc = "unit"
  BY <1>1, <1>5 DEF AskInv
<1>7. \A i \in 1..Len(cmds') : cmds'[i].op \notin {"LoopQuery", "LoopUnitActive"}
  <2>1. SUFFICES ASSUME NEW i \in 1..Len(cmds'), cmds'[i].op \in {"LoopQuery", "LoopUnitActive"}
                 PROVE  FALSE
    OBVIOUS
  <2>2. i + 1 \in 1..Len(cmds) /\ cmds[i + 1].op \in {"LoopQuery", "LoopUnitActive"}
    BY <1>5, <2>1 DEF LoopsFollow
  <2>3. cmds[i + 1].op = "LoopUnitActive"
    BY <1>1, <1>6, <2>2 DEF AskInv
  <2>4. i + 1 = 1
    BY <1>1, <1>5, <2>2, <2>3 DEF AskInv
  <2> QED BY <1>5, <2>4
<1>8. \A i \in 1..Len(cmds') : cmds'[i].op = "Spawn" => kid'[cmds'[i].id].unit = None
  <2>1. SUFFICES ASSUME NEW i \in 1..Len(cmds'), cmds'[i].op = "Spawn",
                        kid'[cmds'[i].id].unit # None
                 PROVE  FALSE
    OBVIOUS
  <2>2. i + 1 \in 1..Len(cmds) /\ Spawns(i + 1) /\ cmds'[i] = cmds[i + 1]
    BY <1>5, <2>1 DEF Moves, SpawnsFollow, Spawns
  <2>3. kid[cmds[i + 1].id].unit # None
    BY <1>1, <1>2, <2>1, <2>2 DEF Alike, IInv, SpawnInv
  <2> QED BY <1>1, <1>6, <2>2, <2>3 DEF AskInv
<1>9. AskInv'
  BY <1>2, <1>6, <1>7, <1>8, AsksNone
<1>10. UnitInv'
  BY <1>1, <1>2, <1>3, <1>4 DEF IInv, UnitInv, Live, Erred, Alike
<1> QED BY <1>1, <1>2, <1>4, <1>5, <1>9, <1>10, CancelAllFacts, LoopKeeps

LEMMA FinishProgressKeeps ==
    ASSUME IInv, finish_progress
    PROVE  IInv'
<1>1. Typed /\ AskInv /\ Alike(kid)
  BY SameIsAlike DEF IInv
<1>2. UNCHANGED <<cmds, kid, completed, cancelled, run, outcome, caller, buffer,
                  events, session, flow, told>>
  BY DEF finish_progress
<1>3. CASE UNCHANGED loop /\ \E w \in Waiter : query' = [query EXCEPT ![w].st = "answered"]
  BY <1>2, <1>3, WaiterKeeps
<1>4. CASE /\ loop.pc = "progress" /\ UNCHANGED query
           /\ loop' = [loop EXCEPT !.pc = IF kid[loop.on].st = "active" THEN "idle" ELSE "queried"]
  <2>1. loop'.pc \in {"idle", "queried"} /\ loop'.last = loop.last
        /\ loop' \in [pc : {"idle", "query", "progress", "queried", "unit", "clear"},
                      on : Child \cup {None}, last : Child \cup {None}]
    BY <1>1, <1>4 DEF Typed, EnvType
  <2>2. AskInv'
    BY <1>1, <1>2, <1>4, <2>1 DEF AskInv, Spawns
  <2>3. UnitInv'
    BY <1>2, <2>1 DEF IInv, UnitInv, Live, Erred
  <2>4. Moves(0)
    BY <1>1, <1>2, ChannelSame
  <2> QED BY <1>1, <1>2, <1>4, <2>1, <2>2, <2>3, <2>4, LoopKeeps DEF Typed, RunType
<1> QED BY <1>3, <1>4 DEF finish_progress

-----------------------------------------------------------------------------
(* A child is requested.                                                   *)

LEMMA RequestKeeps ==
    ASSUME IInv, NEW kind \in Kind, NEW by \in Child \cup {None}, NEW life \in 0..MaxLife,
           Request(kind, by, life), by = None => life = None \/ life > session.torn,
           kind = "nested" => by # None, by # None => run[by] = "live" /\ life = told[by].life,
           UNCHANGED <<completed, cancelled, run, outcome, query, buffer, events, session, flow>>,
           kind # "loop" => UNCHANGED loop,
           kind = "loop" =>
             /\ by = None /\ loop.pc = "clear"
             /\ loop' = [pc |-> "idle", on |-> None,
                         last |-> Cardinality({d \in Child : kid[d].st # "none"}) + 1]
    PROVE  IInv'
<1>1. PICK c : /\ c = Cardinality({d \in Child : kid[d].st # "none"}) + 1
               /\ c <= Budget[events] /\ cmds' = Append(cmds, [op |-> "Spawn", id |-> c])
               /\ kid' = [kid EXCEPT ![c] = [NoKid EXCEPT !.st = "sent", !.kind = kind, !.by = by,
                             !.surface = kind # "workflow", !.unit = IF kind = "loop" THEN c ELSE None]]
               /\ caller' = [caller EXCEPT ![c] = "waiting"]
               /\ told' = [told EXCEPT ![c].life = life]
  BY DEF Request, Send
<1>2. Typed /\ KidInv /\ SpawnInv /\ LifeInv /\ AskInv /\ UnitInv
  BY DEF IInv
<1>3. /\ c \in Child /\ kid[c].st = "none"
      /\ \A d \in Child : d < c => kid[d].st # "none"
  <2>1. Cardinality({d \in Child : kid[d].st # "none"}) \in Nat
    BY Bounds, FS_Subset, FS_CardinalityType
  <2>2. Budget[events] \in 1..MaxChild
    BY <1>2, CoordinatorAssumption DEF Typed, EnvType
  <2>3. c <= MaxChild
    BY <1>1, <2>1, <2>2, Bounds
  <2> QED BY <1>1, <1>2, <2>3, NextChild DEF KidInv
<1> DEFINE new == [NoKid EXCEPT !.st = "sent", !.kind = kind, !.by = by,
                     !.surface = kind # "workflow", !.unit = IF kind = "loop" THEN c ELSE None]
<1>4. kid' = [kid EXCEPT ![c] = new]
  BY <1>1
<1>5. new \in KidRec
  <2>1. NoKid \in KidRec
    BY DEF NoKid, KidRec, Kind
  <2> QED BY <1>3, <2>1 DEF KidRec
<1>6. /\ new.st = "sent" /\ new.by = by /\ new.kind = kind /\ new.unit = (IF kind = "loop" THEN c ELSE None)
      /\ new.reply = FALSE
  BY DEF NoKid
<1> HIDE DEF new
<1>7. /\ kid'[c] = new /\ \A d \in Child : d # c => kid'[d] = kid[d]
      /\ kid' \in [Child -> KidRec]
  BY <1>2, <1>3, <1>4, <1>5 DEF Typed, KidType
<1>8. by # None => by # c /\ kid[by].st = "active"
  <2>1. SUFFICES ASSUME by # None PROVE by # c /\ kid[by].st = "active"
    OBVIOUS
  <2>2. by \in Child /\ Together(by) /\ kid[by] \in KidRec
    BY <1>2, <2>1 DEF KidInv, Typed, KidType
  <2>3. kid[by].st \in {"none", "sent", "pending", "active", "completed", "refused"}
    BY <2>2 DEF KidRec
  <2> QED BY <1>3, <2>1, <2>2, <2>3 DEF Together
<1>9. /\ told' \in [Child -> [to : SUBSET {"caller", "waiter", "surface"}, life : 0..MaxLife]]
      /\ told'[c].life = life /\ \A d \in Child : d # c => told'[d] = told[d]
  <2>1. told'[c].life = life
    BY <1>1, <1>2, <1>3 DEF Typed, RunType
  <2>2. told' \in [Child -> [to : SUBSET {"caller", "waiter", "surface"}, life : 0..MaxLife]]
    BY <1>1, <1>2, <1>3 DEF Typed, RunType
  <2>3. \A d \in Child : d # c => told'[d] = told[d]
    BY <1>1, <1>2, <1>3 DEF Typed, RunType
  <2> QED BY <2>1, <2>2, <2>3
<1>10. /\ caller'[c] = "waiting" /\ \A d \in Child : d # c => caller'[d] = caller[d]
       /\ caller' \in [Child -> {"none", "waiting", "gone", "answered", "handed_off"}]
  BY <1>1, <1>2, <1>3 DEF Typed, RunType
<1> DEFINE e == [op |-> "Spawn", id |-> c]
<1>11. e \in Cmd /\ e.op = "Spawn" /\ e.id = c /\ cmds' = Append(cmds, e)
  BY <1>1, <1>3 DEF Cmd, Op
<1> HIDE DEF e
<1>12. /\ cmds' \in Seq(Cmd) /\ Len(cmds) \in Nat /\ Len(cmds') = Len(cmds) + 1
       /\ cmds'[Len(cmds) + 1] = e /\ \A i \in 1..Len(cmds) : cmds'[i] = cmds[i]
  BY <1>2, <1>11 DEF Typed, SeqType
<1>13. \A i \in 1..Len(cmds') : i \in 1..Len(cmds) \/ i = Len(cmds) + 1
  BY <1>12
<1>14. \A i \in 1..Len(cmds) : i \in 1..Len(cmds') /\ i < Len(cmds) + 1
  BY <1>12
<1>15. \A i \in 1..Len(cmds) : cmds[i].op = "Spawn" =>
          /\ cmds[i].id \in Child /\ cmds[i].id # c /\ kid[cmds[i].id].st = "sent"
          /\ kid'[cmds[i].id] = kid[cmds[i].id] /\ told'[cmds[i].id] = told[cmds[i].id]
  BY <1>2, <1>3, <1>7, <1>9 DEF SpawnInv, Spawns
<1>16. kind # "loop" => loop' = loop
  OBVIOUS
<1>17. Typed'
  <2>1. KidType'
    BY <1>2, <1>6, <1>7 DEF Typed, KidType, Answered
  <2>2. EnvType'
    <3>1. CASE kind = "loop"
      BY <1>1, <1>2, <1>3, <3>1 DEF Typed, EnvType
    <3>2. CASE kind # "loop"
      BY <1>2, <3>2 DEF Typed, EnvType
    <3> QED BY <3>1, <3>2
  <2> QED BY <1>2, <1>9, <1>10, <1>12, <2>1, <2>2 DEF Typed, RunType, QueryType, SeqType, Bounded
<1>18. KidInv'
  <2>1. Numbered'
    BY <1>2, <1>3, <1>6, <1>7 DEF KidInv, Numbered
  <2>2. ASSUME NEW d \in Child PROVE Together(d)'
    <3>1. CASE d = c
      <4>1. run[c] = "none" /\ outcome[c] = "none"
        BY <1>2, <1>3 DEF KidInv, Together
      <4>2. by # None => kid'[by].st = "active" /\ told'[by] = told[by] /\ run'[by] = "live"
        BY <1>7, <1>8, <1>9
      <4>3. by # None => told[by].life # None
        BY <1>2, <1>8 DEF KidInv, Together
      <4> QED BY <1>6, <1>7, <1>9, <1>10, <3>1, <4>1, <4>2, <4>3 DEF Together
    <3>2. CASE d # c
      <4>1. Together(d) /\ kid'[d] = kid[d] /\ told'[d] = told[d] /\ caller'[d] = caller[d]
        BY <1>2, <1>7, <1>9, <1>10, <3>2 DEF KidInv
      <4>2. kid[d].by # None => kid[d].by \in Child
        BY <1>2 DEF Typed, KidType, KidRec
      <4>3. kid[d].by # None =>
              kid[d].by # c /\ kid'[kid[d].by] = kid[kid[d].by] /\ told'[kid[d].by] = told[kid[d].by]
        BY <1>3, <1>7, <1>9, <4>1, <4>2 DEF Together
      <4> QED BY <4>1, <4>3 DEF Together
    <3> QED BY <3>1, <3>2
  <2>3. CompletionHeard'
    BY <1>2, <1>6, <1>7, <1>9 DEF KidInv, CompletionHeard
  <2> QED BY <2>1, <2>2, <2>3 DEF KidInv
<1>19. SpawnInv'
  <2>1. \A i \in 1..Len(cmds') : cmds'[i].op = "Spawn" =>
          cmds'[i].id \in Child /\ kid'[cmds'[i].id].st = "sent"
    BY <1>3, <1>6, <1>7, <1>11, <1>12, <1>13, <1>15
  <2>2. \A i, j \in 1..Len(cmds') :
          cmds'[i].op = "Spawn" /\ cmds'[j].op = "Spawn" /\ cmds'[i].id = cmds'[j].id => i = j
    BY <1>2, <1>11, <1>12, <1>13, <1>15 DEF SpawnInv, Spawns
  <2> QED BY <2>1, <2>2 DEF SpawnInv, Spawns
<1>20. Teardowns # {} => Teardowns' # {}
  BY <1>12, <1>14 DEF Teardowns
<1>21. LifeInv'
  <2>1. LiveInv'
    BY <1>2, <1>6, <1>7, <1>9, <1>20 DEF LifeInv, LiveInv, Live, InSession, Free
  <2>2. SentInv'
    <3>1. SUFFICES ASSUME NEW i \in 1..Len(cmds'), cmds'[i].op = "Spawn", kid'[cmds'[i].id].by = None,
                          ~(told'[cmds'[i].id].life = None \/ told'[cmds'[i].id].life > session'.torn)
                   PROVE  \E j \in 1..Len(cmds') : i < j /\ cmds'[j].op = "Teardown"
      BY DEF SentInv, Spawns, InSession, Free
    <3>2. i # Len(cmds) + 1
      BY <1>6, <1>7, <1>9, <1>11, <1>12, <3>1
    <3>3. i \in 1..Len(cmds) /\ cmds[i] = cmds'[i]
      BY <1>12, <1>13, <3>2
    <3>4. InSession(cmds[i].id) /\ ~Free(cmds[i].id)
      BY <1>15, <3>1, <3>3 DEF InSession, Free
    <3>5. PICK j \in 1..Len(cmds) : i < j /\ cmds[j].op = "Teardown"
      BY <1>2, <3>1, <3>3, <3>4 DEF LifeInv, SentInv, Spawns
    <3> QED BY <1>12, <1>14, <3>5
  <2>3. BufferInv'
    <3>1. ASSUME NEW i \in 1..Len(buffer)
          PROVE  /\ kid'[buffer[i]] = kid[buffer[i]] /\ told'[buffer[i]] = told[buffer[i]]
                 /\ kid[buffer[i]].st = "completed"
                 /\ kid[buffer[i]].by = None =>
                      (told[buffer[i]].life = None \/ told[buffer[i]].life > session.torn) \/ Teardowns # {}
      <4>1. buffer[i] \in Child
        BY <1>2 DEF Typed, SeqType, Bounded
      <4>2. /\ kid[buffer[i]].st = "completed"
            /\ InSession(buffer[i]) => Free(buffer[i]) \/ Teardowns # {}
        BY <1>2 DEF LifeInv, BufferInv
      <4> QED BY <1>3, <1>7, <1>9, <4>1, <4>2 DEF InSession, Free
    <3> QED BY <1>20, <3>1 DEF BufferInv, InSession, Free
  <2> QED BY <2>1, <2>2, <2>3 DEF LifeInv
<1>22. CASE kind # "loop"
  <2>1. loop' = loop /\ new.unit = None
    BY <1>6, <1>22
  <2>2. \A i \in 1..Len(cmds') : cmds'[i].op = "Spawn" /\ kid'[cmds'[i].id].unit # None =>
          i \in 1..Len(cmds) /\ kid[cmds[i].id].unit # None /\ cmds'[i] = cmds[i]
    BY <1>7, <1>11, <1>12, <1>13, <1>15, <2>1
  <2>3. \A i \in 1..Len(cmds') : cmds'[i].op \in {"LoopQuery", "LoopUnitActive"} =>
          i \in 1..Len(cmds) /\ cmds'[i] = cmds[i]
    BY <1>11, <1>12, <1>13
  <2>4. AskInv'
    BY <1>2, <2>1, <2>2, <2>3 DEF AskInv, Spawns
  <2>5. UnitInv'
    BY <1>2, <1>6, <1>7, <2>1 DEF UnitInv, Live, Erred
  <2> QED BY <1>17, <1>18, <1>19, <1>21, <2>4, <2>5 DEF IInv
<1>23. CASE kind = "loop"
  <2>1. loop.pc = "clear" /\ loop'.pc = "idle" /\ loop'.last = c
    BY <1>1, <1>23
  <2>2. \A i \in 1..Len(cmds) : /\ cmds[i].op \notin {"LoopQuery", "LoopUnitActive"}
                                /\ cmds[i].op = "Spawn" => kid[cmds[i].id].unit = None
    BY <1>2, <2>1 DEF AskInv, Spawns
  <2>3. \A i \in 1..Len(cmds') : cmds'[i].op \notin {"LoopQuery", "LoopUnitActive"}
    BY <1>11, <1>12, <1>13, <2>2
  <2>4. \A i \in 1..Len(cmds') : cmds'[i].op = "Spawn" /\ kid'[cmds'[i].id].unit # None =>
          cmds'[i].id = c
    BY <1>11, <1>12, <1>13, <1>15, <2>2
  <2>5. AskInv'
    BY <2>1, <2>3, <2>4 DEF AskInv, Spawns
  <2>6. UnitInv'
    BY <1>2, <1>6, <1>7, <2>1 DEF UnitInv, Live, Erred
  <2> QED BY <1>17, <1>18, <1>19, <1>21, <2>5, <2>6 DEF IInv
<1> QED BY <1>22, <1>23

\* A request of an actor is of a life that was not torn down, or of none.
LEMMA OfActorFacts ==
    ASSUME IInv, NEW n \in 1..session.life
    PROVE  OfActor(n) \in 0..MaxLife /\ (OfActor(n) = None \/ OfActor(n) > session.torn)
BY Bounds DEF OfActor, IInv, Typed, EnvType, None

LEMMA RequestChildKeeps ==
    ASSUME IInv, RequestChild
    PROVE  IInv'
<1>1. UNCHANGED <<completed, cancelled, run, outcome, query, buffer, events, session, flow, loop>>
  BY DEF RequestChild, envVars
<1>2. CASE \E kind \in {"foreground", "background", "workflow"}, n \in 1..session.life :
             Request(kind, None, OfActor(n))
  <2>1. PICK kind \in {"foreground", "background", "workflow"}, n \in 1..session.life :
          Request(kind, None, OfActor(n))
    BY <1>2
  <2>2. kind \in Kind /\ kind \notin {"loop", "nested"}
    BY DEF Kind
  <2> QED BY <1>1, <2>1, <2>2, OfActorFacts, RequestKeeps
<1>3. CASE \E c \in Child : run[c] = "live" /\ Request("nested", c, told[c].life)
  <2>1. PICK c \in Child : run[c] = "live" /\ Request("nested", c, told[c].life)
    BY <1>3
  <2>2. "nested" \in Kind /\ c # None /\ told[c].life \in 0..MaxLife
    BY Bounds DEF Kind, IInv, Typed, RunType
  <2>3. PICK l \in 0..MaxLife : l = told[c].life
    BY <2>2
  <2>4. Request("nested", c, l) /\ run[c] = "live"
    BY <2>1, <2>3
  <2>5. "nested" # "loop" /\ c \in Child \cup {None}
    OBVIOUS
  <2> QED BY ONLY <1>1, <2>2, <2>3, <2>4, <2>5, IInv, RequestKeeps
<1> QED BY <1>2, <1>3 DEF RequestChild

LEMMA LoopSpawnKeeps ==
    ASSUME IInv, LoopSpawn
    PROVE  IInv'
<1>1. "loop" \in Kind /\ session.life \in 1..session.life
  BY DEF Kind, IInv, Typed, EnvType
<1> QED BY <1>1, OfActorFacts, RequestKeeps DEF LoopSpawn

-----------------------------------------------------------------------------
(* The runs.                                                               *)

\* A step of a run.  The life of the child may be set as it starts, when no
\* child can have requested another one yet.
LEMMA RunKeeps ==
    ASSUME IInv, NEW c \in Child,
           UNCHANGED <<cmds, kid, completed, cancelled, caller, query, buffer, envVars>>,
           NEW r \in {"ready", "reported", "refused", "live", "ended"},
           NEW o \in {"none", "ok", "failed", "cancelled"}, NEW l \in 0..MaxLife,
           run' = [run EXCEPT ![c] = r], outcome' = [outcome EXCEPT ![c] = o],
           told' = [told EXCEPT ![c].life = l],
           l = told[c].life \/ (l > session.torn /\ run[c] = "start"),
           outcome[c] = "none", Live(c), Together(c)'
    PROVE  IInv'
<1>1. UNCHANGED <<cmds, kid, completed, cancelled, caller, query, buffer, events, session, flow, loop>>
  BY DEF envVars
<1>2. Typed
  BY DEF IInv
<1>3. /\ \A d \in Child : d # c => run'[d] = run[d] /\ outcome'[d] = outcome[d] /\ told'[d] = told[d]
      /\ run'[c] = r /\ told'[c].life = l
      /\ told' \in [Child -> [to : SUBSET {"caller", "waiter", "surface"}, life : 0..MaxLife]]
  BY <1>2 DEF Typed, RunType
<1>4. Typed'
  <2>1. RunType'
    BY <1>1, <1>2, <1>3 DEF Typed, RunType
  <2> QED BY <1>1, <1>2, <2>1 DEF Typed, KidType, QueryType, SeqType, EnvType, Bounded, Answered
<1>5. KidInv'
  <2>1. Numbered'
    BY <1>1 DEF IInv, KidInv, Numbered
  <2>2. ASSUME NEW d \in Child PROVE Together(d)'
    <3>1. CASE d = c
      BY <3>1
    <3>2. CASE d # c
      <4>1. Together(d) /\ (kid[d].by # None => kid[d].by \in Child)
        BY <1>2 DEF IInv, KidInv, Typed, KidType, KidRec
      <4>2. kid[d].by # None => /\ told'[kid[d].by].life = told[kid[d].by].life
                                /\ run'[kid[d].by] \notin {"none", "start"}
        <5>1. CASE kid[d].by = c
          BY <1>3, <4>1, <5>1 DEF Together
        <5>2. CASE kid[d].by # c
          BY <1>3, <4>1, <5>2 DEF Together
        <5> QED BY <5>1, <5>2
      <4> QED BY <1>1, <1>3, <3>2, <4>1, <4>2 DEF Together
    <3> QED BY <3>1, <3>2
  <2>3. CompletionHeard'
    <3>1. \A d \in Child : kid[d].st = "completed" => d # c
      BY DEF Live
    <3> QED BY <1>1, <1>3, <3>1 DEF IInv, KidInv, CompletionHeard
  <2> QED BY <2>1, <2>2, <2>3 DEF KidInv
<1>6. Alike(kid')
  BY <1>1, <1>2, SameIsAlike
<1>7. Moves(0) /\ LoopsFollow(0)
  BY <1>1, <1>2, ChannelSame
<1>8. SpawnInv' /\ AskInv'
  BY <1>1, <1>6, <1>7, CalmSpawns, CalmAsks
<1>9. \A d \in Child : Free(d) => told'[d].life = None \/ told'[d].life > session.torn
  BY <1>3 DEF Free
<1>10. LiveInv'
  BY <1>1, <1>9 DEF IInv, LifeInv, LiveInv, Live, InSession, Free, Teardowns
<1>11. SentInv'
  <2>1. \A i \in 1..Len(cmds) : Spawns(i) => cmds[i].id \in Child
    BY DEF IInv, SpawnInv
  <2> QED BY <1>1, <1>9, <2>1 DEF IInv, LifeInv, SentInv, Spawns, InSession, Free
<1>12. BufferInv'
  <2>1. \A i \in 1..Len(buffer) : buffer[i] \in Child
    BY <1>2 DEF Typed, SeqType, Bounded
  <2> QED BY <1>1, <1>9, <2>1 DEF IInv, LifeInv, BufferInv, InSession, Free, Teardowns
<1>13. UnitInv'
  <2>1. \A u \in Child : Erred(u) => outcome'[u] \in {"failed", "cancelled"}
    BY <1>3 DEF Erred
  <2>2. \A d \in Child : kid[d].unit # None => kid[d].unit \in Child
    BY <1>2 DEF Typed, KidType, KidRec
  <2> QED BY <1>1, <2>1, <2>2 DEF IInv, UnitInv, Live, Erred
<1> QED BY <1>4, <1>5, <1>8, <1>10, <1>11, <1>12, <1>13 DEF IInv, LifeInv

LEMMA RunFacts ==
    ASSUME IInv, NEW c \in Child
    PROVE  /\ Together(c) /\ kid[c] \in KidRec
           /\ run[c] \in {"start", "ready", "reported", "refused"} => kid[c].st = "pending"
           /\ run[c] = "live" => kid[c].st = "active" /\ kid[c].by = None
           /\ run[c] = "ended" => Live(c)
           /\ run[c] \in {"ready", "reported", "refused"} => kid[c].by = None
           /\ run \in [Child -> {"none", "start", "ready", "reported", "refused", "live", "ended", "over"}]
           /\ outcome \in [Child -> {"none", "ok", "failed", "cancelled"}]
<1>1. Together(c) /\ kid[c] \in KidRec
  BY DEF IInv, KidInv, Typed, KidType
<1>2. kid[c].st \in {"none", "sent", "pending", "active", "completed", "refused"}
  BY <1>1 DEF KidRec
<1> QED BY <1>1, <1>2 DEF Together, Live, IInv, Typed, RunType

LEMMA RunStepKeeps ==
    ASSUME IInv, NEW c \in Child, RunStep(c) \/ EndTurn(c)
    PROVE  IInv'
<1>1. /\ Together(c)
      /\ run \in [Child -> {"none", "start", "ready", "reported", "refused", "live", "ended", "over"}]
      /\ outcome \in [Child -> {"none", "ok", "failed", "cancelled"}]
      /\ told \in [Child -> [to : SUBSET {"caller", "waiter", "surface"}, life : 0..MaxLife]]
  BY RunFacts DEF IInv, Typed, RunType
<1>2. UNCHANGED <<cmds, kid, completed, cancelled, caller, query, buffer, envVars>>
  BY DEF RunStep, Start, Report, Stop, EndTurn, runOnly
<1>3. PICK m \in 0..MaxLife : m = told[c].life
  BY <1>1
<1>4. UNCHANGED told => told' = [told EXCEPT ![c].life = m]
  BY <1>1, <1>3
<1>5. CASE Start(c)
  <2>1. run[c] = "start" /\ kid[c].st = "pending" /\ outcome[c] = "none"
    BY <1>1, <1>5, RunFacts DEF Start, Together
  <2>2. CASE /\ HasParent(c) /\ run' = [run EXCEPT ![c] = "ready"] /\ UNCHANGED outcome
             /\ told' = [told EXCEPT ![c].life = IF kid[c].kind = "nested" THEN @ ELSE session.life]
    <3>1. outcome' = [outcome EXCEPT ![c] = "none"]
      BY <1>1, <2>1, <2>2
    <3>2. run'[c] = "ready" /\ outcome'[c] = "none" /\ kid[c].by = None
      BY <1>1, <2>1, <2>2 DEF HasParent, InSession
    <3>3. PICK l \in 0..MaxLife : l = IF kid[c].kind = "nested" THEN told[c].life ELSE session.life
      <4>1. session.life \in 0..MaxLife
        BY Bounds DEF IInv, Typed, EnvType
      <4> QED BY <1>1, <4>1
    <3>4. told' = [told EXCEPT ![c].life = l]
      BY <1>1, <2>2, <3>3
    <3>5. l = told[c].life \/ l > session.torn
      BY <2>2, <3>3 DEF HasParent, IInv, Typed, EnvType
    <3>6. told'[c].life = l /\ l # None
      <4>1. kid[c].kind = "nested" => told[c].life # None
        BY <1>1, <2>1 DEF Together
      <4>2. session.life # None
        BY Bounds DEF IInv, Typed, EnvType, None
      <4> QED BY <1>1, <3>3, <3>4, <4>1, <4>2
    <3>7. Together(c)'
      BY <1>1, <1>2, <2>1, <3>2, <3>6 DEF Together
    <3> QED BY <1>2, <2>1, <2>2, <3>1, <3>4, <3>5, <3>7, RunKeeps DEF Live
  <2>3. CASE run' = [run EXCEPT ![c] = "ended"] /\ UNCHANGED told
             /\ \E o \in {"cancelled", "failed"} : outcome' = [outcome EXCEPT ![c] = o]
    <3>1. PICK o \in {"cancelled", "failed"} : outcome' = [outcome EXCEPT ![c] = o]
      BY <2>3
    <3>2. run'[c] = "ended"
      BY <1>1, <2>3
    <3>3. kid[c].by # None => run'[kid[c].by] \notin {"none", "start"}
      <4>1. kid[c].by # None => kid[c].by \in Child
        BY RunFacts DEF KidRec
      <4> QED BY <1>1, <2>1, <2>3, <4>1 DEF Together
    <3>4. Together(c)'
      BY <1>1, <1>2, <2>1, <2>3, <3>2, <3>3 DEF Together
    <3> QED BY <1>2, <1>3, <1>4, <2>1, <2>3, <3>1, <3>4, RunKeeps DEF Live
  <2> QED BY <1>5, <2>2, <2>3 DEF Start
<1>6. CASE Report(c)
  <2>1. run[c] = "ready" /\ kid[c].st = "pending" /\ outcome[c] = "none" /\ kid[c].by = None
    BY <1>1, <1>6, RunFacts DEF Report, Together
  <2>2. run' = [run EXCEPT ![c] = "reported"] /\ outcome' = [outcome EXCEPT ![c] = "none"]
        /\ UNCHANGED told
    BY <1>1, <1>6, <2>1 DEF Report, runOnly
  <2>3. run'[c] = "reported" /\ outcome'[c] = "none"
    BY <1>1, <2>2
  <2>4. Together(c)'
    BY <1>1, <1>2, <2>1, <2>2, <2>3 DEF Together
  <2> QED BY <1>2, <1>3, <1>4, <2>1, <2>2, <2>4, RunKeeps DEF Live
<1>7. CASE Stop(c) \/ EndTurn(c)
  <2>1. PICK o \in {"ok", "failed", "cancelled"} : outcome' = [outcome EXCEPT ![c] = o]
    BY <1>7 DEF Stop, EndTurn
  <2>2. run[c] \in {"refused", "live"} /\ run' = [run EXCEPT ![c] = "ended"] /\ UNCHANGED told
    BY <1>7 DEF Stop, EndTurn, runOnly
  <2>3. Live(c) /\ outcome[c] = "none" /\ kid[c].by = None
    BY <1>1, <2>2, RunFacts DEF Together, Live
  <2>4. run'[c] = "ended"
    BY <1>1, <2>2
  <2>5. Together(c)'
    BY <1>1, <1>2, <2>2, <2>3, <2>4 DEF Together, Live
  <2> QED BY <1>2, <1>3, <1>4, <2>1, <2>2, <2>3, <2>5, RunKeeps
<1> QED BY <1>5, <1>6, <1>7 DEF RunStep

\* A pending child becomes active; requests, lives and units stay as they are.
LEMMA StartedKeeps ==
    ASSUME IInv, NEW c \in Child, Started(c)
    PROVE  IInv'
<1>1. /\ Together(c) /\ run[c] = "reported" /\ kid[c].st = "pending" /\ kid[c].by = None
      /\ outcome[c] = "none"
  BY RunFacts DEF Started, Together
<1>2. UNCHANGED <<cmds, completed, cancelled, outcome, caller, query, buffer, events, session, flow,
                  loop, told>>
  BY DEF Started, envVars
<1>3. Typed
  BY DEF IInv
<1>4. CASE run' = [run EXCEPT ![c] = "refused"] /\ UNCHANGED kid
  <2>1. run'[c] = "refused"
    BY <1>3, <1>4 DEF Typed, RunType
  <2>2. outcome' = [outcome EXCEPT ![c] = "none"]
    BY <1>1, <1>2, <1>3 DEF Typed, RunType
  <2>3. Together(c)'
    BY <1>1, <1>2, <1>4, <2>1 DEF Together
  <2>4. UNCHANGED <<cmds, kid, completed, cancelled, caller, query, buffer, envVars>>
    BY <1>2, <1>4 DEF envVars
  <2>5. PICK m \in 0..MaxLife : m = told[c].life /\ told' = [told EXCEPT ![c].life = m]
    BY <1>2, <1>3 DEF Typed, RunType
  <2> QED BY <1>1, <1>4, <2>2, <2>3, <2>4, <2>5, RunKeeps DEF Live
<1>5. CASE run' = [run EXCEPT ![c] = "live"] /\ kid' = [kid EXCEPT ![c].st = "active"]
  <2>1. /\ kid'[c] = [kid[c] EXCEPT !.st = "active"] /\ \A d \in Child : d # c => kid'[d] = kid[d]
        /\ kid[c] \in KidRec
    BY <1>3, <1>5 DEF Typed, KidType
  <2>2. /\ kid'[c].st = "active" /\ kid'[c].by = kid[c].by /\ kid'[c].unit = kid[c].unit
        /\ kid'[c].surface = kid[c].surface /\ kid'[c] \in KidRec
    BY <2>1 DEF KidRec
  <2>3. kid' \in [Child -> KidRec] /\ Answered(kid')
    BY <1>3, <1>5, <2>1, <2>2 DEF Typed, KidType, Answered
  <2>4. /\ run'[c] = "live" /\ \A d \in Child : d # c => run'[d] = run[d]
        /\ run' \in [Child -> {"none", "start", "ready", "reported", "refused", "live", "ended", "over"}]
    BY <1>3, <1>5 DEF Typed, RunType
  <2>5. Typed'
    BY <1>2, <1>3, <2>3, <2>4 DEF Typed, KidType, RunType, QueryType, SeqType, EnvType, Bounded, Answered
  <2>6. \A d \in Child : /\ kid'[d].by = kid[d].by /\ kid'[d].unit = kid[d].unit
                         /\ kid'[d].surface = kid[d].surface
                         /\ kid'[d].st \in {"pending", "active"} <=> Live(d)
                         /\ kid[d].st # "pending" => kid'[d] = kid[d]
                         /\ kid'[d].st = "none" <=> kid[d].st = "none"
    BY <1>1, <2>1, <2>2 DEF Live
  <2>7. KidInv'
    <3>1. Numbered'
      BY <2>6 DEF IInv, KidInv, Numbered
    <3>2. ASSUME NEW d \in Child PROVE Together(d)'
      <4>1. CASE d = c
        BY <1>1, <1>2, <2>2, <2>4, <4>1 DEF Together
      <4>2. CASE d # c
        <5>1. Together(d) /\ kid'[d] = kid[d] /\ run'[d] = run[d]
          BY <2>1, <2>4, <4>2 DEF IInv, KidInv
        <5>2. kid[d].by # None => kid[d].by \in Child
          BY <1>3 DEF Typed, KidType, KidRec
        <5>3. kid[d].by # None => (kid'[kid[d].by].st = "none" <=> kid[kid[d].by].st = "none")
          BY <2>6, <5>2
        <5>4. kid[d].by # None => run'[kid[d].by] \notin {"none", "start"}
          BY <2>4, <5>1, <5>2 DEF Together
        <5> QED BY <1>2, <5>1, <5>3, <5>4 DEF Together
      <4> QED BY <4>1, <4>2
    <3>3. CompletionHeard'
      BY <1>2, <2>1, <2>2 DEF IInv, KidInv, CompletionHeard
    <3> QED BY <3>1, <3>2, <3>3 DEF KidInv
  <2>8. \A i \in 1..Len(cmds) : cmds[i].op = "Spawn" =>
            cmds[i].id \in Child /\ kid'[cmds[i].id] = kid[cmds[i].id]
    BY <2>6 DEF IInv, SpawnInv, Spawns
  <2>9. SpawnInv'
    BY <1>2, <2>8 DEF IInv, SpawnInv, Spawns
  <2>10. SentInv'
    BY <1>2, <2>8 DEF IInv, LifeInv, SentInv, Spawns, InSession, Free
  <2>11. LiveInv'
    BY <1>2, <2>6 DEF IInv, LifeInv, LiveInv, Live, InSession, Free, Teardowns
  <2>12. BufferInv'
    <3>1. \A i \in 1..Len(buffer) : kid'[buffer[i]] = kid[buffer[i]]
      <4>1. \A i \in 1..Len(buffer) : buffer[i] \in Child /\ kid[buffer[i]].st = "completed"
        BY <1>3 DEF Typed, SeqType, Bounded, IInv, LifeInv, BufferInv
      <4> QED BY <2>6, <4>1
    <3> QED BY <1>2, <3>1 DEF IInv, LifeInv, BufferInv, InSession, Free, Teardowns
  <2>13. AskInv'
    BY <1>2, <2>8 DEF IInv, AskInv, Spawns
  <2>14. UnitInv'
    BY <1>2, <2>6 DEF IInv, UnitInv, Live, Erred
  <2> QED BY <2>5, <2>7, <2>9, <2>10, <2>11, <2>12, <2>13, <2>14 DEF IInv, LifeInv
<1> QED BY <1>4, <1>5 DEF Started

-----------------------------------------------------------------------------
(* A child ends.                                                           *)

LEMMA FinishKeeps ==
    ASSUME IInv, NEW c \in Child, finish_child(c)
    PROVE  IInv'
<1> DEFINE heard == {w \in Waiter : query[w] = [st |-> "blocked", on |-> c]}
           received == kid[c].reply /\ caller[c] = "waiting"
           handle_only == kid[c].handle_only \/ ~ReplySent(c)
           should_surface == kid[c].surface /\ handle_only /\ outcome[c] # "cancelled"
                             /\ heard = {} /\ ~kid[c].killed
           to == {x \in {"caller", "waiter", "surface"} :
                    \/ x = "caller" /\ received /\ ~kid[c].handle_only
                    \/ x = "waiter" /\ heard # {}
                    \/ x = "surface" /\ should_surface}
<1>1. /\ run[c] = "ended" /\ run' = [run EXCEPT ![c] = "over"]
      /\ kid' = [kid EXCEPT ![c] = [@ EXCEPT !.st = "completed", !.reply = FALSE,
                                             !.handle_only = handle_only, !.deadline = FALSE]]
      /\ query' = [w \in Waiter |-> IF w \in heard THEN [query[w] EXCEPT !.st = "answered"]
                                                   ELSE query[w]]
      /\ caller' = [caller EXCEPT ![c] = IF received THEN "answered" ELSE @]
      /\ told' = [told EXCEPT ![c].to = to]
  BY Zenon DEF finish_child
<1>2. /\ buffer' = (IF kid[c].surface /\ ~is_workflow(c) THEN Newest(Append(buffer, c), MaxBuffer)
                                                         ELSE buffer)
      /\ completed' = Newest(Append(completed, c), MaxCompleted)
      /\ flow' = (IF flow.drain = "waiting" /\ DrainsWorkflow(c)
                  THEN [flow EXCEPT !.drain = "drained"] ELSE flow)
      /\ UNCHANGED <<cmds, cancelled, outcome, events, session, loop>>
  BY DEF finish_child
<1>3. Typed /\ Live(c) /\ Together(c) /\ kid[c] \in KidRec
  BY <1>1, RunFacts DEF IInv
<1>4. handle_only \in BOOLEAN /\ to \in SUBSET {"caller", "waiter", "surface"}
  BY DEF ReplySent
<1>5. /\ "surface" \in to => to = {"surface"}
      /\ kid[c].surface /\ ~kid[c].killed /\ outcome[c] # "cancelled" => to # {}
  <2>1. CASE heard # {}
    <3>1. "surface" \notin to /\ "waiter" \in to
      BY <2>1
    <3> QED BY <3>1
  <2>2. CASE heard = {} /\ handle_only
    <3>1. "waiter" \notin to /\ "caller" \notin to
      BY <2>2 DEF ReplySent
    <3>2. kid[c].surface /\ ~kid[c].killed /\ outcome[c] # "cancelled" => "surface" \in to
      BY <2>2
    <3> HIDE DEF to
    <3> QED BY <1>4, <3>1, <3>2
  <2>3. CASE ~handle_only
    <3>1. "surface" \notin to /\ "caller" \in to
      BY <2>3 DEF ReplySent
    <3> QED BY <3>1
  <2> QED BY <2>1, <2>2, <2>3
<1> HIDE DEF handle_only, to, received, heard
<1>6. /\ kid'[c] = [kid[c] EXCEPT !.st = "completed", !.reply = FALSE,
                                  !.handle_only = handle_only, !.deadline = FALSE]
      /\ \A d \in Child : d # c => kid'[d] = kid[d]
  BY <1>1, <1>3 DEF Typed, KidType
<1>7. /\ kid'[c].st = "completed" /\ kid'[c].by = kid[c].by /\ kid'[c].unit = kid[c].unit
      /\ kid'[c].surface = kid[c].surface /\ kid'[c].killed = kid[c].killed
      /\ kid'[c].reply = FALSE /\ kid'[c].kind = kid[c].kind /\ kid'[c] \in KidRec
  BY <1>3, <1>4, <1>6 DEF KidRec
<1>8. kid' \in [Child -> KidRec] /\ Answered(kid')
  BY <1>1, <1>3, <1>6, <1>7 DEF Typed, KidType, Answered
<1>9. /\ run'[c] = "over" /\ \A d \in Child : d # c => run'[d] = run[d]
      /\ run' \in [Child -> {"none", "start", "ready", "reported", "refused", "live", "ended", "over"}]
  BY <1>1, <1>3 DEF Typed, RunType
<1>10. /\ caller' \in [Child -> {"none", "waiting", "gone", "answered", "handed_off"}]
       /\ \A d \in Child : d # c => caller'[d] = caller[d]
  BY <1>1, <1>3 DEF Typed, RunType
<1>11. /\ told' \in [Child -> [to : SUBSET {"caller", "waiter", "surface"}, life : 0..MaxLife]]
       /\ told'[c].to = to /\ told'[c].life = told[c].life
       /\ \A d \in Child : d # c => told'[d] = told[d]
  BY <1>1, <1>3, <1>4 DEF Typed, RunType
<1>12. query' \in [Waiter -> [st : {"idle", "sent", "blocked", "progress", "answered", "gone"},
                              on : Child \cup {None}]]
  BY <1>1, <1>3 DEF Typed, QueryType
<1>13. Bounded(completed', MaxCompleted)
  <2>1. completed \in Seq(Child) /\ MaxCompleted \in Nat \ {0}
    BY <1>3, Bounds DEF Typed, SeqType, Bounded
  <2>2. PICK b : b = Newest(Append(completed, c), MaxCompleted)
    OBVIOUS
  <2>3. b \in Seq(Child) /\ Len(b) <= MaxCompleted
    BY <2>1, <2>2, NewestFacts
  <2> QED BY <1>2, <2>2, <2>3 DEF Bounded
<1>14. /\ Bounded(buffer', MaxBuffer)
       /\ \A i \in 1..Len(buffer') : \/ buffer'[i] = c /\ kid[c].surface
                                     \/ \E j \in 1..Len(buffer) : buffer'[i] = buffer[j]
  <2>1. buffer \in Seq(Child) /\ MaxBuffer \in Nat \ {0} /\ Bounded(buffer, MaxBuffer)
    BY <1>3, Bounds DEF Typed, SeqType, Bounded
  <2>2. CASE kid[c].surface /\ ~is_workflow(c)
    <3>1. buffer' = Newest(Append(buffer, c), MaxBuffer)
      BY <1>2, <2>2
    <3>2. PICK b : b = Newest(Append(buffer, c), MaxBuffer)
      OBVIOUS
    <3>3. /\ b \in Seq(Child) /\ Len(b) <= MaxBuffer
          /\ \A i \in 1..Len(b) : b[i] = c \/ \E j \in 1..Len(buffer) : b[i] = buffer[j]
      <4>1. b \in Seq(Child) /\ Len(b) <= MaxBuffer /\ Members(b) \subseteq Members(buffer) \cup {c}
        BY <2>1, <3>2, NewestFacts
      <4> QED BY <4>1 DEF Members
    <3>4. buffer' = b
      BY <3>1, <3>2
    <3> QED BY <2>2, <3>3, <3>4 DEF Bounded
  <2>3. CASE ~(kid[c].surface /\ ~is_workflow(c))
    BY <1>2, <2>1, <2>3
  <2> QED BY <2>2, <2>3
<1>15. EnvType'
  BY <1>2, <1>3 DEF Typed, EnvType
<1>16. Typed'
  BY <1>2, <1>3, <1>8, <1>9, <1>10, <1>11, <1>12, <1>13, <1>14, <1>15
     DEF Typed, KidType, RunType, QueryType, SeqType, Bounded, Answered
<1>17. \A d \in Child : /\ kid'[d].by = kid[d].by /\ kid'[d].unit = kid[d].unit
                        /\ kid'[d].surface = kid[d].surface
                        /\ kid'[d].st \in {"pending", "active"} => Live(d)
                        /\ ~Live(d) => kid'[d] = kid[d]
                        /\ kid'[d].st = "none" <=> kid[d].st = "none"
                        /\ told'[d].life = told[d].life
  BY <1>3, <1>6, <1>7, <1>11 DEF Live
<1>18. KidInv'
  <2>1. Numbered'
    BY <1>17 DEF IInv, KidInv, Numbered
  <2>2. ASSUME NEW d \in Child PROVE Together(d)'
    <3>0. kid[d].by # None => kid[d].by \in Child
      BY <1>3 DEF Typed, KidType, KidRec
    <3>1. kid[d].by # None =>
            /\ kid'[kid[d].by].st = "none" <=> kid[kid[d].by].st = "none"
            /\ told'[kid[d].by].life = told[kid[d].by].life
            /\ run[kid[d].by] \notin {"none", "start"} => run'[kid[d].by] \notin {"none", "start"}
      BY <1>9, <1>17, <3>0
    <3>2. CASE d = c
      BY <1>3, <1>7, <1>9, <1>17, <3>1, <3>2 DEF Together
    <3>3. CASE d # c
      <4>1. Together(d) /\ kid'[d] = kid[d] /\ run'[d] = run[d] /\ caller'[d] = caller[d]
            /\ told'[d] = told[d] /\ outcome' = outcome
        BY <1>2, <1>6, <1>9, <1>10, <1>11, <3>3 DEF IInv, KidInv
      <4> QED BY <3>1, <4>1 DEF Together
    <3> QED BY <3>2, <3>3
  <2>3. CompletionHeard'
    <3>1. ASSUME NEW d \in Child, kid'[d].st = "completed"
          PROVE  /\ "surface" \in told'[d].to => told'[d].to = {"surface"}
                 /\ kid'[d].surface /\ ~kid'[d].killed /\ outcome'[d] # "cancelled" => told'[d].to # {}
      <4>1. CASE d = c
        BY <1>2, <1>5, <1>7, <1>11, <4>1
      <4>2. CASE d # c
        BY <1>2, <1>6, <1>11, <3>1, <4>2 DEF IInv, KidInv, CompletionHeard
      <4> QED BY <4>1, <4>2
    <3> QED BY <3>1 DEF CompletionHeard
  <2> QED BY <2>1, <2>2, <2>3 DEF KidInv
<1>19. \A i \in 1..Len(cmds) : cmds[i].op = "Spawn" =>
          /\ cmds[i].id \in Child /\ kid'[cmds[i].id] = kid[cmds[i].id]
          /\ told'[cmds[i].id].life = told[cmds[i].id].life
  BY <1>17 DEF IInv, SpawnInv, Spawns, Live
<1>20. SpawnInv'
  BY <1>2, <1>19 DEF IInv, SpawnInv, Spawns
<1>21. SentInv'
  BY <1>2, <1>19 DEF IInv, LifeInv, SentInv, Spawns, InSession, Free
<1>22. LiveInv'
  BY <1>2, <1>17 DEF IInv, LifeInv, LiveInv, Live, InSession, Free, Teardowns
<1>23. BufferInv'
  <2>1. ASSUME NEW i \in 1..Len(buffer')
        PROVE  /\ kid'[buffer'[i]].st = "completed"
               /\ kid'[buffer'[i]].by = None =>
                    (told'[buffer'[i]].life = None \/ told'[buffer'[i]].life > session.torn) \/ Teardowns # {}
    <3>1. CASE buffer'[i] = c /\ kid[c].surface
      BY <1>3, <1>7, <1>11, <3>1 DEF IInv, LifeInv, LiveInv, InSession, Free
    <3>2. CASE \E j \in 1..Len(buffer) : buffer'[i] = buffer[j]
      <4>1. PICK j \in 1..Len(buffer) : buffer'[i] = buffer[j]
        BY <3>2
      <4>2. /\ buffer[j] \in Child /\ kid[buffer[j]].st = "completed"
            /\ InSession(buffer[j]) => Free(buffer[j]) \/ Teardowns # {}
        BY <1>3 DEF Typed, SeqType, Bounded, IInv, LifeInv, BufferInv
      <4>3. kid'[buffer[j]] = kid[buffer[j]] /\ told'[buffer[j]].life = told[buffer[j]].life
        BY <1>17, <4>2 DEF Live
      <4> QED BY <4>1, <4>2, <4>3 DEF InSession, Free
    <3> QED BY <1>14, <3>1, <3>2
  <2> QED BY <1>2, <2>1 DEF BufferInv, InSession, Free, Teardowns
<1>24. AskInv'
  BY <1>2, <1>19 DEF IInv, AskInv, Spawns
<1>25. UnitInv'
  BY <1>2, <1>17 DEF IInv, UnitInv, Live, Erred
<1> QED BY <1>16, <1>18, <1>20, <1>21, <1>22, <1>23, <1>24, <1>25 DEF IInv, LifeInv

-----------------------------------------------------------------------------
(* A request is taken from the channel.                                    *)

LEMMA SpawnKeeps ==
    ASSUME IInv, Spawn
    PROVE  IInv'
<1>1. Typed /\ Alike(Reaped) /\ SpawnInv /\ AskInv /\ UnitInv /\ LifeInv /\ KidInv
  BY ReapedAlike DEF IInv
<1>2. /\ Take("Spawn") /\ cancelled' = CancelAll({})
      /\ UNCHANGED <<completed, outcome, query, buffer, events, session, flow, loop, told>>
  BY DEF Spawn, envVars
<1>0. PICK c : c = Head(cmds).id
  OBVIOUS
<1>3. /\ Moves(1) /\ LoopsFollow(1) /\ 1 \in 1..Len(cmds) /\ cmds[1].op = "Spawn"
      /\ Head(cmds) = cmds[1] /\ cmds' \in Seq(Cmd) /\ Len(cmds') \in Nat /\ Len(cmds) \in Nat
  BY <1>1, <1>2, ChannelTake DEF Moves, Typed, SeqType
<1>4. c \in Child /\ kid[c].st = "sent" /\ c = cmds[1].id
  BY <1>0, <1>1, <1>3 DEF SpawnInv, Spawns
<1> DEFINE by == kid[c].by
           nested == by # None /\ kid[by].st = "active"
           request == [kid[c] EXCEPT !.by = IF nested THEN None ELSE by,
                                     !.surface = @ /\ ~nested,
                                     !.unit = IF nested /\ @ = None THEN kid[by].unit ELSE @]
           spawned == [request EXCEPT !.st = "pending", !.reply = TRUE,
                          !.handle_only = kid[c].kind \in {"background", "nested", "loop"},
                          !.deadline = kid[c].kind = "foreground"]
<1>5. \/ /\ by # None /\ SpawnerCancelled(by)
         /\ kid' = [Reaped EXCEPT ![c].st = "refused"]
         /\ caller' = [caller EXCEPT ![c] = IF @ = "waiting" THEN "answered" ELSE @]
         /\ UNCHANGED run
      \/ /\ ~(by # None /\ SpawnerCancelled(by))
         /\ kid' = [Reaped EXCEPT ![c] = spawned]
         /\ run' = [run EXCEPT ![c] = "start"] /\ UNCHANGED caller
  BY <1>0, Zenon DEF Spawn, Target
<1>6. kid[c] \in KidRec /\ Together(c) /\ by \in Child \cup {None} /\ Reaped[c] = kid[c]
  BY <1>1, <1>4 DEF Typed, KidType, KidInv, KidRec, Alike, Live
<1>7. cancelled' \in [Child -> BOOLEAN] /\ \A d \in Child : cancelled[d] => cancelled'[d]
  BY <1>1, <1>2, CancelAllFacts
<1>8. \A d \in Child : /\ Reaped[d].st = kid[d].st /\ Reaped[d].by = kid[d].by
                       /\ Reaped[d].unit = kid[d].unit /\ Reaped[d].kind = kid[d].kind
                       /\ (Reaped[d].surface => kid[d].surface)
                       /\ ~Live(d) => Reaped[d] = kid[d]
  BY <1>1 DEF Alike
\* The requests behind this one.
<1>9. \A i \in 1..Len(cmds') : cmds'[i].op = "Spawn" =>
         /\ i + 1 \in 1..Len(cmds) /\ cmds'[i] = cmds[i + 1]
         /\ cmds'[i].id \in Child /\ cmds'[i].id # c /\ kid[cmds'[i].id].st = "sent"
  <2>1. SUFFICES ASSUME NEW i \in 1..Len(cmds'), cmds'[i].op = "Spawn"
                 PROVE  /\ i + 1 \in 1..Len(cmds) /\ cmds'[i] = cmds[i + 1]
                        /\ cmds'[i].id \in Child /\ cmds'[i].id # c /\ kid[cmds'[i].id].st = "sent"
    OBVIOUS
  <2>2. i + 1 \in 1..Len(cmds) /\ cmds'[i] = cmds[i + 1]
    BY <1>3, <2>1 DEF Moves, SpawnsFollow
  <2>3. cmds[i + 1].id \in Child /\ kid[cmds[i + 1].id].st = "sent"
    BY <1>1, <2>1, <2>2 DEF SpawnInv, Spawns
  <2>4. cmds[i + 1].id # cmds[1].id
    <3>1. i + 1 # 1
      BY <1>3
    <3> QED BY <1>1, <1>3, <2>1, <2>2, <3>1 DEF SpawnInv, Spawns
  <2> QED BY <1>4, <2>2, <2>3, <2>4
<1>10. Teardowns # {} => Teardowns' # {}
  BY <1>1, <1>3, TeardownLeft DEF Typed, SeqType
\* What every outcome has in common.
<1>11. ASSUME kid' \in [Child -> KidRec], Answered(kid'), kid'[c].st \in {"pending", "refused"},
              \A d \in Child : d # c => kid'[d] = Reaped[d],
              \A d \in Child : d # c => run'[d] = run[d] /\ caller'[d] = caller[d],
              run' \in [Child -> {"none", "start", "ready", "reported", "refused", "live", "ended", "over"}],
              caller' \in [Child -> {"none", "waiting", "gone", "answered", "handed_off"}],
              Together(c)',
              kid'[c].st = "pending" /\ kid'[c].by = None /\ (~cancelled'[c] \/ kid'[c].surface) =>
                (told[c].life = None \/ told[c].life > session.torn) \/ Teardowns' # {},
              kid'[c].st = "pending" /\ kid'[c].unit # None =>
                /\ Erred(kid'[c].unit) \/ kid'[c].unit = loop.last
                /\ loop.pc = "clear" => Erred(kid'[c].unit)
       PROVE  IInv'
  <2>1. Typed'
    BY <1>1, <1>2, <1>3, <1>7, <1>11
       DEF Typed, KidType, RunType, QueryType, SeqType, EnvType, Bounded, Answered
  <2>2. \A d \in Child : d # c =>
          /\ kid'[d].st = kid[d].st /\ kid'[d].by = kid[d].by /\ kid'[d].unit = kid[d].unit
          /\ kid'[d].kind = kid[d].kind
          /\ (kid'[d].surface => kid[d].surface) /\ (~Live(d) => kid'[d] = kid[d])
    BY <1>8, <1>11
  <2>3. KidInv'
    <3>0. \A d \in Child : kid'[d].st = "none" <=> kid[d].st = "none"
      BY <1>4, <1>11, <2>2
    <3>1. Numbered'
      BY <1>1, <3>0 DEF KidInv, Numbered
    <3>2. ASSUME NEW d \in Child PROVE Together(d)'
      <4>1. CASE d = c
        BY <1>11, <4>1
      <4>2. CASE d # c
        <5>1. /\ Together(d) /\ kid'[d].st = kid[d].st /\ kid'[d].by = kid[d].by
              /\ kid'[d].unit = kid[d].unit /\ kid'[d].kind = kid[d].kind
              /\ run'[d] = run[d] /\ caller'[d] = caller[d] /\ told' = told /\ outcome' = outcome
          BY <1>1, <1>2, <1>11, <2>2, <4>2 DEF KidInv
        <5>2. kid[d].by # None => kid[d].by \in Child
          BY <1>1 DEF Typed, KidType, KidRec
        <5>3. kid[d].by # None => (kid'[kid[d].by].st = "none" <=> kid[kid[d].by].st = "none")
          BY <3>0, <5>2
        <5>4. kid[d].by # None => run'[kid[d].by] \notin {"none", "start"}
          <6>1. run[c] = "none"
            BY <1>4, <1>6 DEF Together
          <6> QED BY <1>11, <5>1, <5>2, <6>1 DEF Together
        <5> QED BY <5>1, <5>3, <5>4 DEF Together
      <4> QED BY <4>1, <4>2
    <3>3. CompletionHeard'
      <4>1. \A d \in Child : kid'[d].st = "completed" => d # c /\ kid'[d] = kid[d]
        BY <1>11, <2>2 DEF Live
      <4> QED BY <1>1, <1>2, <4>1 DEF KidInv, CompletionHeard
    <3> QED BY <3>1, <3>2, <3>3 DEF KidInv
  <2>4. \A i \in 1..Len(cmds') : cmds'[i].op = "Spawn" => kid'[cmds'[i].id] = kid[cmds'[i].id]
    BY <1>9, <2>2 DEF Live
  <2>5. SpawnInv'
    <3>1. \A i \in 1..Len(cmds') : cmds'[i].op = "Spawn" =>
            cmds'[i].id \in Child /\ kid'[cmds'[i].id].st = "sent"
      BY <1>9, <2>4
    <3>2. ASSUME NEW i \in 1..Len(cmds'), NEW j \in 1..Len(cmds'), cmds'[i].op = "Spawn",
                 cmds'[j].op = "Spawn", cmds'[i].id = cmds'[j].id
          PROVE  i = j
      <4>1. i + 1 = j + 1
        BY <1>1, <1>9, <3>2 DEF SpawnInv, Spawns
      <4> QED BY <1>3, <4>1
    <3> QED BY <3>1, <3>2 DEF SpawnInv, Spawns
  <2>6. SentInv'
    <3>1. SUFFICES ASSUME NEW i \in 1..Len(cmds'), cmds'[i].op = "Spawn", kid'[cmds'[i].id].by = None,
                          ~(told'[cmds'[i].id].life = None \/ told'[cmds'[i].id].life > session'.torn)
                   PROVE  \E j \in 1..Len(cmds') : i < j /\ cmds'[j].op = "Teardown"
      BY DEF SentInv, Spawns, InSession, Free
    <3>2. i + 1 \in 1..Len(cmds) /\ cmds'[i] = cmds[i + 1] /\ kid[cmds[i + 1].id].by = None
      BY <1>9, <2>4, <3>1
    <3>3. InSession(cmds[i + 1].id) /\ ~Free(cmds[i + 1].id)
      BY <1>2, <3>1, <3>2 DEF InSession, Free
    <3>4. PICK j \in 1..Len(cmds) : i + 1 < j /\ cmds[j].op = "Teardown"
      BY <1>1, <3>1, <3>2, <3>3 DEF LifeInv, SentInv, Spawns
    <3>5. j - 1 \in 1..Len(cmds') /\ cmds'[j - 1].op = "Teardown"
      BY <1>3, <3>4 DEF Moves, TeardownsStay
    <3> QED BY <1>3, <3>4, <3>5
  <2>7. LiveInv'
    <3>1. ASSUME NEW d \in Child, kid'[d].st \in {"pending", "active"}, kid'[d].by = None,
                 ~cancelled'[d] \/ kid'[d].surface
          PROVE  (told[d].life = None \/ told[d].life > session.torn) \/ Teardowns' # {}
      <4>1. CASE d = c
        BY <1>11, <3>1, <4>1
      <4>2. CASE d # c
        <5>1. Live(d) /\ InSession(d) /\ (~cancelled[d] \/ kid[d].surface)
          BY <1>7, <2>2, <3>1, <4>2 DEF Live, InSession
        <5> QED BY <1>1, <1>10, <5>1 DEF LifeInv, LiveInv, Free
      <4> QED BY <4>1, <4>2
    <3> QED BY <1>2, <3>1 DEF LiveInv, Live, InSession, Free
  <2>8. BufferInv'
    <3>1. ASSUME NEW i \in 1..Len(buffer)
          PROVE  /\ kid'[buffer[i]] = kid[buffer[i]] /\ kid[buffer[i]].st = "completed"
                 /\ kid[buffer[i]].by = None =>
                      (told[buffer[i]].life = None \/ told[buffer[i]].life > session.torn) \/ Teardowns # {}
      <4>1. buffer[i] \in Child
        BY <1>1 DEF Typed, SeqType, Bounded
      <4>2. /\ kid[buffer[i]].st = "completed"
            /\ InSession(buffer[i]) => Free(buffer[i]) \/ Teardowns # {}
        BY <1>1 DEF LifeInv, BufferInv
      <4>3. buffer[i] # c /\ ~Live(buffer[i])
        BY <1>4, <4>2 DEF Live
      <4> QED BY <2>2, <4>1, <4>2, <4>3 DEF InSession, Free
    <3> QED BY <1>2, <1>10, <3>1 DEF BufferInv, InSession, Free
  <2>9. AskInv'
    <3>1. \A i \in 1..Len(cmds') : cmds'[i].op \in {"Spawn", "LoopQuery", "LoopUnitActive"} =>
              i + 1 \in 1..Len(cmds) /\ cmds'[i] = cmds[i + 1]
      BY <1>3 DEF Moves, SpawnsFollow, LoopsFollow
    <3>3. \A i \in 1..Len(cmds') : /\ cmds'[i].op = "LoopQuery" => loop'.pc = "query"
                                   /\ cmds'[i].op = "LoopUnitActive" => loop'.pc = "unit"
      BY <1>1, <1>2, <3>1 DEF AskInv
    <3>4. ASSUME NEW i \in 1..Len(cmds'), NEW j \in 1..Len(cmds'), cmds'[i].op = cmds'[j].op,
                 cmds'[i].op \in {"LoopQuery", "LoopUnitActive"}
          PROVE  i = j
      <4>1. i + 1 = j + 1
        BY <1>1, <3>1, <3>4 DEF AskInv
      <4> QED BY <1>3, <4>1
    <3>5. ASSUME NEW i \in 1..Len(cmds'), cmds'[i].op = "Spawn", kid'[cmds'[i].id].unit # None
          PROVE  /\ cmds'[i].id = loop'.last /\ loop'.pc \in {"idle", "query"}
                 /\ \A j \in 1..Len(cmds') : cmds'[j].op = "LoopQuery" => i < j
      <4>1. /\ i + 1 \in 1..Len(cmds) /\ cmds'[i] = cmds[i + 1]
            /\ Spawns(i + 1) /\ kid[cmds[i + 1].id].unit # None
        BY <2>4, <3>1, <3>5 DEF Spawns
      <4>2. /\ cmds[i + 1].id = loop.last /\ loop.pc \in {"idle", "query"}
            /\ \A j \in 1..Len(cmds) : cmds[j].op = "LoopQuery" => i + 1 < j
        BY <1>1, <4>1 DEF AskInv
      <4>3. ASSUME NEW j \in 1..Len(cmds'), cmds'[j].op = "LoopQuery" PROVE i < j
        <5>1. i + 1 < j + 1
          BY <3>1, <4>2, <4>3
        <5> QED BY <1>3, <5>1
      <4> QED BY <1>2, <4>1, <4>2, <4>3
    <3> QED BY <3>3, <3>4, <3>5 DEF AskInv, Spawns
  <2>10. UnitInv'
    <3>1. ASSUME NEW d \in Child, kid'[d].st \in {"pending", "active"}, kid'[d].unit # None
          PROVE  /\ Erred(kid'[d].unit) \/ kid'[d].unit = loop.last
                 /\ loop.pc = "clear" => Erred(kid'[d].unit)
      <4>1. CASE d = c
        BY <1>11, <3>1, <4>1
      <4>2. CASE d # c
        BY <1>1, <2>2, <3>1, <4>2 DEF UnitInv, Live
      <4> QED BY <4>1, <4>2
    <3> QED BY <1>2, <3>1 DEF UnitInv, Live, Erred
  <2> QED BY <2>1, <2>3, <2>5, <2>6, <2>7, <2>8, <2>9, <2>10 DEF IInv, LifeInv
\* Its spawner is being torn down.
<1>12. CASE /\ kid' = [Reaped EXCEPT ![c].st = "refused"]
            /\ caller' = [caller EXCEPT ![c] = IF @ = "waiting" THEN "answered" ELSE @]
            /\ UNCHANGED run
  <2>1. /\ kid'[c] = [kid[c] EXCEPT !.st = "refused"] /\ \A d \in Child : d # c => kid'[d] = Reaped[d]
    BY <1>1, <1>4, <1>6, <1>12 DEF Alike
  <2>2. /\ kid'[c].st = "refused" /\ kid'[c].by = kid[c].by /\ kid'[c].unit = kid[c].unit
        /\ kid'[c].reply = kid[c].reply /\ kid'[c].kind = kid[c].kind /\ kid'[c] \in KidRec
    BY <1>6, <2>1 DEF KidRec
  <2>3. ~kid[c].reply
    BY <1>1, <1>4 DEF Typed, KidType, Answered
  <2>4. kid' \in [Child -> KidRec] /\ Answered(kid')
    BY <1>1, <1>12, <2>1, <2>2, <2>3 DEF Alike, Answered
  <2>5. /\ caller' \in [Child -> {"none", "waiting", "gone", "answered", "handed_off"}]
        /\ \A d \in Child : d # c => caller'[d] = caller[d]
    BY <1>1, <1>4, <1>12 DEF Typed, RunType
  <2>6. by # None => kid'[by].st # "none"
    <3>1. by # None => by \in Child /\ kid[by].st # "none"
      BY <1>6 DEF Together
    <3>2. CASE by = c
      BY <2>2, <3>2
    <3>3. CASE by # c
      BY <1>8, <2>1, <3>1, <3>3
    <3> QED BY <3>2, <3>3
  <2>7. Together(c)'
    BY <1>2, <1>4, <1>6, <1>12, <2>2, <2>6 DEF Together
  <2> QED BY <1>1, <1>11, <1>12, <2>1, <2>2, <2>4, <2>5, <2>7 DEF Typed, RunType
\* It becomes pending, as a child of the session if its spawner is active.
<1>13. CASE /\ ~(by # None /\ SpawnerCancelled(by))
            /\ kid' = [Reaped EXCEPT ![c] = spawned]
            /\ run' = [run EXCEPT ![c] = "start"] /\ UNCHANGED caller
  <2>1. nested \in BOOLEAN
    OBVIOUS
  <2>2. by # None => by \in Child /\ kid[by] \in KidRec
    BY <1>1, <1>6 DEF Typed, KidType
  <2>3. request \in KidRec
    <3>1. (IF nested THEN None ELSE by) \in Child \cup {None}
      BY <1>6
    <3>2. (IF nested /\ kid[c].unit = None THEN kid[by].unit ELSE kid[c].unit) \in Child \cup {None}
      BY <1>6, <2>2 DEF KidRec
    <3>3. (kid[c].surface /\ ~nested) \in BOOLEAN
      BY <2>1
    <3> HIDE DEF nested
    <3> QED BY <1>6, <3>1, <3>2, <3>3 DEF KidRec
  <2>4. /\ request.by = (IF nested THEN None ELSE by)
        /\ request.unit = (IF nested /\ kid[c].unit = None THEN kid[by].unit ELSE kid[c].unit)
        /\ (request.surface => ~nested) /\ request.kind = kid[c].kind
    <3> HIDE DEF nested
    <3> QED BY <1>6 DEF KidRec
  <2> HIDE DEF request
  <2>5. /\ spawned \in KidRec /\ spawned.st = "pending" /\ spawned.by = request.by
        /\ spawned.unit = request.unit /\ spawned.surface = request.surface
        /\ spawned.kind = request.kind
    <3>1. PICK h \in BOOLEAN, t \in BOOLEAN :
             spawned = [request EXCEPT !.st = "pending", !.reply = TRUE, !.handle_only = h,
                                       !.deadline = t]
      <4>1. (kid[c].kind \in {"background", "nested", "loop"}) \in BOOLEAN
            /\ (kid[c].kind = "foreground") \in BOOLEAN
        OBVIOUS
      <4> WITNESS (kid[c].kind \in {"background", "nested", "loop"}) \in BOOLEAN,
                  (kid[c].kind = "foreground") \in BOOLEAN
      <4> QED OBVIOUS
    <3> HIDE DEF spawned
    <3> QED BY <2>3, <3>1 DEF KidRec
  <2> HIDE DEF spawned
  <2>6. /\ kid'[c] = spawned /\ \A d \in Child : d # c => kid'[d] = Reaped[d]
        /\ kid' \in [Child -> KidRec]
    BY <1>1, <1>4, <1>13, <2>5 DEF Alike
  <2>7. Answered(kid')
    BY <1>1, <2>5, <2>6 DEF Alike, Answered
  <2>8. /\ run'[c] = "start" /\ \A d \in Child : d # c => run'[d] = run[d]
        /\ run' \in [Child -> {"none", "start", "ready", "reported", "refused", "live", "ended", "over"}]
    BY <1>1, <1>4, <1>13 DEF Typed, RunType
  <2>9. run[c] = "none" /\ outcome[c] = "none" /\ caller[c] # "answered"
    BY <1>4, <1>6 DEF Together
  <2>10. /\ by # None => /\ kid[by].st # "none" /\ told[c].life = told[by].life
                          /\ run[by] \notin {"none", "start"}
         /\ kid[c].kind = "nested" => told[c].life # None
    BY <1>4, <1>6 DEF Together
  <2>11. Together(c)'
    <3>1. ~nested /\ by # None => /\ kid'[by].st # "none" /\ told'[c].life = told'[by].life
                                  /\ run'[by] \notin {"none", "start"}
      BY <1>2, <1>8, <2>2, <2>5, <2>6, <2>8, <2>9, <2>10
    <3>4. kid'[c].kind = "nested" => told'[c].life # None
      BY <1>2, <2>4, <2>5, <2>6, <2>10
    <3>2. kid'[c].by # None => ~nested /\ kid'[c].by = by
      BY <2>4, <2>5, <2>6
    <3>3. kid'[c].st = "pending" /\ run'[c] = "start" /\ outcome'[c] = "none" /\ caller'[c] # "answered"
      BY <1>2, <1>13, <2>5, <2>6, <2>8, <2>9
    <3> HIDE DEF nested, by
    <3> QED BY <3>1, <3>2, <3>3, <3>4 DEF Together
  <2>12. nested => Live(by) /\ InSession(by) /\ ~cancelled[by] /\ by \in Child
    <3>1. SUFFICES ASSUME nested PROVE Live(by) /\ InSession(by) /\ ~cancelled[by] /\ by \in Child
      OBVIOUS
    <3>2. ~CancelAll({})[by]
      BY <1>13, <3>1 DEF SpawnerCancelled
    <3>3. by \in Child /\ Together(by) /\ kid[by].st = "active"
      BY <1>1, <1>6, <3>1 DEF KidInv
    <3>4. ~cancelled[by]
      BY <1>1, <3>2, <3>3, CancelAllFacts
    <3> QED BY <3>3, <3>4 DEF Together, Live, InSession
  <2>13. kid'[c].by = None /\ (~cancelled'[c] \/ kid'[c].surface) =>
           (told[c].life = None \/ told[c].life > session.torn) \/ Teardowns' # {}
    <3>1. CASE nested
      <4>1. Free(by) \/ Teardowns # {}
        BY <1>1, <2>12, <3>1 DEF LifeInv, LiveInv
      <4> QED BY <1>10, <2>10, <3>1, <4>1 DEF Free
    <3>2. CASE ~nested
      <4>1. SUFFICES ASSUME kid'[c].by = None
                     PROVE  (told[c].life = None \/ told[c].life > session.torn) \/ Teardowns' # {}
        OBVIOUS
      <4>2. InSession(cmds[1].id)
        BY <1>4, <2>4, <2>5, <2>6, <3>2, <4>1 DEF InSession
      <4>3. Free(cmds[1].id) \/ \E j \in 1..Len(cmds) : 1 < j /\ cmds[j].op = "Teardown"
        BY <1>1, <1>3, <4>2 DEF LifeInv, SentInv, Spawns
      <4>4. (\E j \in 1..Len(cmds) : 1 < j /\ cmds[j].op = "Teardown") => Teardowns # {}
        BY DEF Teardowns
      <4> QED BY <1>4, <1>10, <4>3, <4>4 DEF Free
    <3> QED BY <3>1, <3>2
  <2>14. kid'[c].unit # None =>
           /\ Erred(kid'[c].unit) \/ kid'[c].unit = loop.last
           /\ loop.pc = "clear" => Erred(kid'[c].unit)
    <3>1. CASE nested /\ kid[c].unit = None
      <4>1. kid'[c].unit = kid[by].unit
        BY <2>4, <2>5, <2>6, <3>1
      <4> QED BY <1>1, <2>12, <3>1, <4>1 DEF UnitInv
    <3>2. CASE kid[c].unit # None
      <4>1. kid'[c].unit = c
        BY <1>4, <1>6, <2>4, <2>5, <2>6, <3>2 DEF Together
      <4>2. c = loop.last /\ loop.pc \in {"idle", "query"}
        BY <1>1, <1>3, <1>4, <3>2 DEF AskInv, Spawns
      <4> QED BY <4>1, <4>2
    <3>3. CASE ~nested /\ kid[c].unit = None
      BY <2>4, <2>5, <2>6, <3>3
    <3> QED BY <3>1, <3>2, <3>3
  <2>15. caller' \in [Child -> {"none", "waiting", "gone", "answered", "handed_off"}]
    BY <1>1, <1>13 DEF Typed, RunType
  <2> QED BY <1>11, <1>13, <2>5, <2>6, <2>7, <2>8, <2>11, <2>13, <2>14, <2>15
<1> QED BY <1>5, <1>12, <1>13

-----------------------------------------------------------------------------
(* The inductive invariant, and what follows from it.                      *)

LEMMA InitHolds ==
    ASSUME Init
    PROVE  IInv
<1>1. NoKid \in KidRec /\ NoKid.st = "none" /\ NoKid.by = None /\ NoKid.unit = None /\ ~NoKid.reply
  BY DEF NoKid, KidRec, Kind
<1>2. /\ \A c \in Child : kid[c] = NoKid /\ run[c] = "none" /\ outcome[c] = "none" /\ caller[c] = "none"
      /\ kid \in [Child -> KidRec] /\ Len(cmds) = 0 /\ Len(buffer) = 0 /\ Len(completed) = 0
      /\ cmds \in Seq(Cmd) /\ buffer \in Seq(Child) /\ completed \in Seq(Child)
      /\ loop.pc = "idle"
  BY <1>1 DEF Init
<1>3. 0 \in 0..MaxLife /\ 1 \in 1..MaxLife /\ 0 <= MaxCompleted /\ 0 <= MaxBuffer
  BY Bounds
<1>4. Typed
  <2>1. KidType
    BY <1>1, <1>2 DEF KidType, Answered
  <2>2. RunType
    BY <1>3 DEF Init, RunType
  <2>3. QueryType /\ SeqType /\ EnvType
    BY <1>2, <1>3 DEF Init, QueryType, SeqType, EnvType, Bounded
  <2> QED BY <2>1, <2>2, <2>3 DEF Typed
<1>5. KidInv
  BY <1>1, <1>2 DEF KidInv, Numbered, Together, CompletionHeard
<1>6. 1..0 = {}
  OBVIOUS
<1>7. SpawnInv /\ LifeInv /\ AskInv /\ UnitInv
  BY <1>1, <1>2, <1>6 DEF SpawnInv, LifeInv, LiveInv, SentInv, BufferInv, AskInv, UnitInv, Live
<1> QED BY <1>4, <1>5, <1>7 DEF IInv

LEMMA NextKeeps ==
    ASSUME IInv, [Next]_vars
    PROVE  IInv'
<1>1. CASE UNCHANGED vars
  <2>1. UNCHANGED <<cmds, kid, completed, cancelled, run, outcome, caller, query, buffer,
                    events, session, flow, loop, told>>
    BY <1>1 DEF vars, envVars
  <2>2. Moves(0) /\ LoopsFollow(0) /\ QueryType' /\ EnvType'
    BY <2>1, ChannelSame DEF IInv, Typed, QueryType, EnvType
  <2> QED BY <2>1, <2>2, SendKeeps
<1>2. CASE RequestChild \/ LoopSpawn
  BY <1>2, RequestChildKeeps, LoopSpawnKeeps
<1>3. CASE SessionAsks \/ CancelFlow \/ cancel_and_drain_children \/ DrainTimeout
  BY <1>3, SessionAsksKeeps, FlowKeeps
<1>4. CASE remove_session \/ handle_evict_sessions \/ ResumeSession
  BY <1>4, RemoveKeeps, EvictKeeps, ResumeKeeps
<1>5. CASE LoopFire \/ AskUnit \/ LoopTimeout
  BY <1>5, LoopFireKeeps, AskUnitKeeps, LoopTimeoutKeeps
<1>6. CASE HandleCommand
  BY <1>6, SpawnKeeps, HandleQueryKeeps, CancelOneKeeps, CancelPromptKeeps, CancelWorkflowKeeps,
     CompletionsKeeps, TeardownKeeps, OutstandingKeeps, LoopQueryKeeps, LoopUnitActiveKeeps
     DEF HandleCommand
<1>7. CASE finish_progress
  BY <1>7, FinishProgressKeeps
<1>8. ASSUME NEW c \in Child,
             \/ DropCaller(c) \/ CancelToolCall(c) \/ ClearAnchor(c)
             \/ RunStep(c) \/ EndTurn(c) \/ Started(c) \/ finish_child(c)
             \/ background_at_deadline(c)
      PROVE  IInv'
  BY <1>8, DropCallerKeeps, CancelToolCallKeeps, ClearAnchorKeeps, RunStepKeeps, StartedKeeps,
     FinishKeeps, BackgroundKeeps
<1>9. ASSUME NEW w \in Waiter, AskQuery(w) \/ DropQuery(w) \/ ExpireQuery(w)
      PROVE  IInv'
  BY <1>9, AskQueryKeeps, WaiterKeeps, ExpireQueryKeeps
<1> QED BY <1>1, <1>2, <1>3, <1>4, <1>5, <1>6, <1>7, <1>8, <1>9 DEF Next

LEMMA Invariance == Spec => []IInv
<1>1. Init => IInv
  BY InitHolds
<1>2. IInv /\ [Next]_vars => IInv'
  BY NextKeeps
<1> QED BY <1>1, <1>2, PTL DEF Spec

\* Every variable keeps its type, the retained completions and the buffered
\* summaries stay within the coordinator's limits, and a reply channel is held
\* for live children only.
THEOREM TypeCorrect == Spec => []TypeOK
<1>1. IInv => TypeOK
  <2> SUFFICES ASSUME Typed PROVE TypeOK
    BY DEF IInv
  <2>1. ASSUME NEW i \in 1..Len(cmds) PROVE cmds[i].op \in Op /\ cmds[i].id \in Child \cup {None}
    <3>1. cmds[i] \in Cmd
      BY DEF Typed, SeqType
    <3> QED BY <3>1 DEF Cmd
  <2>2. ASSUME NEW s \in Seq(Child) PROVE Range(s) \subseteq Child
    BY DEF Range
  <2>3. Range(completed) \subseteq Child /\ Range(buffer) \subseteq Child
    BY <2>2 DEF Typed, SeqType, Bounded
  <2>4. /\ kid \in [Child -> KidRec] /\ \A c \in Child : kid[c].reply => kid[c].st \in {"pending", "active"}
    BY DEF Typed, KidType, Answered
  <2> QED BY <2>1, <2>3, <2>4
          DEF TypeOK, Typed, RunType, QueryType, SeqType, EnvType, Bounded, KidRec, Op
<1> QED BY <1>1, Invariance, PTL

\* What finish_child hands over always finds somebody who is there to take it,
\* and the host surfaces a completion only when nobody else has it, for every
\* number of children, waiters and lives of the session.
THEOREM CompletionReachesSomebody == Spec => []CompletionHeard
<1>1. IInv => CompletionHeard
  BY DEF IInv, KidInv
<1> QED BY <1>1, Invariance, PTL

\* Once every teardown that was sent has been taken, a child that runs and was
\* not cancelled is of a life that no teardown was sent for, whatever late
\* requests, resumptions and idle unloads came in between.
THEOREM NoChildOutlivesSession == Spec => []NoOrphan
<1>1. IInv => NoOrphan
  <2> SUFFICES ASSUME IInv, NEW c \in Child, kid[c].st = "active", ~cancelled[c]
               PROVE  told[c].life > session.torn \/ Teardowns # {}
    BY DEF NoOrphan
  <2>1. kid[c].by = None /\ told[c].life # None
    BY DEF IInv, KidInv, Together
  <2> QED BY <2>1 DEF IInv, LifeInv, LiveInv, Live, InSession, Free
<1> QED BY <1>1, Invariance, PTL

\* Once every teardown that was sent has been taken, pending_completions has no
\* summary of a life that was torn down; requests sent after their life's
\* teardown, which never started, are of no life and are left out.
THEOREM NoSummaryOutlivesSession == Spec => []NoStaleSummary
<1>1. IInv => NoStaleSummary
  BY DEF IInv, LifeInv, BufferInv, NoStaleSummary, Free
<1> QED BY <1>1, Invariance, PTL

\* Two live children of the loop task are of one iteration, unless one of the
\* iterations ended in an error and cleared the anchor.
THEOREM IterationsStayApart == Spec => []LoopUnitsApart
<1>1. IInv => LoopUnitsApart
  BY DEF IInv, UnitInv, LoopUnitsApart, Erred
<1> QED BY <1>1, Invariance, PTL
=============================================================================
