------------------------ MODULE CircuitBreakerProofs ------------------------
(***************************************************************************)
(* Proofs about CircuitBreaker for every number of threads and every       *)
(* configuration: type correctness, the exclusivity of a lease takeover.   *)
(***************************************************************************)
EXTENDS CircuitBreaker, SequenceTheorems, FiniteSetTheorems, FunctionTheorems,
        TLAPS

Samples == [age : 0..SampleCap, failed : BOOLEAN]

LEMMA CapsAreNat ==
    /\ OpenedCap \in Nat /\ ClaimCap \in Nat /\ SampleCap \in Nat
    /\ StaleBound \in Nat /\ StaleBound <= SampleCap /\ OpenedCap <= ClaimCap
    /\ StaleBound <= ClaimCap
    /\ StaleBound <= OpenedCap
BY WindowAssumption, BreakerAssumption DEF OpenedCap, ClaimCap, SampleCap

\* A window whose incremental count is exact and whose cap is respected.
Counted(w) ==
    /\ w \in Windows
    /\ w.failures = Cardinality(Failing(w.entries))
    /\ Len(w.entries) <= MaxWindowEntries

\* The failing positions of a sequence of samples are finitely many.
LEMMA FailingFinite ==
    ASSUME NEW es \in Seq(Samples)
    PROVE  IsFiniteSet(Failing(es)) /\ Failing(es) \subseteq 1..Len(es)
<1>1. Failing(es) \subseteq 1..Len(es)
  BY DEF Failing
<1>2. IsFiniteSet(1..Len(es))
  BY FS_Interval
<1> QED BY <1>1, <1>2, FS_Subset

\* Dropping the first d samples removes exactly their failures.
LEMMA DropPrefix ==
    ASSUME NEW es \in Seq(Samples), NEW d \in 0..Len(es)
    PROVE  /\ SubSeq(es, d + 1, Len(es)) \in Seq(Samples)
           /\ Len(SubSeq(es, d + 1, Len(es))) = Len(es) - d
           /\ Cardinality(Failing(SubSeq(es, d + 1, Len(es))))
                = Cardinality(Failing(es)) - Cardinality({i \in Failing(es) : i <= d})
<1> DEFINE rest == SubSeq(es, d + 1, Len(es))
           gone == {i \in Failing(es) : i <= d}
           kept == Failing(es) \ gone
<1>1. /\ rest \in Seq(Samples)
      /\ Len(rest) = Len(es) - d
      /\ \A i \in 1..(Len(es) - d) : rest[i] = es[d + i]
  <2>1. \A i \in (d + 1)..Len(es) : es[i] \in Samples
    OBVIOUS
  <2>2. d + 1 \in Int /\ Len(es) \in Int
    OBVIOUS
  <2>3. /\ rest \in Seq(Samples)
        /\ Len(rest) = IF d + 1 <= Len(es) THEN Len(es) - (d + 1) + 1 ELSE 0
        /\ \A i \in 1..(Len(es) - (d + 1) + 1) : rest[i] = es[(d + 1) + i - 1]
    BY <2>1, <2>2, SubSeqProperties
  <2> HIDE DEF rest
  <2> QED BY <2>2, <2>3
<1> HIDE DEF rest
<1>2. IsFiniteSet(Failing(es)) /\ Failing(es) \subseteq 1..Len(es)
  BY FailingFinite
<1>3. IsFiniteSet(Failing(rest)) /\ Failing(rest) \subseteq 1..Len(rest)
  BY <1>1, FailingFinite
<1>4. Cardinality(kept) = Cardinality(Failing(es)) - Cardinality(gone)
  <2>1. Failing(es) \cap gone = gone
    OBVIOUS
  <2> QED BY <1>2, <2>1, FS_Difference
<1>5. ExistsBijection(Failing(rest), kept)
  <2> DEFINE shift == [i \in Failing(rest) |-> i + d]
  <2>1. \A i \in Failing(rest) : i + d \in kept
    <3> SUFFICES ASSUME NEW i \in Failing(rest) PROVE i + d \in kept
      OBVIOUS
    <3>1. i \in 1..(Len(es) - d) /\ rest[i].failed
      BY <1>1, <1>3 DEF Failing
    <3>2. i + d \in 1..Len(es) /\ es[i + d] = rest[i] /\ ~(i + d <= d)
      BY <3>1, <1>1
    <3> QED BY <3>1, <3>2 DEF Failing
  <2>2. \A k \in kept : k - d \in Failing(rest) /\ (k - d) + d = k
    <3> SUFFICES ASSUME NEW k \in kept PROVE k - d \in Failing(rest) /\ (k - d) + d = k
      OBVIOUS
    <3>1. k \in 1..Len(es) /\ es[k].failed /\ ~(k <= d)
      BY <1>2 DEF Failing
    <3>2. k - d \in 1..(Len(es) - d) /\ d + (k - d) = k
      BY <3>1
    <3>3. rest[k - d] = es[k]
      BY <3>2, <1>1
    <3> QED BY <3>1, <3>2, <3>3, <1>1 DEF Failing
  <2>3. shift \in [Failing(rest) -> kept]
    BY <2>1
  <2>4. \A a, b \in Failing(rest) : shift[a] = shift[b] => a = b
    BY <1>3, <1>1
  <2>5. \A k \in kept : \E i \in Failing(rest) : shift[i] = k
    BY <2>2
  <2>6. shift \in Bijection(Failing(rest), kept)
    BY <2>3, <2>4, <2>5, Fun_IsBij
  <2> QED BY <2>6 DEF ExistsBijection
<1>6. Cardinality(kept) = Cardinality(Failing(rest))
  BY <1>3, <1>5, FS_Bijection
<1> QED BY <1>1, <1>4, <1>6 DEF rest

\* pop_front keeps the count exact.
LEMMA PopFrontCounted ==
    ASSUME NEW w, Counted(w), w.entries # <<>>
    PROVE  Counted(PopFront(w)) /\ Len(PopFront(w).entries) = Len(w.entries) - 1
<1> DEFINE es == w.entries
<1>1. es \in Seq(Samples) /\ es # <<>> /\ 1 \in 0..Len(es) /\ w.failures \in Int
  BY DEF Counted, Windows, Samples
<1>2. Tail(es) = SubSeq(es, 1 + 1, Len(es))
  BY <1>1, TailIsSubSeq
<1>3. /\ Tail(es) \in Seq(Samples)
      /\ Len(Tail(es)) = Len(es) - 1
      /\ Cardinality(Failing(Tail(es)))
            = Cardinality(Failing(es)) - Cardinality({i \in Failing(es) : i <= 1})
  BY <1>1, <1>2, DropPrefix
<1>4. {i \in Failing(es) : i <= 1} = IF es[1].failed THEN {1} ELSE {}
  BY <1>1 DEF Failing
<1>5. Cardinality({i \in Failing(es) : i <= 1}) = IF es[1].failed THEN 1 ELSE 0
  BY <1>4, FS_EmptySet, FS_Singleton
<1>6. Head(es) = es[1]
  BY <1>1
<1>7. PopFront(w).failures = Cardinality(Failing(Tail(es)))
  BY <1>1, <1>3, <1>5, <1>6 DEF PopFront, Counted
<1>8. PopFront(w) \in Windows
  BY <1>1, <1>3 DEF PopFront, Windows, Samples
<1>9. PopFront(w).entries = Tail(es)
  BY DEF PopFront
<1> QED BY <1>1, <1>3, <1>7, <1>8, <1>9, WindowAssumption DEF Counted

\* SlidingWindow::push keeps the count exact and the cap.
LEMMA PushCounted ==
    ASSUME NEW w, Counted(w), NEW f \in BOOLEAN, NEW a \in 0..SampleCap
    PROVE  Counted(Push(w, f, a))
<1> DEFINE room == IF Len(w.entries) >= MaxWindowEntries THEN PopFront(w) ELSE w
           new  == [age |-> a, failed |-> f]
<1>1. w.entries \in Seq(Samples)
  BY DEF Counted, Windows, Samples
<1>2. Counted(room) /\ Len(room.entries) < MaxWindowEntries
  <2>1. CASE Len(w.entries) >= MaxWindowEntries
    <3>1. w.entries # <<>>
      BY <1>1, <2>1, WindowAssumption
    <3> QED BY <1>1, <2>1, <3>1, PopFrontCounted, WindowAssumption DEF Counted
  <2>2. CASE ~(Len(w.entries) >= MaxWindowEntries)
    BY <1>1, <2>2, WindowAssumption
  <2> QED BY <2>1, <2>2
<1> HIDE DEF room
<1>3. /\ room.entries \in Seq(Samples) /\ room.failures \in Int
      /\ room.failures = Cardinality(Failing(room.entries))
  BY <1>2 DEF Counted, Windows, Samples
<1>4. new \in Samples /\ new.failed = f
  BY DEF Samples
<1> HIDE DEF new
<1>5. /\ Append(room.entries, new) \in Seq(Samples)
      /\ Len(Append(room.entries, new)) = Len(room.entries) + 1
      /\ \A i \in 1..Len(room.entries) : Append(room.entries, new)[i] = room.entries[i]
      /\ Append(room.entries, new)[Len(room.entries) + 1] = new
  BY <1>3, <1>4
<1>6. Failing(Append(room.entries, new))
        = IF f THEN Failing(room.entries) \cup {Len(room.entries) + 1}
               ELSE Failing(room.entries)
  BY <1>3, <1>4, <1>5 DEF Failing
<1>7. IsFiniteSet(Failing(room.entries)) /\ Len(room.entries) + 1 \notin Failing(room.entries)
  BY <1>3, FailingFinite
<1>8. Cardinality(Failing(Append(room.entries, new)))
        = IF f THEN room.failures + 1 ELSE room.failures
  BY <1>3, <1>6, <1>7, FS_AddElement
<1>9. Push(w, f, a) = [entries  |-> Append(room.entries, new),
                       failures |-> IF f THEN room.failures + 1 ELSE room.failures]
  BY DEF Push, room, new
<1> QED
  BY <1>2, <1>3, <1>5, <1>8, <1>9, WindowAssumption DEF Counted, Windows, Samples

\* SlidingWindow::evict keeps the count exact.
LEMMA EvictCounted ==
    ASSUME NEW w, Counted(w), NEW a
    PROVE  Counted(Evict(w, a))
<1> DEFINE es   == w.entries
           gone == {i \in DOMAIN es : \A j \in 1..i : Expired(es[j], a)}
           drop == Cardinality(gone)
<1>1. es \in Seq(Samples) /\ w.failures = Cardinality(Failing(es)) /\ Len(es) <= MaxWindowEntries
  BY DEF Counted, Windows, Samples
<1>2. gone \subseteq 1..Len(es)
  BY <1>1
<1>3. IsFiniteSet(1..Len(es)) /\ Cardinality(1..Len(es)) = Len(es)
  <2>1. Len(es) \in Nat
    BY <1>1
  <2>2. /\ IsFiniteSet(1..Len(es))
        /\ Cardinality(1..Len(es)) = IF 1 > Len(es) THEN 0 ELSE Len(es) - 1 + 1
    BY <2>1, FS_Interval
  <2> QED BY <2>1, <2>2
<1>4. drop \in 0..Len(es)
  <2> HIDE DEF gone
  <2>1. IsFiniteSet(gone) /\ Cardinality(gone) <= Cardinality(1..Len(es))
    BY <1>2, <1>3, FS_Subset
  <2>2. Cardinality(gone) \in Nat
    BY <2>1, FS_CardinalityType
  <2> QED BY <1>1, <1>3, <2>1, <2>2
<1> HIDE DEF drop
<1>5. /\ SubSeq(es, drop + 1, Len(es)) \in Seq(Samples)
      /\ Len(SubSeq(es, drop + 1, Len(es))) = Len(es) - drop
      /\ Cardinality(Failing(SubSeq(es, drop + 1, Len(es))))
           = Cardinality(Failing(es)) - Cardinality({i \in Failing(es) : i <= drop})
  BY <1>1, <1>4, DropPrefix
<1>6. Evict(w, a) = [entries  |-> SubSeq(es, drop + 1, Len(es)),
                     failures |-> w.failures - Cardinality({i \in Failing(es) : i <= drop})]
  BY DEF Evict, drop
<1>7. Cardinality(Failing(SubSeq(es, drop + 1, Len(es)))) \in Int
  <2>1. IsFiniteSet(Failing(SubSeq(es, drop + 1, Len(es))))
    BY <1>5, FailingFinite
  <2> QED BY <2>1, FS_CardinalityType
<1> QED BY <1>1, <1>4, <1>5, <1>6, <1>7, WindowAssumption DEF Counted, Windows, Samples

-----------------------------------------------------------------------------
(* The inductive invariant.  LeaseInv relates the probe claim to the last  *)
(* takeover: a claim is never older than the takeover that wrote it (up to *)
(* the winner's stale clock), and a thread about to take over has seen a   *)
(* claim at least one lease old.                                           *)

LeaseInv ==
    /\ claimedAge <= takeoverAge + StaleBound
    /\ \A th \in Threads :
        pc[th] = "lease_cas" => loaded[th] - clock[th] >= OpenDuration

IInv == TypeOK /\ Counted(window) /\ LeaseInv

LEMMA EmptyCounted == Counted(EmptyWindow)
<1>1. EmptyWindow \in Windows /\ EmptyWindow.entries = <<>> /\ EmptyWindow.failures = 0
  BY DEF Windows, EmptyWindow
<1>2. Failing(<<>>) = {}
  BY DEF Failing
<1>3. Len(<<>>) <= MaxWindowEntries
  BY WindowAssumption
<1> QED BY <1>1, <1>2, <1>3, FS_EmptySet DEF Counted

LEMMA InitIInv == Init => IInv
<1> SUFFICES ASSUME Init PROVE IInv
  OBVIOUS
<1> USE CapsAreNat, BreakerAssumption DEF Init
<1>1. Counted(window)
  BY EmptyCounted
<1>2. TypeOK
  <2>1. state \in States /\ window \in Windows /\ pc \in [Threads -> Labels]
    BY <1>1 DEF States, Labels, Counted
  <2>2. /\ openedAge \in 0..OpenedCap /\ claimedAge \in 0..ClaimCap
        /\ takeoverAge \in 0..OpenedCap /\ probes \in 0..(UsizeMod - 1)
    OBVIOUS
  <2>3. clock \in [Threads -> 0..StaleBound] /\ loaded \in [Threads -> 0..ClaimCap]
    OBVIOUS
  <2>4. fast \in BOOLEAN /\ failed \in [Threads -> BOOLEAN]
    BY Zenon
  <2> QED BY <2>1, <2>2, <2>3, <2>4 DEF TypeOK
<1>3. LeaseInv
  BY DEF LeaseInv, OpenedCap
<1> QED BY <1>1, <1>2, <1>3 DEF IInv

\* The window is untouched by most steps.
LEMMA CountedUnchanged ==
    ASSUME Counted(window), window' = window
    PROVE  Counted(window)'
BY DEF Counted

\* Every step of a thread, and the passing of time, preserve the invariant.
LEMMA ThreadStep ==
    ASSUME IInv, NEW th \in Threads,
           \/ Check(th) \/ ErrorRate(th) \/ Abandon(th)
           \/ \E isFailure \in BOOLEAN : Record(th, isFailure)
           \/ Inside(th)
    PROVE  IInv'
<1> USE CapsAreNat, BreakerAssumption
<1> USE DEF shared, locals, At, Goto, ReadClock, Return
<1>1. ASSUME Check(th) PROVE IInv'
  <2>1. TypeOK'
    BY <1>1 DEF IInv, TypeOK, States, Labels, Check
  <2>2. Counted(window)'
    BY <1>1, CountedUnchanged DEF IInv, Check
  <2>3. LeaseInv'
    BY <1>1 DEF IInv, TypeOK, LeaseInv, States, Check
  <2> QED BY <2>1, <2>2, <2>3 DEF IInv
<1>2. ASSUME ErrorRate(th) PROVE IInv'
  <2>1. TypeOK'
    BY <1>2 DEF IInv, TypeOK, States, Labels, ErrorRate
  <2>2. Counted(window)'
    BY <1>2, CountedUnchanged DEF IInv, ErrorRate
  <2>3. LeaseInv'
    BY <1>2 DEF IInv, TypeOK, LeaseInv, ErrorRate
  <2> QED BY <2>1, <2>2, <2>3 DEF IInv
<1>3. ASSUME Abandon(th) PROVE IInv'
  <2>1. TypeOK'
    BY <1>3 DEF IInv, TypeOK, States, Labels, Abandon
  <2>2. Counted(window)'
    BY <1>3, CountedUnchanged DEF IInv, Abandon
  <2>3. LeaseInv'
    BY <1>3 DEF IInv, TypeOK, LeaseInv, Abandon
  <2> QED BY <2>1, <2>2, <2>3 DEF IInv
<1>4. ASSUME LoadOpenedAt(th) PROVE IInv'
  <2>1. TypeOK'
    BY <1>4 DEF IInv, TypeOK, States, Labels, LoadOpenedAt
  <2>2. Counted(window)'
    BY <1>4, CountedUnchanged DEF IInv, LoadOpenedAt
  <2>3. LeaseInv'
    BY <1>4 DEF IInv, TypeOK, LeaseInv, LoadOpenedAt
  <2> QED BY <2>1, <2>2, <2>3 DEF IInv
<1>5. ASSUME CoolDown(th) PROVE IInv'
  <2>1. TypeOK'
    BY <1>5 DEF IInv, TypeOK, States, Labels, CoolDown
  <2>2. Counted(window)'
    BY <1>5, CountedUnchanged DEF IInv, CoolDown
  <2>3. LeaseInv'
    BY <1>5 DEF IInv, TypeOK, LeaseInv, CoolDown
  <2> QED BY <2>1, <2>2, <2>3 DEF IInv
<1>6. ASSUME CasHalfOpen(th) PROVE IInv'
  <2>1. TypeOK'
    BY <1>6 DEF IInv, TypeOK, States, Labels, CasHalfOpen
  <2>2. Counted(window)'
    BY <1>6, CountedUnchanged DEF IInv, CasHalfOpen
  <2>3. LeaseInv'
    BY <1>6 DEF IInv, TypeOK, LeaseInv, CasHalfOpen
  <2> QED BY <2>1, <2>2, <2>3 DEF IInv
<1>7. ASSUME Reevaluate(th) PROVE IInv'
  <2>1. TypeOK'
    BY <1>7 DEF IInv, TypeOK, States, Labels, Reevaluate
  <2>2. Counted(window)'
    BY <1>7, CountedUnchanged DEF IInv, Reevaluate
  <2>3. LeaseInv'
    BY <1>7 DEF IInv, TypeOK, LeaseInv, States, Reevaluate
  <2> QED BY <2>1, <2>2, <2>3 DEF IInv
<1>8. ASSUME MirrorOff(th) PROVE IInv'
  <2>1. TypeOK'
    BY <1>8 DEF IInv, TypeOK, States, Labels, MirrorOff
  <2>2. Counted(window)'
    BY <1>8, CountedUnchanged DEF IInv, MirrorOff
  <2>3. LeaseInv'
    BY <1>8 DEF IInv, TypeOK, LeaseInv, MirrorOff
  <2> QED BY <2>1, <2>2, <2>3 DEF IInv
<1>9. ASSUME ProbeClock(th) PROVE IInv'
  <2>1. TypeOK'
    BY <1>9 DEF IInv, TypeOK, States, Labels, ProbeClock
  <2>2. Counted(window)'
    BY <1>9, CountedUnchanged DEF IInv, ProbeClock
  <2>3. LeaseInv'
    BY <1>9 DEF IInv, TypeOK, LeaseInv, ProbeClock
  <2> QED BY <2>1, <2>2, <2>3 DEF IInv
<1>10. ASSUME FetchAdd(th) PROVE IInv'
  <2>1. TypeOK'
    BY <1>10 DEF IInv, TypeOK, States, Labels, FetchAdd
  <2>2. Counted(window)'
    BY <1>10, CountedUnchanged DEF IInv, FetchAdd
  <2>3. LeaseInv'
    BY <1>10 DEF IInv, TypeOK, LeaseInv, FetchAdd
  <2> QED BY <2>1, <2>2, <2>3 DEF IInv
<1>11. ASSUME GiveBack(th) PROVE IInv'
  <2>1. TypeOK'
    BY <1>11 DEF IInv, TypeOK, States, Labels, GiveBack
  <2>2. Counted(window)'
    BY <1>11, CountedUnchanged DEF IInv, GiveBack
  <2>3. LeaseInv'
    BY <1>11 DEF IInv, TypeOK, LeaseInv, GiveBack
  <2> QED BY <2>1, <2>2, <2>3 DEF IInv
<1>12. ASSUME LeaseLost(th) PROVE IInv'
  <2>1. TypeOK'
    BY <1>12 DEF IInv, TypeOK, States, Labels, LeaseLost
  <2>2. Counted(window)'
    BY <1>12, CountedUnchanged DEF IInv, LeaseLost
  <2>3. LeaseInv'
    BY <1>12 DEF IInv, TypeOK, LeaseInv, LeaseLost
  <2> QED BY <2>1, <2>2, <2>3 DEF IInv
<1>13. ASSUME RecordState(th) PROVE IInv'
  <2>1. TypeOK'
    BY <1>13 DEF IInv, TypeOK, States, Labels, RecordState
  <2>2. Counted(window)'
    BY <1>13, CountedUnchanged DEF IInv, RecordState
  <2>3. LeaseInv'
    BY <1>13 DEF IInv, TypeOK, LeaseInv, States, RecordState
  <2> QED BY <2>1, <2>2, <2>3 DEF IInv
<1>14. ASSUME TripState(th) PROVE IInv'
  <2>1. TypeOK'
    BY <1>14 DEF IInv, TypeOK, States, Labels, TripState
  <2>2. Counted(window)'
    BY <1>14, CountedUnchanged DEF IInv, TripState
  <2>3. LeaseInv'
    BY <1>14 DEF IInv, TypeOK, LeaseInv, TripState
  <2> QED BY <2>1, <2>2, <2>3 DEF IInv
<1>15. ASSUME TripClock(th) PROVE IInv'
  <2>1. TypeOK'
    BY <1>15 DEF IInv, TypeOK, States, Labels, TripClock
  <2>2. Counted(window)'
    BY <1>15, CountedUnchanged DEF IInv, TripClock
  <2>3. LeaseInv'
    BY <1>15 DEF IInv, TypeOK, LeaseInv, TripClock
  <2> QED BY <2>1, <2>2, <2>3 DEF IInv
<1>16. ASSUME TripOpenedAt(th) PROVE IInv'
  <2>1. TypeOK'
    BY <1>16 DEF IInv, TypeOK, States, Labels, TripOpenedAt
  <2>2. Counted(window)'
    BY <1>16, CountedUnchanged DEF IInv, TripOpenedAt
  <2>3. LeaseInv'
    BY <1>16 DEF IInv, TypeOK, LeaseInv, TripOpenedAt
  <2> QED BY <2>1, <2>2, <2>3 DEF IInv
<1>17. ASSUME TripProbes(th) PROVE IInv'
  <2>1. TypeOK'
    BY <1>17 DEF IInv, TypeOK, States, Labels, TripProbes
  <2>2. Counted(window)'
    BY <1>17, CountedUnchanged DEF IInv, TripProbes
  <2>3. LeaseInv'
    BY <1>17 DEF IInv, TypeOK, LeaseInv, TripProbes
  <2> QED BY <2>1, <2>2, <2>3 DEF IInv
<1>18. ASSUME TripMirror(th) PROVE IInv'
  <2>1. TypeOK'
    BY <1>18 DEF IInv, TypeOK, States, Labels, TripMirror
  <2>2. Counted(window)'
    BY <1>18, CountedUnchanged DEF IInv, TripMirror
  <2>3. LeaseInv'
    BY <1>18 DEF IInv, TypeOK, LeaseInv, TripMirror
  <2> QED BY <2>1, <2>2, <2>3 DEF IInv
<1>19. ASSUME CloseState(th) PROVE IInv'
  <2>1. TypeOK'
    BY <1>19 DEF IInv, TypeOK, States, Labels, CloseState
  <2>2. Counted(window)'
    BY <1>19, CountedUnchanged DEF IInv, CloseState
  <2>3. LeaseInv'
    BY <1>19 DEF IInv, TypeOK, LeaseInv, CloseState
  <2> QED BY <2>1, <2>2, <2>3 DEF IInv
<1>20. ASSUME CloseProbes(th) PROVE IInv'
  <2>1. TypeOK'
    BY <1>20 DEF IInv, TypeOK, States, Labels, CloseProbes
  <2>2. Counted(window)'
    BY <1>20, CountedUnchanged DEF IInv, CloseProbes
  <2>3. LeaseInv'
    BY <1>20 DEF IInv, TypeOK, LeaseInv, CloseProbes
  <2> QED BY <2>1, <2>2, <2>3 DEF IInv
<1>21. ASSUME CloseMirror(th) PROVE IInv'
  <2>1. TypeOK'
    <3>1. failed' \in [Threads -> BOOLEAN] /\ fast' \in BOOLEAN
      BY <1>21 DEF IInv, TypeOK, CloseMirror
    <3> QED BY <1>21, <3>1 DEF IInv, TypeOK, Labels, CloseMirror
  <2>2. Counted(window)'
    BY <1>21, CountedUnchanged DEF IInv, CloseMirror
  <2>3. LeaseInv'
    BY <1>21 DEF IInv, TypeOK, LeaseInv, CloseMirror
  <2> QED BY <2>1, <2>2, <2>3 DEF IInv
<1>22. ASSUME NEW isFailure \in BOOLEAN, Record(th, isFailure) PROVE IInv'
  <2>1. TypeOK'
    BY <1>22 DEF IInv, TypeOK, States, Labels, Record
  <2>2. Counted(window)'
    BY <1>22, CountedUnchanged DEF IInv, Record
  <2>3. LeaseInv'
    BY <1>22 DEF IInv, TypeOK, LeaseInv, Record
  <2> QED BY <2>1, <2>2, <2>3 DEF IInv
<1>23. ASSUME StampClaim(th) PROVE IInv'
  <2>1. TypeOK'
    BY <1>23 DEF IInv, TypeOK, States, Labels, StampClaim
  <2>2. Counted(window)'
    BY <1>23, CountedUnchanged DEF IInv, StampClaim
  <2>3. LeaseInv'
    BY <1>23 DEF IInv, TypeOK, LeaseInv, OpenedCap, StampClaim
  <2> QED BY <2>1, <2>2, <2>3 DEF IInv
<1>24. ASSUME LoadClaim(th) PROVE IInv'
  <2>1. TypeOK'
    <3>1. CASE Elapsed(claimedAge, clock[th]) >= OpenDuration
      BY <1>24, <3>1 DEF IInv, TypeOK, Labels, LoadClaim
    <3>2. CASE ~(Elapsed(claimedAge, clock[th]) >= OpenDuration)
      <4>0. /\ pc' = [pc EXCEPT ![th] = "idle"] /\ clock' = [clock EXCEPT ![th] = 0]
            /\ loaded' = [loaded EXCEPT ![th] = 0] /\ failed' = [failed EXCEPT ![th] = FALSE]
        BY <1>24, <3>2, Zenon DEF LoadClaim
      <4>1. /\ failed' \in [Threads -> BOOLEAN] /\ pc' \in [Threads -> Labels]
            /\ clock' \in [Threads -> 0..StaleBound] /\ loaded' \in [Threads -> 0..ClaimCap]
        BY <4>0 DEF IInv, TypeOK, Labels
      <4> QED BY <1>24, <4>1 DEF IInv, TypeOK, LoadClaim
    <3> QED BY <3>1, <3>2
  <2>2. Counted(window)'
    BY <1>24, CountedUnchanged DEF IInv, LoadClaim
  <2>3. LeaseInv'
    BY <1>24 DEF IInv, TypeOK, LeaseInv, Elapsed, LoadClaim
  <2> QED BY <2>1, <2>2, <2>3 DEF IInv
<1>25. ASSUME LeaseTakeover(th) PROVE IInv'
  <2>1. TypeOK'
    BY <1>25 DEF IInv, TypeOK, States, Labels, LeaseTakeover
  <2>2. Counted(window)'
    BY <1>25, CountedUnchanged DEF IInv, LeaseTakeover
  <2>3. LeaseInv'
    BY <1>25 DEF IInv, TypeOK, LeaseInv, LeaseTakeover
  <2> QED BY <2>1, <2>2, <2>3 DEF IInv
<1>26. ASSUME RecordClosed(th) PROVE IInv'
  <2>1. Counted(window)'
    <3>1. failed[th] \in BOOLEAN /\ clock[th] \in 0..SampleCap
      BY DEF IInv, TypeOK
    <3> QED BY <1>26, <3>1, PushCounted, EvictCounted DEF IInv, Sampled, RecordClosed
  <2>2. TypeOK'
    BY <1>26, <2>1 DEF IInv, TypeOK, Counted, States, Labels, RecordClosed
  <2>3. LeaseInv'
    BY <1>26 DEF IInv, TypeOK, LeaseInv, RecordClosed
  <2> QED BY <2>1, <2>2, <2>3 DEF IInv
<1>27. ASSUME RecordOpen(th) PROVE IInv'
  <2>1. Counted(window)'
    <3>1. failed[th] \in BOOLEAN /\ clock[th] \in 0..SampleCap
      BY DEF IInv, TypeOK
    <3> QED BY <1>27, <3>1, PushCounted, EvictCounted DEF IInv, Sampled, RecordOpen
  <2>2. TypeOK'
    BY <1>27, <2>1 DEF IInv, TypeOK, Counted, States, Labels, RecordOpen
  <2>3. LeaseInv'
    BY <1>27 DEF IInv, TypeOK, LeaseInv, RecordOpen
  <2> QED BY <2>1, <2>2, <2>3 DEF IInv
<1>28. ASSUME ErrorRateEvict(th) PROVE IInv'
  <2>1. Counted(window)'
    BY <1>28, EvictCounted DEF IInv, ErrorRateEvict
  <2>2. TypeOK'
    BY <1>28, <2>1 DEF IInv, TypeOK, Counted, States, Labels, ErrorRateEvict
  <2>3. LeaseInv'
    BY <1>28 DEF IInv, TypeOK, LeaseInv, ErrorRateEvict
  <2> QED BY <2>1, <2>2, <2>3 DEF IInv
<1>29. ASSUME CloseWindow(th) PROVE IInv'
  <2>1. Counted(window)'
    BY <1>29, EmptyCounted DEF CloseWindow
  <2>2. TypeOK'
    BY <1>29, <2>1 DEF IInv, TypeOK, Counted, States, Labels, CloseWindow
  <2>3. LeaseInv'
    BY <1>29 DEF IInv, TypeOK, LeaseInv, CloseWindow
  <2> QED BY <2>1, <2>2, <2>3 DEF IInv
<1> QED
  BY <1>1, <1>2, <1>3, <1>4, <1>5, <1>6, <1>7, <1>8, <1>9, <1>10, <1>11, <1>12, <1>13, <1>14, <1>15, <1>16, <1>17, <1>18, <1>19, <1>20, <1>21, <1>22, <1>23, <1>24, <1>25, <1>26, <1>27, <1>28, <1>29 DEF Inside

\* Ageing keeps the failing positions and hence the count.
LEMMA TickStep ==
    ASSUME IInv, Tick
    PROVE  IInv'
<1> USE CapsAreNat, BreakerAssumption
<1> DEFINE es   == window.entries
           aged == [i \in DOMAIN es |-> [age    |-> Older(es[i].age, SampleCap),
                                        failed |-> es[i].failed]]
<1>1. es \in Seq(Samples) /\ window \in Windows
  BY DEF IInv, Counted, Windows, Samples
<1>2. \A x \in Samples :
        [age |-> Older(x.age, SampleCap), failed |-> x.failed] \in Samples
  BY DEF Samples, Older
<1>3. aged \in Seq(Samples) /\ Len(aged) = Len(es) /\ DOMAIN aged = DOMAIN es
  <2>1. Len(es) \in Nat /\ DOMAIN es = 1..Len(es) /\ \A i \in 1..Len(es) : es[i] \in Samples
    BY <1>1
  <2>2. aged \in [1..Len(es) -> Samples]
    BY <1>2, <2>1
  <2> HIDE DEF aged
  <2> QED BY <2>1, <2>2, SeqDef
<1>4. Failing(aged) = Failing(es)
  BY <1>3 DEF Failing
<1>5. window' = [window EXCEPT !.entries = aged]
  BY DEF Tick
<1> HIDE DEF aged
<1>6. window'.entries = aged /\ window'.failures = window.failures /\ window' \in Windows
  BY <1>1, <1>3, <1>5 DEF Windows, Samples
<1>7. Counted(window)'
  BY <1>3, <1>4, <1>6 DEF IInv, Counted
<1>8. TypeOK'
  <2>1. /\ openedAge' \in 0..OpenedCap /\ claimedAge' \in 0..ClaimCap
        /\ takeoverAge' \in 0..OpenedCap
    BY DEF IInv, TypeOK, Tick, Older
  <2>2. clock' \in [Threads -> 0..StaleBound]
    BY DEF IInv, TypeOK, Tick
  <2>3. loaded' \in [Threads -> 0..ClaimCap]
    BY DEF IInv, TypeOK, Tick, Older
  <2> QED BY <1>6, <2>1, <2>2, <2>3 DEF IInv, TypeOK, Tick
<1>9. LeaseInv'
  <2>1. claimedAge' <= takeoverAge' + StaleBound
    BY DEF IInv, TypeOK, LeaseInv, Tick, Older, OpenedCap, ClaimCap
  <2>2. ASSUME NEW th \in Threads, pc'[th] = "lease_cas"
        PROVE  loaded'[th] - clock'[th] >= OpenDuration
    BY <2>2 DEF IInv, TypeOK, LeaseInv, Tick, Older, Holding, ClaimCap
  <2> QED BY <2>1, <2>2 DEF LeaseInv
<1> QED BY <1>7, <1>8, <1>9 DEF IInv

LEMMA NextIInv == IInv /\ [Next]_vars => IInv'
<1> SUFFICES ASSUME IInv, [Next]_vars PROVE IInv'
  OBVIOUS
<1>1. CASE UNCHANGED vars
  BY <1>1 DEF vars, shared, locals, IInv, TypeOK, Counted, LeaseInv
<1>2. CASE Tick
  BY <1>2, TickStep
<1>3. ASSUME NEW th \in Threads,
             \/ Check(th) \/ ErrorRate(th) \/ Abandon(th)
             \/ \E isFailure \in BOOLEAN : Record(th, isFailure)
             \/ Inside(th)
      PROVE  IInv'
  BY <1>3, ThreadStep
<1> QED BY <1>1, <1>2, <1>3 DEF Next

-----------------------------------------------------------------------------
(* Type correctness of the breaker's atomics and of every caller's locals, *)
(* for every number of callers and every configuration.                    *)
THEOREM TypeCorrect == Spec => []TypeOK
<1>1. IInv => TypeOK
  BY DEF IInv
<1> QED BY InitIInv, NextIInv, <1>1, PTL DEF Spec

(* window.rs: the incremental failure count is exact and the cap holds,    *)
(* whatever the interleaving of record(), error_rate() and close().        *)
THEOREM WindowCountCorrect == Spec => []WindowCountExact
<1>1. IInv => WindowCountExact
  BY DEF IInv, Counted, WindowCountExact
<1> QED BY InitIInv, NextIInv, <1>1, PTL DEF Spec

(* try_half_open_probe: one abandoned probe is taken over by one caller    *)
(* only; two takeovers are a lease apart.                                  *)
THEOREM LeaseTakeoverExclusive == Spec => LeaseExclusive
<1> DEFINE Apart == \A th \in Threads :
                        pc[th] = "lease_cas" /\ pc'[th] = "inflight"
                            => takeoverAge >= OpenDuration - StaleBound
<1>1. IInv /\ [Next]_vars => [Apart]_vars
  <2> SUFFICES ASSUME IInv, Next, NEW th \in Threads,
                      pc[th] = "lease_cas", pc'[th] = "inflight"
               PROVE  takeoverAge >= OpenDuration - StaleBound
    OBVIOUS
  <2>1. claimedAge = loaded[th]
    BY DEF Next, Inside, IInv, TypeOK, shared, locals, At, Goto, Return, Tick, Check,
       ErrorRate, Abandon, Record, LoadOpenedAt, CoolDown, CasHalfOpen, Reevaluate,
       MirrorOff, ProbeClock, FetchAdd, StampClaim, GiveBack, LoadClaim, LeaseTakeover,
       LeaseLost, RecordState, RecordClosed, RecordOpen, ErrorRateEvict, TripState,
       TripClock, TripOpenedAt, TripProbes, TripMirror, CloseState, CloseWindow,
       CloseProbes, CloseMirror
  <2> QED BY <2>1, CapsAreNat, BreakerAssumption DEF IInv, TypeOK, LeaseInv
<1> QED BY InitIInv, NextIInv, <1>1, PTL DEF Spec, LeaseExclusive
=============================================================================
