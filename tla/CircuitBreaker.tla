--------------------------- MODULE CircuitBreaker ---------------------------
(***************************************************************************)
(* One shared breaker of xai-circuit-breaker (breaker.rs), at the grain of *)
(* its atomics: every load, store, read-modify-write, window lock and      *)
(* clock reading of check() and record() is a step of its own, so every    *)
(* interleaving of the callers is a behaviour.  Steps are sequentially     *)
(* consistent; the code's Acquire/Release accesses and its mutex give that *)
(* for the locations compared here.                                        *)
(*                                                                         *)
(* Time.  The code stores millisecond offsets; the model stores ages,      *)
(* which Tick increases and which saturate.  A thread may hold a clock     *)
(* reading for at most StaleBound ticks, and each cap is large enough that *)
(* the saturation changes no comparison.                                   *)
(***************************************************************************)
EXTENDS SlidingWindow

CONSTANTS
    Threads,        \* concurrent callers of one shared breaker
    MaxProbes,      \* config.half_open_max_probes, after .max(1)
    OpenDuration,   \* config.open_duration: cool-down and probe lease
    MinSamples,     \* config.min_samples
    RateNum,        \* config.error_rate_threshold = RateNum / RateDen
    RateDen,
    UsizeMod,       \* 2^64 in the code: the counter wraps
    StaleBound      \* bound: ticks between a clock reading and its last use

ASSUME BreakerAssumption ==
    /\ MaxProbes \in Nat \ {0}
    /\ OpenDuration \in Nat
    /\ MinSamples \in Nat
    /\ RateNum \in Nat /\ RateDen \in Nat \ {0}
    /\ UsizeMod \in Nat \ {0} /\ MaxProbes < UsizeMod
    /\ StaleBound \in Nat /\ StaleBound < OpenDuration

\* Saturation caps: of opened_at and the history variable, of the probe
\* claim, and of a sample.
OpenedCap == OpenDuration
ClaimCap  == OpenDuration + StaleBound
SampleCap == WindowDuration + StaleBound + 1

VARIABLES
    state,        \* the authoritative AtomicU8
    openedAge,    \* age of opened_at_millis
    probes,       \* half_open_probes
    claimedAge,   \* age of probe_claimed_at_millis
    fast,         \* is_open_fast
    window,       \* the mutex-guarded SlidingWindow
    pc,           \* where each thread is
    clock,        \* age of each thread's own clock reading (local `now`)
    loaded,       \* each thread's last atomic load (opened / claimed)
    failed,       \* each thread's is_failure
    takeoverAge   \* history: age of the last lease takeover

shared == <<state, openedAge, probes, claimedAge, fast, window>>
locals == <<clock, loaded, failed>>
vars == <<shared, pc, locals, takeoverAge>>

States == {"Closed", "Open", "HalfOpen"}
Labels == {"idle", "check_open", "cool_down", "cas", "reevaluate", "mirror_off",
           "probe", "fetch_add", "stamp", "give_back", "lease", "lease_cas",
           "inflight", "rec", "rec_closed", "rec_open",
           "trip", "trip_clock", "trip_opened", "trip_probes", "trip_mirror",
           "close", "close_window", "close_probes", "close_mirror", "rate"}

\* Labels at which the thread's clock reading is still going to be used.
Holding == {"fetch_add", "stamp", "give_back", "lease", "lease_cas",
            "rec", "rec_closed", "rec_open", "trip_opened", "rate"}

Older(a, cap) == IF a < cap THEN a + 1 ELSE a
Elapsed(then, now) == IF then > now THEN then - now ELSE 0

Windows == [entries : Seq([age : 0..SampleCap, failed : BOOLEAN]), failures : Int]

TypeOK ==
    /\ state \in States
    /\ openedAge \in 0..OpenedCap /\ claimedAge \in 0..ClaimCap
    /\ takeoverAge \in 0..OpenedCap
    /\ probes \in 0..(UsizeMod - 1)
    /\ fast \in BOOLEAN
    /\ window \in Windows
    /\ pc \in [Threads -> Labels]
    /\ clock \in [Threads -> 0..StaleBound]
    /\ loaded \in [Threads -> 0..ClaimCap]
    /\ failed \in [Threads -> BOOLEAN]

Init ==
    /\ state = "Closed" /\ openedAge = 0 /\ claimedAge = 0
    /\ probes = 0 /\ fast = FALSE /\ window = EmptyWindow
    /\ pc = [th \in Threads |-> "idle"]
    /\ clock = [th \in Threads |-> 0]
    /\ loaded = [th \in Threads |-> 0]
    /\ failed = [th \in Threads |-> FALSE]
    /\ takeoverAge = OpenedCap

-----------------------------------------------------------------------------
(* Program-counter and local-variable helpers.                             *)

At(th, l) == pc[th] = l
Goto(th, l) == pc' = [pc EXCEPT ![th] = l]
ReadClock(th) == clock' = [clock EXCEPT ![th] = 0]
\* A call returns: its locals are dead.
Return(th, l) ==
    /\ Goto(th, l)
    /\ clock' = [clock EXCEPT ![th] = 0]
    /\ loaded' = [loaded EXCEPT ![th] = 0]
    /\ failed' = [failed EXCEPT ![th] = FALSE]

-----------------------------------------------------------------------------
(* check(): Ok moves the thread to "inflight", Err back to "idle".         *)

Check(th) ==
    /\ At(th, "idle")
    /\ Goto(th, [Closed |-> "inflight", Open |-> "check_open", HalfOpen |-> "probe"][state])
    /\ UNCHANGED <<shared, locals, takeoverAge>>

LoadOpenedAt(th) ==
    /\ At(th, "check_open")
    /\ loaded' = [loaded EXCEPT ![th] = openedAge]
    /\ Goto(th, "cool_down")
    /\ UNCHANGED <<shared, clock, failed, takeoverAge>>

\* The clock is read here, after opened_at was loaded.
CoolDown(th) ==
    /\ At(th, "cool_down")
    /\ Return(th, IF loaded[th] >= OpenDuration THEN "cas" ELSE "idle")
    /\ UNCHANGED <<shared, takeoverAge>>

CasHalfOpen(th) ==
    /\ At(th, "cas")
    /\ IF state = "Open"
       THEN state' = "HalfOpen" /\ Goto(th, "mirror_off")
       ELSE state' = state /\ Goto(th, "reevaluate")
    /\ UNCHANGED <<openedAge, probes, claimedAge, fast, window, locals, takeoverAge>>

\* Lost the race: read the state again.
Reevaluate(th) ==
    /\ At(th, "reevaluate")
    /\ Goto(th, [Closed |-> "inflight", Open |-> "idle", HalfOpen |-> "probe"][state])
    /\ UNCHANGED <<shared, locals, takeoverAge>>

\* Won the race; half_open_probes is deliberately not reset.
MirrorOff(th) ==
    /\ At(th, "mirror_off")
    /\ fast' = FALSE
    /\ Goto(th, "probe")
    /\ UNCHANGED <<state, openedAge, probes, claimedAge, window, locals, takeoverAge>>

-----------------------------------------------------------------------------
(* try_half_open_probe()                                                   *)

ProbeClock(th) ==
    /\ At(th, "probe")
    /\ ReadClock(th)
    /\ Goto(th, "fetch_add")
    /\ UNCHANGED <<shared, loaded, failed, takeoverAge>>

FetchAdd(th) ==
    /\ At(th, "fetch_add")
    /\ probes' = (probes + 1) % UsizeMod
    /\ Goto(th, IF probes < MaxProbes THEN "stamp" ELSE "give_back")
    /\ UNCHANGED <<state, openedAge, claimedAge, fast, window, locals, takeoverAge>>

StampClaim(th) ==
    /\ At(th, "stamp")
    /\ claimedAge' = clock[th]
    /\ Return(th, "inflight")
    /\ UNCHANGED <<state, openedAge, probes, fast, window, takeoverAge>>

\* Mutant: the counter does not wrap.
GiveBackUnbounded(th) ==
    /\ At(th, "give_back")
    /\ probes' = probes - 1
    /\ Goto(th, "lease")
    /\ UNCHANGED <<state, openedAge, claimedAge, fast, window, locals, takeoverAge>>

GiveBack(th) ==
    /\ At(th, "give_back")
    /\ probes' = (probes + UsizeMod - 1) % UsizeMod
    /\ Goto(th, "lease")
    /\ UNCHANGED <<state, openedAge, claimedAge, fast, window, locals, takeoverAge>>

\* Mutant: a claim is never considered abandoned.
LoadClaimNoLease(th) ==
    /\ At(th, "lease")
    /\ Return(th, "idle")
    /\ UNCHANGED <<shared, takeoverAge>>

LoadClaim(th) ==
    /\ At(th, "lease")
    /\ IF Elapsed(claimedAge, clock[th]) >= OpenDuration
       THEN /\ loaded' = [loaded EXCEPT ![th] = claimedAge]
            /\ Goto(th, "lease_cas")
            /\ UNCHANGED <<clock, failed>>
       ELSE Return(th, "idle")
    /\ UNCHANGED <<shared, takeoverAge>>

\* Mutant: a plain store instead of the compare_exchange.
LeaseTakeoverByStore(th) ==
    /\ At(th, "lease_cas")
    /\ claimedAge' = clock[th]
    /\ takeoverAge' = 0
    /\ Return(th, "inflight")
    /\ UNCHANGED <<state, openedAge, probes, fast, window>>

\* compare_exchange(claimed, now): the claim was not touched in between.
LeaseTakeover(th) ==
    /\ At(th, "lease_cas")
    /\ claimedAge = loaded[th]
    /\ claimedAge' = clock[th]
    /\ takeoverAge' = 0
    /\ Return(th, "inflight")
    /\ UNCHANGED <<state, openedAge, probes, fast, window>>

LeaseLost(th) ==
    /\ At(th, "lease_cas")
    /\ claimedAge # loaded[th]
    /\ Return(th, "idle")
    /\ UNCHANGED <<shared, takeoverAge>>

-----------------------------------------------------------------------------
(* record(outcome), or the request's future dropped before it.             *)

Abandon(th) ==
    /\ At(th, "inflight")
    /\ Goto(th, "idle")
    /\ UNCHANGED <<shared, locals, takeoverAge>>

Record(th, isFailure) ==
    /\ At(th, "inflight")
    /\ ReadClock(th)
    /\ failed' = [failed EXCEPT ![th] = isFailure]
    /\ Goto(th, "rec")
    /\ UNCHANGED <<shared, loaded, takeoverAge>>

\* prev_state is read once; the rest of record() acts on that reading.
RecordState(th) ==
    /\ At(th, "rec")
    /\ Goto(th, [Closed   |-> "rec_closed",
                 Open     |-> "rec_open",
                 HalfOpen |-> IF failed[th] THEN "trip" ELSE "close"][state])
    /\ UNCHANGED <<shared, locals, takeoverAge>>

Sampled(th) == Evict(Push(window, failed[th], clock[th]), clock[th])

ShouldTrip(w) == Len(w.entries) >= MinSamples /\ RateAtLeast(w, RateNum, RateDen)

RecordClosed(th) ==
    /\ At(th, "rec_closed")
    /\ window' = Sampled(th)
    /\ Return(th, IF ShouldTrip(window') THEN "trip" ELSE "idle")
    /\ UNCHANGED <<state, openedAge, probes, claimedAge, fast, takeoverAge>>

RecordOpen(th) ==
    /\ At(th, "rec_open")
    /\ window' = Sampled(th)
    /\ Return(th, "idle")
    /\ UNCHANGED <<state, openedAge, probes, claimedAge, fast, takeoverAge>>

\* error_rate(): evicts before it reads.
ErrorRate(th) ==
    /\ At(th, "idle")
    /\ ReadClock(th)
    /\ Goto(th, "rate")
    /\ UNCHANGED <<shared, loaded, failed, takeoverAge>>

ErrorRateEvict(th) ==
    /\ At(th, "rate")
    /\ window' = Evict(window, clock[th])
    /\ Return(th, "idle")
    /\ UNCHANGED <<state, openedAge, probes, claimedAge, fast, takeoverAge>>

-----------------------------------------------------------------------------
(* trip(): state, opened_at, probes, mirror; and close().                  *)

TripState(th) ==
    /\ At(th, "trip")
    /\ state' = "Open"
    /\ Goto(th, "trip_clock")
    /\ UNCHANGED <<openedAge, probes, claimedAge, fast, window, locals, takeoverAge>>

TripClock(th) ==
    /\ At(th, "trip_clock")
    /\ ReadClock(th)
    /\ Goto(th, "trip_opened")
    /\ UNCHANGED <<shared, loaded, failed, takeoverAge>>

TripOpenedAt(th) ==
    /\ At(th, "trip_opened")
    /\ openedAge' = clock[th]
    /\ Goto(th, "trip_probes")
    /\ UNCHANGED <<state, probes, claimedAge, fast, window, locals, takeoverAge>>

TripProbes(th) ==
    /\ At(th, "trip_probes")
    /\ probes' = 0
    /\ Goto(th, "trip_mirror")
    /\ UNCHANGED <<state, openedAge, claimedAge, fast, window, locals, takeoverAge>>

TripMirror(th) ==
    /\ At(th, "trip_mirror")
    /\ fast' = TRUE
    /\ Return(th, "idle")
    /\ UNCHANGED <<state, openedAge, probes, claimedAge, window, takeoverAge>>

CloseState(th) ==
    /\ At(th, "close")
    /\ state' = "Closed"
    /\ Goto(th, "close_window")
    /\ UNCHANGED <<openedAge, probes, claimedAge, fast, window, locals, takeoverAge>>

CloseWindow(th) ==
    /\ At(th, "close_window")
    /\ window' = EmptyWindow
    /\ Goto(th, "close_probes")
    /\ UNCHANGED <<state, openedAge, probes, claimedAge, fast, locals, takeoverAge>>

CloseProbes(th) ==
    /\ At(th, "close_probes")
    /\ probes' = 0
    /\ Goto(th, "close_mirror")
    /\ UNCHANGED <<state, openedAge, claimedAge, fast, window, locals, takeoverAge>>

CloseMirror(th) ==
    /\ At(th, "close_mirror")
    /\ fast' = FALSE
    /\ Return(th, "idle")
    /\ UNCHANGED <<state, openedAge, probes, claimedAge, window, takeoverAge>>

-----------------------------------------------------------------------------
(* Time passes.                                                            *)

Tick ==
    /\ \A th \in Threads : pc[th] \in Holding => clock[th] < StaleBound
    /\ openedAge' = Older(openedAge, OpenedCap)
    /\ claimedAge' = Older(claimedAge, ClaimCap)
    /\ takeoverAge' = Older(takeoverAge, OpenedCap)
    /\ window' = [window EXCEPT !.entries =
                    [i \in DOMAIN @ |-> [age    |-> Older(@[i].age, SampleCap),
                                         failed |-> @[i].failed]]]
    /\ clock' = [th \in Threads |->
                    IF pc[th] \in Holding THEN clock[th] + 1 ELSE clock[th]]
    /\ loaded' = [th \in Threads |->
                    IF pc[th] = "cool_down" THEN Older(loaded[th], OpenedCap)
                    ELSE IF pc[th] = "lease_cas" THEN Older(loaded[th], ClaimCap)
                    ELSE loaded[th]]
    /\ UNCHANGED <<state, probes, fast, pc, failed>>

\* Everything a thread does once it is inside a breaker call.
Inside(th) ==
    \/ LoadOpenedAt(th) \/ CoolDown(th) \/ CasHalfOpen(th) \/ Reevaluate(th)
    \/ MirrorOff(th) \/ ProbeClock(th) \/ FetchAdd(th) \/ StampClaim(th)
    \/ GiveBack(th) \/ LoadClaim(th) \/ LeaseTakeover(th) \/ LeaseLost(th)
    \/ RecordState(th) \/ RecordClosed(th) \/ RecordOpen(th)
    \/ ErrorRateEvict(th)
    \/ TripState(th) \/ TripClock(th) \/ TripOpenedAt(th) \/ TripProbes(th)
    \/ TripMirror(th)
    \/ CloseState(th) \/ CloseWindow(th) \/ CloseProbes(th) \/ CloseMirror(th)

Next ==
    \/ \E th \in Threads :
        \/ Check(th) \/ ErrorRate(th) \/ Abandon(th)
        \/ \E isFailure \in BOOLEAN : Record(th, isFailure)
        \/ Inside(th)
    \/ Tick

Spec == Init /\ [][Next]_vars

\* A call that has begun runs to its end, time passes, some caller keeps
\* asking, and a request is not abandoned every single time.
Fairness ==
    /\ WF_vars(Tick)
    /\ \A th \in Threads :
        /\ WF_vars(Inside(th))
        /\ SF_vars(Check(th))
        /\ SF_vars(\E isFailure \in BOOLEAN : Record(th, isFailure))

FairSpec == Spec /\ Fairness

-----------------------------------------------------------------------------
(* Properties.                                                             *)

Quiescent == \A th \in Threads : pc[th] \in {"idle", "inflight"}

(* window.rs keeps `failures` incrementally on push, on the cap's          *)
(* pop_front, on evict and on clear; whatever the interleaving, it is the  *)
(* number of failing samples in the window and the cap is never exceeded.  *)
WindowCountExact ==
    /\ window.failures = Cardinality(Failing(window.entries))
    /\ Len(window.entries) <= MaxWindowEntries

(* try_half_open_probe: "let exactly one caller (the CAS winner) take it   *)
(* over".  Two takeovers of abandoned probes are a whole lease apart, up   *)
(* to the staleness of the winner's clock reading.                         *)
LeaseExclusive ==
    [][\A th \in Threads :
        pc[th] = "lease_cas" /\ pc'[th] = "inflight"
            => takeoverAge >= OpenDuration - StaleBound]_vars

(* Recovery: if from some time on no failure is recorded, the breaker      *)
(* closes for good, even when probes are abandoned, slots leak and trips   *)
(* and closes overlap.                                                     *)
Recovery == (<>[](\A th \in Threads : ~failed[th])) => <>[](state = "Closed")

(* breaker.rs, field doc of is_open_fast: "Lock-free mirror of             *)
(* `state == Open`".  With no call in progress the mirror is exact.        *)
MirrorAgrees == Quiescent => (fast = (state = "Open"))

(* error_rate: evicts "so reads stay time-window-accurate": no sample      *)
(* older than the window is left in the rate it returns.                   *)
RateIsWindowAccurate ==
    [][\A th \in Threads :
        pc[th] = "rate" /\ pc'[th] = "idle"
            => \A i \in DOMAIN window'.entries :
                    ~Expired(window'.entries[i], clock[th])]_vars
=============================================================================
