--------------------------- MODULE SlidingWindow ---------------------------
(***************************************************************************)
(* The bounded sample window of xai-circuit-breaker (window.rs).  A window *)
(* is the record [entries, failures]: the samples in arrival order and the *)
(* incrementally maintained number of failing ones.  A sample's time is    *)
(* kept as its age in clock ticks, so that runs need not be bounded; an    *)
(* operation's own clock reading is an age too (how long ago it read).     *)
(***************************************************************************)
EXTENDS Integers, Sequences, FiniteSets

CONSTANTS
    WindowDuration,     \* config.window_duration, in ticks
    MaxWindowEntries    \* MAX_WINDOW_ENTRIES

ASSUME WindowAssumption ==
    /\ WindowDuration \in Nat
    /\ MaxWindowEntries \in Nat \ {0}

EmptyWindow == [entries |-> <<>>, failures |-> 0]

Failing(es) == {i \in DOMAIN es : es[i].failed}

\* pop_front, with the bookkeeping both push and evict do around it.
PopFront(w) ==
    [entries  |-> Tail(w.entries),
     failures |-> IF Head(w.entries).failed THEN w.failures - 1 ELSE w.failures]

\* Mutant: the cap drops the oldest sample but forgets that it was a failure.
PushForgetsEvicted(w, failed, age) ==
    LET old == IF Len(w.entries) >= MaxWindowEntries THEN Tail(w.entries) ELSE w.entries
    IN  [entries  |-> Append(old, [age |-> age, failed |-> failed]),
         failures |-> IF failed THEN w.failures + 1 ELSE w.failures]

\* A full window loses its oldest sample before the new one is appended.
Push(w, failed, age) ==
    LET room == IF Len(w.entries) >= MaxWindowEntries THEN PopFront(w) ELSE w
    IN  [entries  |-> Append(room.entries, [age |-> age, failed |-> failed]),
         failures |-> IF failed THEN room.failures + 1 ELSE room.failures]

\* ts < now - window, for a caller that read the clock `age` ticks ago.
Expired(sample, age) == sample.age - age > WindowDuration

\* The while loop of evict pops leading expired samples: it stops at the
\* FIRST sample that is not expired.
Evict(w, age) ==
    LET es   == w.entries
        drop == Cardinality({i \in DOMAIN es : \A j \in 1..i : Expired(es[j], age)})
    IN  [entries  |-> SubSeq(es, drop + 1, Len(es)),
         failures |-> w.failures - Cardinality({i \in Failing(es) : i <= drop})]

\* error_rate() >= num / den, without the float; an empty window has rate 0.
RateAtLeast(w, num, den) ==
    IF w.entries = <<>> THEN num = 0
    ELSE w.failures * den >= num * Len(w.entries)
=============================================================================
