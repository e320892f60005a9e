--------------------------- MODULE RelocationView ---------------------------
(***************************************************************************)
(* A reader of session storage (RelocationView) beside a relocation.  It   *)
(* takes no lease: it reads the journals, then the working directories one *)
(* by one, then selects a directory and validates it against the disk as   *)
(* it is by then.                                                          *)
(***************************************************************************)
EXTENDS Relocation

CONSTANTS
    NotFound,   \* the reader found no session
    Failed      \* the reader returned an error

ASSUME ViewAssumption == NotFound \notin Cwds /\ Failed \notin Cwds

VARIABLES
    seen,       \* the journal the reader loaded
    unread,     \* working directories still to scan
    all,        \* scanned directories of this session
    persisted,  \* those that have a summary
    reading,    \* whether a load is in progress
    selected,   \* what the last load returned
    homes       \* history: every home the session had during the load

reader == <<seen, unread, all, persisted, reading, selected>>
viewVars == <<vars, reader, homes>>

ViewInit ==
    /\ Init
    /\ seen = NoJournal
    /\ unread = {} /\ all = {} /\ persisted = {}
    /\ reading = FALSE
    /\ selected = NotFound
    /\ homes = {}

load_journals ==
    /\ ~reading
    /\ reading' = TRUE
    /\ seen' = journal
    /\ unread' = Cwds
    /\ homes' = {Home}
    /\ UNCHANGED <<vars, all, persisted, selected>>

\* Mutant: a directory with a summary is left out of the candidates.
ScanSplitsCandidates(c) ==
    /\ reading
    /\ c \in unread
    /\ unread' = unread \ {c}
    /\ all' = IF main[c].kind = "partial" THEN all \cup {c} ELSE all
    /\ persisted' = IF main[c].kind = "session" THEN persisted \cup {c} ELSE persisted
    /\ UNCHANGED <<vars, seen, reading, selected, homes>>

\* read_dir returns the working directories in no particular order.
load_candidates(c) ==
    /\ reading
    /\ c \in unread
    /\ unread' = unread \ {c}
    /\ all' = IF main[c] = Absent THEN all ELSE all \cup {c}
    /\ persisted' = IF main[c].kind = "session" THEN persisted \cup {c} ELSE persisted
    /\ UNCHANGED <<vars, seen, reading, selected, homes>>

validate_authoritative_dir ==
    IF has_target_authority(seen.phase) THEN TargetValid(seen) ELSE SourceValid(seen)

\* The view is a local value; its caller drops it.
DropView ==
    /\ seen' = NoJournal
    /\ all' = {} /\ persisted' = {} /\ homes' = {}
    /\ UNCHANGED <<vars, unread>>

\* Mutant: the first of several candidates is taken.
SelectFirst ==
    /\ reading
    /\ unread = {}
    /\ reading' = FALSE
    /\ selected' = IF persisted = {} THEN NotFound ELSE CHOOSE c \in persisted : TRUE
    /\ DropView

\* select, for one session id and no working directory filter
select ==
    /\ reading
    /\ unread = {}
    /\ reading' = FALSE
    /\ selected' =
        IF seen # NoJournal
        THEN IF Authority(seen) \in all /\ validate_authoritative_dir
             THEN Authority(seen) ELSE Failed
        ELSE IF Cardinality(persisted) = 1
             THEN CHOOSE c \in persisted : TRUE ELSE NotFound
    /\ DropView

Relocate ==
    /\ Next
    /\ homes' = IF reading THEN homes \cup {Home'} ELSE homes
    /\ UNCHANGED reader

ViewNext ==
    \/ Relocate
    \/ load_journals
    \/ \E c \in Cwds : load_candidates(c)
    \/ select

ViewSpec == ViewInit /\ [][ViewNext]_viewVars

-----------------------------------------------------------------------------
ViewTypeOK ==
    /\ TypeOK
    /\ seen \in Journals
    /\ unread \subseteq Cwds
    /\ persisted \subseteq all /\ all \subseteq Cwds
    /\ all \cap unread = {}
    /\ selected \in Cwds \cup {NotFound, Failed}
    /\ homes \subseteq Cwds

(* A reader that runs beside relocations returns a directory only if the   *)
(* session lived there at some moment of the load: never a staged copy, a  *)
(* target that was rolled back or a source that was long removed.  The one *)
(* exception needs two relocations within one load: the session has moved  *)
(* to a directory that was scanned before, and the only candidate found is *)
(* the target of its next move.                                            *)
SelectedWasHome ==
    [][selected' \in Cwds /\ reading /\ ~reading' =>
        selected' \in homes \/ \E h, g \in homes : h # g]_viewVars

(* view.rs:1, a "Recovery-aware point-in-time view": at every point in     *)
(* time the session is somewhere, so a load finds it or fails closed.      *)
PointInTime == [][reading /\ ~reading' => selected' # NotFound]_viewVars
=============================================================================
