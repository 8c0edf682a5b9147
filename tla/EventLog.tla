------------------------------ MODULE EventLog ------------------------------
(***************************************************************************)
(* The append-only event log of src/log.js over IndexedDB.                 *)
(*                                                                         *)
(* An event is its id: the autoIncrement key of the `events` store, which  *)
(* is also the cursor clients resume from.  Type and data are abstracted.  *)
(* Every IndexedDB transaction is one action; what a call of api.append or *)
(* api.trim does between two of its transactions is a position in `pc`, so *)
(* calls interleave exactly where the code awaits.                         *)
(***************************************************************************)
EXTENDS Integers, FiniteSets

CONSTANTS
    Writers,         \* concurrent api.append calls (routes, upstream, outbox)
    Pass,            \* the maintenance pass, the other caller of api.trim
    Retention,       \* RETENTION, the window of a scheduled trim
    PanicRetention,  \* PANIC_RETENTION, the window of a trim forced by quota
    MaxId            \* bound of the model: no append once this id was given

ASSUME LogAssumption ==
    /\ Retention \in Nat \ {0}
    /\ PanicRetention \in 1..Retention
    /\ MaxId \in Nat
    /\ Pass \notin Writers

VARIABLES
    events,   \* ids retained in the `events` store
    nextId,   \* the store's key generator
    floor,    \* the value of the __floor record of the metadata store
    pc,       \* where each call stands
    trimTo    \* floor a trim computed from a head it read a transaction ago

logVars == <<events, nextId, floor, pc, trimTo>>

Callers == Writers \cup {Pass}

\* "note" is the detached append that records a quota error; it runs like any
\* other append but nobody waits for it.  A writer stands for one call and its
\* note, so it is free for its next call when the note has settled.
Positions == {"idle", "trim", "trimming", "retry", "note"}

Ids == Nat \ {0}

LogTypeOK ==
    /\ events \subseteq Ids
    /\ nextId \in Ids
    /\ floor \in Nat
    /\ pc \in [Callers -> Positions]
    /\ trimTo \in [Callers -> Nat]

LogInit ==
    /\ events = {}
    /\ nextId = 1
    /\ floor = 0
    /\ pc = [p \in Callers |-> "idle"]
    /\ trimTo = [p \in Callers |-> 0]

At(p, position) == pc[p] = position

GoTo(p, position) == pc' = [pc EXCEPT ![p] = position]

-----------------------------------------------------------------------------
(* api.head: the last key of the store, 0 when it is empty. *)
LogHead == IF events = {} THEN 0
        ELSE CHOOSE i \in events : \A j \in events : j <= i

(* The committed add of api.append.  The id comes from the key generator,  *)
(* which never goes back: deleting events does not free their ids.         *)
Commit ==
    /\ nextId <= MaxId
    /\ events' = events \cup {nextId}
    /\ nextId' = nextId + 1
    /\ UNCHANGED <<floor, trimTo>>

(* First attempt of api.append, for a caller or for a quota note. *)
LogAppend(w) ==
    /\ pc[w] \in {"idle", "note"}
    /\ GoTo(w, "idle")
    /\ Commit

(* The first attempt fails for space: the catch block turns to trimming.   *)
QuotaHit(w) ==
    /\ pc[w] \in {"idle", "note"}
    /\ GoTo(w, "trim")
    /\ UNCHANGED <<events, nextId, floor, trimTo>>

(* The note fails otherwise; its rejection is swallowed. *)
NoteFails(w) ==
    /\ At(w, "note")
    /\ GoTo(w, "idle")
    /\ UNCHANGED <<events, nextId, floor, trimTo>>

(* The second attempt, { retry: false }.  When the error told its quota a  *)
(* note is appended as well, without waiting for it.                       *)
Retry(w) ==
    /\ At(w, "retry")
    /\ \E position \in {"idle", "note"} : GoTo(w, position)
    /\ Commit

\* Fault: the second attempt retries as well.
RetryRecurs(w) ==
    /\ At(w, "retry")
    /\ GoTo(w, "trim")
    /\ UNCHANGED <<events, nextId, floor, trimTo>>

RetryFails(w) ==
    /\ At(w, "retry")
    /\ GoTo(w, "idle")
    /\ UNCHANGED <<events, nextId, floor, trimTo>>

-----------------------------------------------------------------------------
(* api.trim reads the head in one transaction and deletes in another.      *)
\* Fault: the window is one event short.
KeepOneLess(p) == IF p = Pass THEN Retention - 1 ELSE PanicRetention - 1

Keep(p) == IF p = Pass THEN Retention ELSE PanicRetention

TrimStarts(p) == IF p = Pass THEN At(p, "idle") ELSE At(p, "trim")

AfterTrim(p) == IF p = Pass THEN "idle" ELSE "retry"

TrimReadsHead(p) ==
    /\ TrimStarts(p)
    /\ LogHead - Keep(p) > 0
    /\ trimTo' = [trimTo EXCEPT ![p] = LogHead - Keep(p)]
    /\ GoTo(p, "trimming")
    /\ UNCHANGED <<events, nextId, floor>>

(* Nothing beyond the window: trim returns without a write. *)
TrimHasNothing(p) ==
    /\ TrimStarts(p)
    /\ LogHead - Keep(p) <= 0
    /\ GoTo(p, AfterTrim(p))
    /\ UNCHANGED <<events, nextId, floor, trimTo>>

\* Fault: the range deletes one key instead of everything up to it.
TrimDeletesOne(p) ==
    /\ At(p, "trimming")
    /\ events' = events \ {trimTo[p]}
    /\ floor' = trimTo[p]
    /\ GoTo(p, AfterTrim(p))
    /\ UNCHANGED <<nextId, trimTo>>

TrimCommits(p) ==
    /\ At(p, "trimming")
    /\ events' = {i \in events : i > trimTo[p]}
    /\ floor' = trimTo[p]
    /\ GoTo(p, AfterTrim(p))
    /\ UNCHANGED <<nextId, trimTo>>

\* Fault: the floor is written in a transaction of its own.
TrimHalfAborts(p) ==
    /\ At(p, "trimming")
    /\ floor' = trimTo[p]
    /\ GoTo(p, "idle")
    /\ UNCHANGED <<events, nextId, trimTo>>

(* The trim's transaction aborts: the append or the pass rejects. *)
TrimAborts(p) ==
    /\ At(p, "trimming")
    /\ GoTo(p, "idle")
    /\ UNCHANGED <<events, nextId, floor, trimTo>>

(* The worker is terminated: calls in progress are gone, stores stay. *)
WorkerKilled ==
    /\ pc' = [p \in Callers |-> "idle"]
    /\ UNCHANGED <<events, nextId, floor, trimTo>>

-----------------------------------------------------------------------------
Trims(p) ==
    \/ TrimReadsHead(p)
    \/ TrimHasNothing(p)
    \/ TrimCommits(p)
    \/ TrimAborts(p)

LogNext ==
    \/ \E w \in Writers :
        \/ LogAppend(w)
        \/ QuotaHit(w)
        \/ NoteFails(w)
        \/ Retry(w)
        \/ RetryFails(w)
    \/ \E p \in Callers : Trims(p)
    \/ WorkerKilled

LogSpec == LogInit /\ [][LogNext]_logVars

(* IndexedDB answers every request: a call in progress goes on. *)
LogFairness ==
    \A w \in Writers :
        /\ WF_logVars(Trims(w))
        /\ WF_logVars(Retry(w) \/ RetryFails(w))

LogFairSpec == LogSpec /\ LogFairness

-----------------------------------------------------------------------------
(* Retention removes a prefix and ids have no gaps (log.js: "monotonic,    *)
(* gap-free, and exactly what a resume cursor needs"): whatever trims      *)
(* interleave, with whatever stale heads, what is retained is the interval *)
(* from some id up to the last id given.                                   *)
GapFree == \E lo \in 1..nextId : events = lo..(nextId - 1)

(* No trim reaches into the window of the smallest retention, however long *)
(* ago it read the head: the newest PanicRetention events are all there.   *)
RecentKept == ((nextId - PanicRetention)..(nextId - 1)) \cap Ids \subseteq events

(* The floor the status route reports is never above a retained event.     *)
BelowFloorGone == \A i \in events : floor < i

(* An append that ran out of space settles: it trims once, retries once    *)
(* and returns or throws, and does not trim and retry for ever.            *)
AppendSettles ==
    \A w \in Writers : pc[w] \in {"trim", "trimming", "retry"} ~> pc[w] \in {"idle", "note"}
=============================================================================
