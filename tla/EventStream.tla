----------------------------- MODULE EventStream -----------------------------
(***************************************************************************)
(* The control plane end to end: handler.js streamEvents serving the log   *)
(* as an SSE stream, and app.js connect consuming it and resuming from its *)
(* cursor.                                                                 *)
(*                                                                         *)
(* tab[c] is EventSource.readyState and the retry timer of one tab;        *)
(* conn[c] is the worker's half of its current stream.  The frames of a    *)
(* stream are one sequence, `pipe`: the first `pulled` of them have left   *)
(* the controller's queue for the transforms, the response body and the    *)
(* tab's message queue; the rest are what desiredSize counts.              *)
(***************************************************************************)
EXTENDS EventLog, Sequences

CONSTANTS
    Clients,     \* tabs
    HighWater,   \* HIGH_WATER, the queuing strategy's mark
    Batch,       \* page size of log.since
    WireCap,     \* bound: frames between the controller's queue and the tab
    MaxFaults    \* bound: kills, dropped streams and connectivity changes

ASSUME StreamAssumption ==
    /\ HighWater \in Nat \ {0}
    /\ Batch \in Nat \ {0}
    /\ WireCap \in Nat \ {0}
    /\ MaxFaults \in Nat

VARIABLES
    tab,      \* "connecting", "open", "retry" (timer armed) or "offline"
    cursor,   \* highest id each tab has seen
    conn,     \* the worker's half of each tab's stream
    pings,    \* broadcast { type: "append", id } messages each tab has queued
    seen,     \* history: ids delivered to onmessage
    faults    \* environment faults so far, for the bound

streamVars == <<tab, cursor, conn, pings, seen, faults>>

vars == <<logVars, streamVars>>

\* The "lagged" frame.  It has no id of its own; ids start at 1.
Lagged == 0

Streams ==
    [phase    : {"none", "replay", "live"},
     last     : Nat,           \* `last`, and the cursor of log.since
     page     : SUBSET Ids,    \* rows read and not yet emitted
     more     : BOOLEAN,       \* log.since has another page to read
     buffered : SUBSET Ids,    \* events that landed during replay
     pipe     : Seq(Nat),
     pulled   : Nat,
     lagging  : BOOLEAN]

NoStream ==
    [phase |-> "none", last |-> 0, page |-> {}, more |-> FALSE, buffered |-> {},
     pipe |-> <<>>, pulled |-> 0, lagging |-> FALSE]

StreamTypeOK ==
    /\ tab \in [Clients -> {"connecting", "open", "retry", "offline"}]
    /\ cursor \in [Clients -> Nat]
    /\ conn \in [Clients -> Streams]
    /\ pings \in [Clients -> SUBSET Ids]
    /\ seen \in [Clients -> SUBSET Ids]
    /\ faults \in Nat

StreamInit ==
    /\ LogInit
    /\ tab = [c \in Clients |-> "connecting"]
    /\ cursor = [c \in Clients |-> 0]
    /\ conn = [c \in Clients |-> NoStream]
    /\ pings = [c \in Clients |-> {}]
    /\ seen = [c \in Clients |-> {}]
    /\ faults = 0

\* The smallest id of a set: ids are emitted and handled in their order.
First(S) == {i \in S : \A j \in S : i <= j}

-----------------------------------------------------------------------------
(* One stream of the worker, as operators on its record.                   *)

Opened(from) ==
    [phase |-> "replay", last |-> from, page |-> {}, more |-> TRUE, buffered |-> {},
     pipe |-> <<>>, pulled |-> 0, lagging |-> FALSE]

Queued(k) == Len(k.pipe) - k.pulled

DesiredSize(k) == HighWater - Queued(k)

Emit(k, frame) == [k EXCEPT !.pipe = Append(@, frame)]

\* Fault: the event is dropped without a word.
DroppedSilently(k, id) ==
    CASE k.phase = "none" -> k
      [] k.phase = "replay" -> [k EXCEPT !.buffered = @ \cup {id}]
      [] k.phase = "live" /\ DesiredSize(k) <= 0 -> [k EXCEPT !.lagging = TRUE]
      [] k.phase = "live" /\ DesiredSize(k) > 0 ->
            [Emit(k, id) EXCEPT !.last = id, !.lagging = FALSE]

\* Fault: every dropped event queues a frame of its own.
LaggedEachTime(k, id) ==
    CASE k.phase = "none" -> k
      [] k.phase = "replay" -> [k EXCEPT !.buffered = @ \cup {id}]
      [] k.phase = "live" /\ DesiredSize(k) <= 0 -> Emit(k, Lagged)
      [] k.phase = "live" /\ DesiredSize(k) > 0 -> [Emit(k, id) EXCEPT !.last = id]

(* The callback given to log.subscribe.  Behind, it drops the event and    *)
(* says so once; the client comes back for it with its cursor.             *)
Notified(k, id) ==
    CASE k.phase = "none" -> k
      [] k.phase = "replay" -> [k EXCEPT !.buffered = @ \cup {id}]
      [] k.phase = "live" /\ DesiredSize(k) <= 0 ->
            IF k.lagging THEN k ELSE [Emit(k, Lagged) EXCEPT !.lagging = TRUE]
      [] k.phase = "live" /\ DesiredSize(k) > 0 ->
            [Emit(k, id) EXCEPT !.last = id, !.lagging = FALSE]

\* Fault: log.since stops after its first page.
OnlyPageRead(k, log) ==
    LET rest == {i \in log : i > k.last}
    IN  [k EXCEPT !.page = {i \in rest : Cardinality({j \in rest : j < i}) < Batch},
                  !.more = FALSE]

(* One read transaction of log.since: the first Batch rows after `last`,   *)
(* and whether that was a full page.                                       *)
PageRead(k, log) ==
    LET rest == {i \in log : i > k.last}
    IN  [k EXCEPT !.page = {i \in rest : Cardinality({j \in rest : j < i}) < Batch},
                  !.more = Cardinality(rest) >= Batch]

RowEmitted(k, id) == [Emit(k, id) EXCEPT !.page = @ \ {id}, !.last = id]

\* Fault: what replay covered is emitted again.
AllBufferedEmitted(k, id) == Emit([k EXCEPT !.buffered = @ \ {id}], id)

(* What landed during replay, minus what replay already covered. *)
BufferedEmitted(k, id) ==
    LET flushed == [k EXCEPT !.buffered = @ \ {id}]
    IN  IF id > k.last THEN Emit(flushed, id) ELSE flushed

Served(k) == [k EXCEPT !.pipe = Tail(@), !.pulled = @ - 1]

-----------------------------------------------------------------------------
(* Appends, with the fan-out that follows the commit; the other steps of   *)
(* the log are invisible to streams.                                       *)
Publishes(w) == LogAppend(w) \/ Retry(w)

Publish(w) ==
    /\ Publishes(w)
    /\ conn' = [c \in Clients |-> Notified(conn[c], nextId)]
    /\ pings' = [c \in Clients |-> pings[c] \cup {nextId}]
    /\ UNCHANGED <<tab, cursor, seen, faults>>

LogInternal ==
    /\ \/ \E w \in Writers : QuotaHit(w) \/ NoteFails(w) \/ RetryFails(w)
       \/ \E p \in Callers : Trims(p)
    /\ UNCHANGED streamVars

-----------------------------------------------------------------------------
(* The worker's half.                                                      *)

UpdateStream(c, k) ==
    /\ conn' = [conn EXCEPT ![c] = k]
    /\ UNCHANGED <<logVars, tab, cursor, pings, seen, faults>>

(* The request reaches streamEvents: it subscribes, then replays. *)
Accept(c) ==
    /\ tab[c] = "connecting"
    /\ conn[c].phase = "none"
    /\ UpdateStream(c, Opened(cursor[c]))

ReadPage(c) ==
    /\ conn[c].phase = "replay"
    /\ conn[c].page = {}
    /\ conn[c].more
    /\ UpdateStream(c, PageRead(conn[c], events))

EmitRow(c) ==
    /\ conn[c].phase = "replay"
    /\ \E id \in First(conn[c].page) : UpdateStream(c, RowEmitted(conn[c], id))

EmitBuffered(c) ==
    /\ conn[c].phase = "replay"
    /\ conn[c].page = {}
    /\ ~conn[c].more
    /\ \E id \in First(conn[c].buffered) : UpdateStream(c, BufferedEmitted(conn[c], id))

GoLive(c) ==
    /\ conn[c].phase = "replay"
    /\ conn[c].page = {}
    /\ ~conn[c].more
    /\ conn[c].buffered = {}
    /\ UpdateStream(c, [conn[c] EXCEPT !.phase = "live"])

(* pipeThrough pulls a frame out of the controller's queue. *)
Pull(c) ==
    /\ conn[c].pulled < WireCap
    /\ Queued(conn[c]) > 0
    /\ UpdateStream(c, [conn[c] EXCEPT !.pulled = @ + 1])

-----------------------------------------------------------------------------
(* The tab's half.                                                         *)

(* connect(cursor): the old stream is closed, whatever it still held. *)
Connect(c) ==
    /\ tab' = [tab EXCEPT ![c] = "connecting"]
    /\ conn' = [conn EXCEPT ![c] = NoStream]

Open(c) ==
    /\ tab[c] = "connecting"
    /\ conn[c].phase # "none"
    /\ tab' = [tab EXCEPT ![c] = "open"]
    /\ UNCHANGED <<logVars, cursor, conn, pings, seen, faults>>

OnMessage(c) ==
    /\ tab[c] = "open"
    /\ conn[c].pulled > 0
    /\ Head(conn[c].pipe) # Lagged
    /\ LET id == Head(conn[c].pipe)
       IN  /\ cursor' = [cursor EXCEPT ![c] = IF id > @ THEN id ELSE @]
           /\ seen' = [seen EXCEPT ![c] = @ \cup {id}]
    /\ conn' = [conn EXCEPT ![c] = Served(@)]
    /\ UNCHANGED <<logVars, tab, pings, faults>>

\* Fault: the lagged frame is ignored.
LaggedIgnored(c) ==
    /\ tab[c] = "open"
    /\ conn[c].pulled > 0
    /\ Head(conn[c].pipe) = Lagged
    /\ conn' = [conn EXCEPT ![c] = Served(@)]
    /\ UNCHANGED <<logVars, tab, cursor, pings, seen, faults>>

OnLagged(c) ==
    /\ tab[c] = "open"
    /\ conn[c].pulled > 0
    /\ Head(conn[c].pipe) = Lagged
    /\ Connect(c)
    /\ UNCHANGED <<logVars, cursor, pings, seen, faults>>

RetryTimer(c) ==
    /\ tab[c] = "retry"
    /\ Connect(c)
    /\ UNCHANGED <<logVars, cursor, pings, seen, faults>>

(* A broadcast says the log moved: a tab whose stream is not open, and     *)
(* only such a tab, reconnects.                                            *)
OnPing(c) ==
    \E id \in First(pings[c]) :
        /\ pings' = [pings EXCEPT ![c] = @ \ {id}]
        /\ IF id > cursor[c] /\ tab[c] # "open"
           THEN Connect(c)
           ELSE UNCHANGED <<tab, conn>>
        /\ UNCHANGED <<logVars, cursor, seen, faults>>

-----------------------------------------------------------------------------
(* The environment.                                                        *)

Fault ==
    /\ faults < MaxFaults
    /\ faults' = faults + 1

(* onerror: the stream ends, the tab closes it and arms its own retry. *)
StreamDrops(c) ==
    /\ tab[c] \in {"connecting", "open"}
    /\ tab' = [tab EXCEPT ![c] = "retry"]
    /\ conn' = [conn EXCEPT ![c] = NoStream]
    /\ Fault
    /\ UNCHANGED <<logVars, cursor, pings, seen>>

Offline(c) ==
    /\ tab' = [tab EXCEPT ![c] = "offline"]
    /\ conn' = [conn EXCEPT ![c] = NoStream]
    /\ Fault
    /\ UNCHANGED <<logVars, cursor, pings, seen>>

(* "online", or "pageshow" out of the bfcache: connect without asking. *)
Resume(c) ==
    /\ Connect(c)
    /\ Fault
    /\ UNCHANGED <<logVars, cursor, pings, seen>>

(* Every stream ends with the worker. *)
AllStreamsDrop ==
    /\ tab' = [c \in Clients |-> IF tab[c] \in {"connecting", "open"} THEN "retry" ELSE tab[c]]
    /\ conn' = [c \in Clients |-> NoStream]
    /\ Fault
    /\ UNCHANGED <<cursor, pings, seen>>

WorkerDies ==
    /\ WorkerKilled
    /\ AllStreamsDrop

(* ... after an append committed and before anyone was told of it. *)
WorkerDiesAfterCommit ==
    /\ \E w \in Writers : pc[w] \in {"idle", "note", "retry"}
    /\ Commit
    /\ pc' = [p \in Callers |-> "idle"]
    /\ AllStreamsDrop

-----------------------------------------------------------------------------
Serves(c) == Accept(c) \/ ReadPage(c) \/ EmitRow(c) \/ EmitBuffered(c) \/ GoLive(c) \/ Pull(c)

Consumes(c) == Open(c) \/ OnMessage(c) \/ OnLagged(c) \/ RetryTimer(c) \/ OnPing(c)

Breaks(c) == StreamDrops(c) \/ Offline(c) \/ Resume(c)

StreamNext ==
    \/ \E w \in Writers : Publish(w)
    \/ LogInternal
    \/ \E c \in Clients : Serves(c)
    \/ \E c \in Clients : Consumes(c)
    \/ \E c \in Clients : Breaks(c)
    \/ WorkerDies
    \/ WorkerDiesAfterCommit

StreamSpec == StreamInit /\ [][StreamNext]_vars

(* A tab's own machinery keeps running: the worker answers and reads pages, *)
(* the pipe moves, events are dispatched and the retry timer fires.  An     *)
(* append that has begun goes on (LogFairness).  No fairness for beginning  *)
(* an append, for trims, faults or coming back online.                      *)
StreamFairness ==
    \A c \in Clients :
        /\ WF_vars(Accept(c))
        /\ WF_vars(ReadPage(c) \/ EmitRow(c) \/ EmitBuffered(c) \/ GoLive(c))
        /\ WF_vars(Pull(c))
        /\ WF_vars(Open(c))
        /\ WF_vars(OnMessage(c) \/ OnLagged(c))
        /\ WF_vars(RetryTimer(c))
        /\ WF_vars(OnPing(c))

StreamFairSpec == StreamSpec /\ StreamFairness /\ LogFairness

-----------------------------------------------------------------------------
(* Nothing is skipped: every event the log still retains, up to where a    *)
(* tab resumes, was handed to that tab.  A lag, a dropped stream, a killed *)
(* worker or a trim in the middle of replay must not move the cursor past  *)
(* an event that was never delivered.                                      *)
NoGap ==
    \A c \in Clients : \A i \in events : i <= cursor[c] => i \in seen[c]

\* No lagged frame among the first n frames of a stream.
Unbroken(k, n) == \A m \in 1..n : k.pipe[m] # Lagged

(* Up to the first lagged frame a stream carries ids the tab has not seen, *)
(* each once and in increasing order: replay and the live tail meet        *)
(* without repeating an event and without swapping two.                    *)
PipeOrdered ==
    \A c \in Clients : \A n \in 1..Len(conn[c].pipe) :
        Unbroken(conn[c], n) =>
            /\ conn[c].pipe[n] > cursor[c]
            /\ \A m \in 1..(n - 1) : conn[c].pipe[m] < conn[c].pipe[n]

(* Every step of the control plane is a step of the feed a tab was         *)
(* promised, or changes nothing the tab or the log's readers can see.      *)
F == INSTANCE Feed WITH
        Clients <- Clients, events <- events, nextId <- nextId, seen <- seen, cursor <- cursor
ImplementsFeed == F!FeedSpec

(* A live stream whose reader is slow keeps its memory bounded: past the   *)
(* high water mark (replay may already have filled the queue beyond it)    *)
(* the queue takes one lagged frame and nothing more until it has drained. *)
LiveQueueBounded ==
    [][\A c \in Clients :
         conn[c].phase = "live" /\ Queued(conn[c])' > Queued(conn[c]) =>
             \/ Queued(conn[c])' <= HighWater + 1
             \/ /\ Unbroken(conn[c], Len(conn[c].pipe))
                /\ conn'[c] = [Emit(conn[c], Lagged) EXCEPT !.lagging = TRUE]]_vars

(* An event reaches every tab that stays online, or is trimmed first: no   *)
(* tab is left on a stream that no longer moves.                           *)
CatchesUp ==
    \A c \in Clients : \A i \in 1..MaxId :
        i \in events ~> (i \in seen[c] \/ i \notin events \/ tab[c] = "offline")
=============================================================================
