------------------------------ MODULE ReadModel ------------------------------
(***************************************************************************)
(* One tab's SQL read model: query.js createQueryClient, the handlers of   *)
(* workers/query.js and app.js's use of them, over a log that grows and is *)
(* trimmed.  A row is the id of its event.  The worker handles its         *)
(* messages one after the other, `inbox`; what the page does on a reply    *)
(* happens with the reply.                                                 *)
(***************************************************************************)
EXTENDS Integers, Sequences

CONSTANTS
    First,      \* the sync the first query starts
    Resyncs,    \* resyncs that may run at once, each with a sync of its own
    NoSync,     \* no sync was started, nobody waits for one
    Disk,       \* rows an earlier session left in the persistent database
    MaxId,      \* bound: events
    MaxTrims,   \* bound: trims
    MaxFaults   \* bound: failing fetches, workers and databases that fail to start

ASSUME ReadAssumption ==
    /\ First \notin Resyncs
    /\ NoSync \notin Resyncs \cup {First}
    /\ MaxId \in Nat \ {0}
    /\ {MaxTrims, MaxFaults} \subseteq Nat
    /\ Disk \subseteq 1..MaxId

VARIABLES
    lo, hi,     \* the log retains lo..hi
    notices,    \* "trimmed" broadcasts the tab has queued
    trims,
    cursor,     \* highest id the tab's onmessage has seen
    worker,     \* "none", "up", "broken": its database did not open, or "dead"
    inbox,      \* messages posted to the worker
    model,      \* rows of its table
    sync,       \* where each sync stands
    rows,       \* what each sync's backfill has read and not posted yet
    current,    \* the memoised one, `synced`
    resync,     \* where each resync stands
    query,      \* a query of the page: "idle", "waiting" for a sync, "posted"
    waits,      \* the sync it waits for
    owed,       \* history: what the tab had seen when it asked the query
    missed,     \* history: events pushed to no worker after a backfill read the log
    stale,      \* history: rows that were already trimmed when the table got them
    faults

logVars == <<lo, hi, notices, trims, cursor>>
tableVars == <<worker, inbox, model, stale>>
syncVars == <<sync, rows, current, resync>>
queryVars == <<query, waits, owed>>
readVars == <<logVars, tableVars, syncVars, queryVars, missed, faults>>

Syncs == Resyncs \cup {First}

Retained == lo..hi

Messages ==
    [kind : {"ingest"}, rows : SUBSET (1..MaxId), by : Syncs \cup {NoSync}]
        \cup [kind : {"reset"}, by : Resyncs] \cup [kind : {"query"}]

ReadTypeOK ==
    /\ lo \in 1..(MaxId + 1) /\ hi \in 0..MaxId
    /\ notices \in Nat /\ trims \in 0..MaxTrims
    /\ cursor \in 0..MaxId
    /\ worker \in {"none", "up", "broken", "dead"}
    /\ inbox \in Seq(Messages)
    /\ {model, owed, missed, stale} \subseteq SUBSET (1..MaxId)
    /\ sync \in [Syncs -> {"none", "read", "answered", "ingest", "done", "failed"}]
    /\ rows \in [Syncs -> SUBSET (1..MaxId)]
    /\ {current, waits} \subseteq Syncs \cup {NoSync}
    /\ resync \in [Resyncs -> {"idle", "reset", "sync"}]
    /\ query \in {"idle", "waiting", "posted"}
    /\ faults \in 0..MaxFaults

ReadInit ==
    /\ lo = 1 /\ hi \in 0..1 /\ notices = 0 /\ trims = 0 /\ cursor = 0
    /\ worker = "none" /\ inbox = <<>> /\ model = {} /\ stale = {}
    /\ sync = [s \in Syncs |-> "none"] /\ rows = [s \in Syncs |-> {}] /\ current = NoSync
    /\ resync = [r \in Resyncs |-> "idle"]
    /\ query = "idle" /\ waits = NoSync /\ owed = {}
    /\ missed = {} /\ faults = 0

Fault == faults < MaxFaults /\ faults' = faults + 1

-----------------------------------------------------------------------------
(* The log. *)
Append1 ==
    /\ hi < MaxId
    /\ hi' = hi + 1
    /\ UNCHANGED <<lo, notices, trims, cursor, tableVars, syncVars, queryVars, missed, faults>>

Trimmed ==
    /\ trims < MaxTrims
    /\ lo < hi
    /\ lo' = lo + 1
    /\ notices' = notices + 1
    /\ trims' = trims + 1
    /\ UNCHANGED <<hi, cursor, tableVars, syncVars, queryVars, missed, faults>>

-----------------------------------------------------------------------------
(* Messages to the worker; the first one spawns it.                        *)

(* open(): the persistent database if the Web Lock was granted and OPFS is *)
(* there, else one in memory.  It throws if SQLite does not load: every    *)
(* message is then answered by an error.  A script that does not load or   *)
(* start at all answers none, and the page does not listen for its error.  *)
Spawned ==
    /\ \/ worker' = "up" /\ model' \in {{}, Disk} /\ UNCHANGED faults
       \/ worker' \in {"broken", "dead"} /\ model' = {} /\ Fault
    /\ stale' = model' \ Retained

Post(message) ==
    /\ inbox' = Append(inbox, message)
    /\ IF worker = "none" THEN Spawned ELSE UNCHANGED <<worker, model, stale, faults>>

(* onmessage: the cursor moves and the event is pushed, which does nothing *)
(* while there is no worker.  A stream may still carry what was trimmed.   *)
NextEvent == {i \in {cursor + 1, lo} : i \in (cursor + 1)..hi}

\* Fault: a push before the model is synced is taken for covered by the sync.
PushesWhenSynced ==
    \E i \in NextEvent :
        /\ cursor' = i
        /\ IF worker # "none" /\ sync[current] = "done"
           THEN inbox' = Append(inbox, [kind |-> "ingest", rows |-> {i}, by |-> NoSync])
           ELSE UNCHANGED inbox
        /\ UNCHANGED <<lo, hi, notices, trims, worker, model, stale, syncVars, queryVars, missed, faults>>

Pushes ==
    \E i \in NextEvent :
        /\ cursor' = i
        /\ IF worker # "none"
           THEN /\ inbox' = Append(inbox, [kind |-> "ingest", rows |-> {i}, by |-> NoSync])
                /\ UNCHANGED missed
           ELSE /\ missed' = IF \E s \in Syncs : sync[s] \in {"answered", "done"}
                             THEN missed \cup {i} ELSE missed
                /\ UNCHANGED inbox
        /\ UNCHANGED <<lo, hi, notices, trims, worker, model, stale, syncVars, queryVars, faults>>

-----------------------------------------------------------------------------
(* query and sync.                                                         *)

Asks ==
    /\ query = "idle"
    /\ query' = "waiting"
    /\ owed' = {i \in Retained : i <= cursor}
    /\ IF current = NoSync
       THEN current' = First /\ sync' = [sync EXCEPT ![First] = "read"]
       ELSE UNCHANGED <<current, sync>>
    /\ waits' = current'
    /\ UNCHANGED <<logVars, tableVars, rows, resync, missed, faults>>

(* GET api/log reads the log. *)
Snapshot(s) ==
    /\ sync[s] = "read"
    /\ sync' = [sync EXCEPT ![s] = "answered"]
    /\ rows' = [rows EXCEPT ![s] = Retained]
    /\ missed' = missed \ Retained
    /\ UNCHANGED <<logVars, tableVars, current, resync, queryVars, faults>>

(* The fetch fails, or no worker can be made to post its rows to. *)
BackfillFails(s) ==
    /\ sync[s] \in {"read", "answered"}
    /\ Fault
    /\ sync' = [sync EXCEPT ![s] = "failed"]
    /\ rows' = [rows EXCEPT ![s] = {}]
    /\ UNCHANGED <<logVars, tableVars, current, resync, queryVars, missed>>

Backfilled(s) ==
    /\ sync[s] = "answered"
    /\ IF rows[s] = {}
       THEN /\ sync' = [sync EXCEPT ![s] = "done"]
            /\ UNCHANGED <<tableVars, faults>>
       ELSE /\ sync' = [sync EXCEPT ![s] = "ingest"]
            /\ Post([kind |-> "ingest", rows |-> rows[s], by |-> s])
    /\ rows' = [rows EXCEPT ![s] = {}]
    /\ UNCHANGED <<logVars, current, resync, queryVars, missed>>

\* Fault: the query does not wait for the sync.
PostsAtOnce ==
    /\ query = "waiting"
    /\ query' = "posted"
    /\ Post([kind |-> "query"])
    /\ waits' = NoSync
    /\ UNCHANGED <<logVars, syncVars, owed, missed>>

PostsQuery ==
    /\ query = "waiting"
    /\ sync[waits] = "done"
    /\ query' = "posted"
    /\ Post([kind |-> "query"])
    /\ waits' = NoSync
    /\ UNCHANGED <<logVars, syncVars, owed, missed>>

(* Under isolation the source of the worker is fetched first.  Where that  *)
(* fails there is no worker, and the query rejects.                        *)
SpawnFails ==
    /\ query = "waiting"
    /\ sync[waits] = "done"
    /\ worker = "none"
    /\ Fault
    /\ query' = "idle"
    /\ waits' = NoSync
    /\ owed' = {}
    /\ UNCHANGED <<logVars, tableVars, syncVars, missed>>

(* The rejected sync stays memoised: this query rejects, and those to come. *)
Rejects ==
    /\ query = "waiting"
    /\ sync[waits] = "failed"
    /\ query' = "idle"
    /\ waits' = NoSync
    /\ owed' = {}
    /\ UNCHANGED <<logVars, tableVars, syncVars, missed, faults>>

-----------------------------------------------------------------------------
(* The worker answers its messages in their order. *)

Takes(kind) ==
    /\ worker # "dead"
    /\ inbox # <<>>
    /\ Head(inbox).kind = kind
    /\ inbox' = Tail(inbox)
    /\ UNCHANGED worker

Ingests ==
    /\ Takes("ingest")
    /\ LET message == Head(inbox)
       IN  /\ IF worker = "up"
              THEN /\ model' = model \cup message.rows
                   /\ stale' = stale \cup (message.rows \ Retained)
              ELSE UNCHANGED <<model, stale>>
           /\ sync' = IF message.by = NoSync THEN sync
                      ELSE [sync EXCEPT ![message.by] = IF worker = "up" THEN "done" ELSE "failed"]
    /\ UNCHANGED <<logVars, rows, current, resync, queryVars, missed, faults>>

\* Fault: the table is not emptied first.
ResetsNothing ==
    /\ Takes("reset")
    /\ LET r == Head(inbox).by
       IN  /\ resync' = [resync EXCEPT ![r] = "sync"]
           /\ sync' = [sync EXCEPT ![r] = "read"]
           /\ current' = r
    /\ UNCHANGED <<logVars, model, stale, rows, queryVars, missed, faults>>

(* Reset, and with its reply: `synced` is dropped and a new sync started.  *)
(* A rejected reset ends the resync and leaves `synced` as it was.         *)
Resets ==
    /\ Takes("reset")
    /\ LET r == Head(inbox).by
       IN  IF worker = "up"
           THEN /\ model' = {}
                /\ stale' = {}
                /\ resync' = [resync EXCEPT ![r] = "sync"]
                /\ sync' = [sync EXCEPT ![r] = "read"]
                /\ current' = r
           ELSE /\ resync' = [resync EXCEPT ![r] = "idle"]
                /\ UNCHANGED <<model, stale, sync, current>>
    /\ UNCHANGED <<logVars, rows, queryVars, missed, faults>>

\* Fault: no reply when the handler throws.
AnswersIfUp ==
    /\ Takes("query")
    /\ query' = IF worker = "up" THEN "idle" ELSE query
    /\ UNCHANGED <<logVars, model, stale, syncVars, waits, owed, missed, faults>>

(* Rows or an error: the page's promise settles. *)
AnswersQuery ==
    /\ Takes("query")
    /\ query' = "idle"
    /\ owed' = {}
    /\ UNCHANGED <<logVars, model, stale, syncVars, waits, missed, faults>>

(* The tab hears that the log was trimmed. *)
HearsTrimmed(r) ==
    /\ notices > 0
    /\ notices' = notices - 1
    /\ IF worker = "none"
       THEN UNCHANGED <<inbox, resync>>
       ELSE /\ resync[r] = "idle"
            /\ waits # r
            /\ resync' = [resync EXCEPT ![r] = "reset"]
            /\ inbox' = Append(inbox, [kind |-> "reset", by |-> r])
    /\ UNCHANGED <<lo, hi, trims, cursor, worker, model, stale, sync, rows, current, queryVars, missed, faults>>

ResyncEnds(r) ==
    /\ resync[r] = "sync"
    /\ sync[r] \in {"done", "failed"}
    /\ resync' = [resync EXCEPT ![r] = "idle"]
    /\ UNCHANGED <<logVars, tableVars, sync, rows, current, queryVars, missed, faults>>

-----------------------------------------------------------------------------
Backfills(s) == Snapshot(s) \/ BackfillFails(s) \/ Backfilled(s)

Works == Ingests \/ Resets \/ AnswersQuery

ReadNext ==
    \/ Append1 \/ Trimmed \/ Pushes \/ Asks \/ PostsQuery \/ SpawnFails \/ Rejects \/ Works
    \/ \E s \in Syncs : Backfills(s)
    \/ \E r \in Resyncs : HearsTrimmed(r) \/ ResyncEnds(r)

ReadSpec == ReadInit /\ [][ReadNext]_readVars

(* Fetches settle, a worker that started answers, the page goes on. *)
ReadFairness ==
    /\ \A s \in Syncs : WF_readVars(Backfills(s))
    /\ WF_readVars(Works)
    /\ WF_readVars(PostsQuery \/ Rejects)

ReadFairSpec == ReadSpec /\ ReadFairness

-----------------------------------------------------------------------------
Settled == worker = "up" /\ \A r \in Resyncs : resync[r] = "idle"

Synced == Settled /\ current # NoSync /\ sync[current] = "done"

OnTheirWay == UNION {inbox[n].rows : n \in {m \in DOMAIN inbox : inbox[m].kind = "ingest"}}

(* "Replay the whole log into the read model once, then keep it current"   *)
(* (query.js:54): what the tab has seen and the log retains is in the      *)
(* table or on its way there, however backfills, pushes and resyncs        *)
(* overlap - except what arrived between a first backfill's read of the    *)
(* log and the worker it spawned, which push dropped.                      *)
TableCurrent ==
    Synced =>
        {i \in Retained : i <= cursor} \subseteq model \cup OnTheirWay \cup missed

(* Once every trim was heard the table has no rows the log dropped, except *)
(* rows that were dropped before the table got them: a backfill or push    *)
(* that was overtaken by a reset, or the persistent copy of an earlier     *)
(* session, which opening does not empty.                                  *)
NoStaleRows == Settled /\ notices = 0 => model \subseteq Retained \cup stale

(* An answer covers what the tab had seen when it asked, with the same     *)
(* exception, unless a resync was under way, which empties the table while *)
(* `synced` is still the old one, or has failed and left it empty.         *)
AnswersCover ==
    [][AnswersQuery /\ Settled /\ sync[current] # "failed" =>
         owed \cap Retained \subseteq model \cup missed]_readVars

(* Every query settles, also when the fetch of the log, of the worker or   *)
(* of SQLite fails and behind whatever the worker's queue holds - but for  *)
(* a worker that never starts: nothing rejects what waits for its reply.   *)
QuerySettlesUnlessDead == query # "idle" ~> (query = "idle" \/ worker = "dead")
=============================================================================
