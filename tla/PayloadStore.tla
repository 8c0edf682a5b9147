---------------------------- MODULE PayloadStore ----------------------------
(***************************************************************************)
(* The payload store against its garbage collector: PUTs of handler.js and *)
(* transfers of upstream.js, which store bytes, then metadata, then an     *)
(* event, and the retention pass of service-worker.js, which reads the     *)
(* log's live set once and then prunes, sweeps and evicts by it.           *)
(*                                                                         *)
(* No transaction spans the event log, the metadata store and the two OPFS *)
(* directories; every access to one of them is one action.  The Web Lock   *)
(* of receiveBlob is left out: PUTs do not take it, so its interleavings   *)
(* are among these.  Files and records are modelled by their presence;     *)
(* what the bytes are is the subject of ResumableTransfer.                 *)
(***************************************************************************)
EXTENDS Integers, FiniteSets, Sequences, SequencesExt

CONSTANTS
    Writers,     \* PUTs and transfers in progress at a time
    Keys,
    Hashes,
    Budget,      \* PAYLOAD_BUDGET, in objects: they all weigh the same
    MaxEvents,   \* bound: blob events retained at a time
    MaxFaults    \* bound: kills and failures

\* What a transfer that was cut short announces instead of an object.
CONSTANT NoHash

ASSUME StoreAssumption ==
    /\ IsFiniteSet(Hashes)
    /\ Budget \in Nat
    /\ MaxEvents \in Nat
    /\ MaxFaults \in Nat
    /\ NoHash \notin Hashes

VARIABLES
    log,       \* the blob events retained, oldest first
    meta,      \* keys with a metadata record
    staging,   \* keys with a file in staging/
    objects,   \* hashes with a file in objects/
    put,       \* the writers' progress
    pass,      \* the retention pass
    faults     \* kills and failures so far, for the bound

storeVars == <<log, meta, staging, objects, put, pass, faults>>

Events == [key : Keys, hash : Hashes \cup {NoHash}]

NoPut == [pc |-> "idle"]

Writing == [pc : {"writing", "closed", "promote", "stored", "recorded"}, key : Keys,
            hash : Hashes \cup {NoHash}]

\* live: the events the pass read; kept: how many of them are still retained.
NoPass ==
    [pc |-> "idle", live |-> <<>>, kept |-> 0, order |-> <<>>, todo |-> {}, total |-> 0]

PassPhases == {"idle", "trimmed", "prune", "list", "objects", "staging", "sizes", "evict"}

StoreTypeOK ==
    /\ log \in Seq(Events)
    /\ meta \subseteq Keys
    /\ staging \subseteq Keys
    /\ objects \subseteq Hashes
    /\ put \in [Writers -> Writing \cup {NoPut}]
    /\ pass.pc \in PassPhases
    /\ pass.order \in Seq(Hashes)
    /\ pass.kept \in 0..Len(log)
    /\ pass.live \in Seq(Events)
    /\ pass.total \in 0..Cardinality(Hashes)
    /\ faults \in 0..MaxFaults

StoreInit ==
    /\ log = <<>>
    /\ meta = {}
    /\ staging = {}
    /\ objects = {}
    /\ put = [w \in Writers |-> NoPut]
    /\ pass = NoPass
    /\ faults = 0

Fault ==
    /\ faults < MaxFaults
    /\ faults' = faults + 1

-----------------------------------------------------------------------------
(* A writer.  While its writable is open nobody can remove or move the     *)
(* staged file.                                                            *)
Held(k) == \E w \in Writers : put[w].pc = "writing" /\ put[w].key = k

HeldByOther(w) == \E v \in Writers \ {w} : put[v].pc = "writing" /\ put[v].key = put[w].key

Unstages(w) ==
    staging' = IF HeldByOther(w) THEN staging ELSE staging \ {put[w].key}

Steps(w, pc) == put' = [put EXCEPT ![w].pc = pc]

(* getFileHandle creates the file; it fills when the writable is closed. *)
Begins(w) ==
    /\ put[w].pc = "idle"
    /\ \E k \in Keys, h \in Hashes :
        /\ put' = [put EXCEPT ![w] = [pc |-> "writing", key |-> k, hash |-> h]]
        /\ staging' = staging \cup {k}
    /\ UNCHANGED <<log, meta, objects, pass, faults>>

Lands(w) ==
    /\ put[w].pc = "writing"
    /\ Steps(w, "closed")
    /\ UNCHANGED <<log, meta, staging, objects, pass, faults>>

(* The body fails and there is nothing to resume: the prefix is removed,   *)
(* or stays under the other writer's lock.                                 *)
WriteFails(w) ==
    /\ put[w].pc = "writing"
    /\ Unstages(w)
    /\ put' = [put EXCEPT ![w] = NoPut]
    /\ Fault
    /\ UNCHANGED <<log, meta, objects, pass>>

(* The body fails and the prefix is worth keeping: a record and an event   *)
(* without an object will say so.                                          *)
PrefixLands(w) ==
    /\ put[w].pc = "writing"
    /\ put' = [put EXCEPT ![w].pc = "stored", ![w].hash = NoHash]
    /\ Fault
    /\ UNCHANGED <<log, meta, staging, objects, pass>>

(* Is the content at rest already?  Then adopt it and drop the staged copy. *)
Resolves(w) ==
    /\ put[w].pc = "closed"
    /\ IF put[w].hash \in objects
       THEN Unstages(w) /\ Steps(w, "stored")
       ELSE UNCHANGED staging /\ Steps(w, "promote")
    /\ UNCHANGED <<log, meta, objects, pass, faults>>

Promotes(w) ==
    /\ put[w].pc = "promote"
    /\ put[w].key \in staging
    /\ objects' = objects \cup {put[w].hash}
    /\ Unstages(w)
    /\ Steps(w, "stored")
    /\ UNCHANGED <<log, meta, pass, faults>>

(* The staged file is gone, or the copy behind move() broke off. *)
PromoteFails(w) ==
    /\ put[w].pc = "promote"
    /\ \/ put[w].key \notin staging /\ UNCHANGED <<objects, faults>>
       \/ Fault /\ objects' = objects \cup {put[w].hash}
    /\ put' = [put EXCEPT ![w] = NoPut]
    /\ UNCHANGED <<log, meta, staging, pass>>

Records(w) ==
    /\ put[w].pc = "stored"
    /\ meta' = meta \cup {put[w].key}
    /\ Steps(w, "recorded")
    /\ UNCHANGED <<log, staging, objects, pass, faults>>

Announces(w) ==
    /\ put[w].pc = "recorded"
    /\ Len(log) < MaxEvents
    /\ log' = Append(log, [key |-> put[w].key, hash |-> put[w].hash])
    /\ put' = [put EXCEPT ![w] = NoPut]
    /\ UNCHANGED <<meta, staging, objects, pass, faults>>

-----------------------------------------------------------------------------
(* The retention pass.                                                     *)
PassGoes(to) == pass' = [pass EXCEPT !.pc = to]

(* log.trim drops a prefix of the events; how many of them are blob events *)
(* depends on what else was appended.                                      *)
Drops(n) == log' = SubSeq(log, n + 1, Len(log))

Trims ==
    /\ pass.pc = "idle"
    /\ \E n \in 0..Len(log) : Drops(n)
    /\ PassGoes("trimmed")
    /\ UNCHANGED <<meta, staging, objects, put, faults>>

(* The same from an append that ran out of space, at any time. *)
PanicTrims ==
    /\ \E n \in 1..Len(log) :
        /\ Drops(n)
        /\ pass' = [pass EXCEPT !.kept = IF @ > n THEN @ - n ELSE 0]
    /\ Fault
    /\ UNCHANGED <<meta, staging, objects, put>>

\* The addresses events name.
Named(events) == {events[i].hash : i \in 1..Len(events)} \ {NoHash}

\* Fault: an object keeps the place of its first reference.
OldestByFirst(events) ==
    LET order[n \in 0..Len(events)] ==
          IF n = 0 THEN <<>>
          ELSE IF events[n].hash = NoHash \/ Contains(order[n - 1], events[n].hash) THEN order[n - 1]
          ELSE Append(order[n - 1], events[n].hash)
    IN  order[Len(events)]

(* Objects by their last reference, oldest first: deleting and re-inserting *)
(* a Map entry moves it to the end.                                         *)
OldestFirst(events) ==
    LET order[n \in 0..Len(events)] ==
          IF n = 0 THEN <<>>
          ELSE IF events[n].hash = NoHash THEN order[n - 1]
          ELSE Append(RemoveFirst(order[n - 1], events[n].hash), events[n].hash)
    IN  order[Len(events)]

\* Fault: BLOB_TYPES without "blob-partial".
CompleteKeys(events) ==
    {events[i].key : i \in {j \in 1..Len(events) : events[j].hash # NoHash}}

LiveKeys(events) == {events[i].key : i \in 1..Len(events)}

(* log.liveObjects: one read of what the log references. *)
ReadsLive ==
    /\ pass.pc = "trimmed"
    /\ pass' = [NoPass EXCEPT !.pc = "prune", !.live = log, !.kept = Len(log),
                              !.order = OldestFirst(log)]
    /\ UNCHANGED <<log, meta, staging, objects, put, faults>>

Prunes ==
    /\ pass.pc = "prune"
    /\ meta' = meta \cap LiveKeys(pass.live)
    /\ PassGoes("list")
    /\ UNCHANGED <<log, staging, objects, put, faults>>

\* Fault: an empty live set is taken for nothing to do.
ListsUnlessEmpty ==
    /\ pass.pc = "list"
    /\ pass' = [pass EXCEPT !.pc = "objects",
                            !.todo = IF pass.live = <<>> THEN {} ELSE objects \ Named(pass.live)]
    /\ UNCHANGED <<log, meta, staging, objects, put, faults>>

(* sweep: the objects listed now that the live set does not name ... *)
Lists ==
    /\ pass.pc = "list"
    /\ pass' = [pass EXCEPT !.pc = "objects", !.todo = objects \ Named(pass.live)]
    /\ UNCHANGED <<log, meta, staging, objects, put, faults>>

Deletes(h) ==
    /\ objects' = objects \ {h}
    /\ UNCHANGED <<log, meta, staging, put, faults>>

SweepsObject ==
    /\ pass.pc = "objects"
    /\ \E h \in pass.todo :
        /\ Deletes(h)
        /\ pass' = [pass EXCEPT !.todo = @ \ {h}]

ObjectsSwept ==
    /\ pass.pc = "objects"
    /\ pass.todo = {}
    /\ pass' = [pass EXCEPT !.pc = "staging", !.todo = Keys \ LiveKeys(pass.live)]
    /\ UNCHANGED <<log, meta, staging, objects, put, faults>>

(* ... and the staged files of keys it does not name. *)
SweepsStaging ==
    /\ pass.pc = "staging"
    /\ \E k \in pass.todo :
        /\ staging' = IF Held(k) THEN staging ELSE staging \ {k}
        /\ pass' = [pass EXCEPT !.todo = @ \ {k}]
    /\ UNCHANGED <<log, meta, objects, put, faults>>

StagingSwept ==
    /\ pass.pc = "staging"
    /\ pass.todo = {}
    /\ PassGoes("sizes")
    /\ UNCHANGED <<log, meta, staging, objects, put, faults>>

(* evictTo: list again, then drop from the front while over the budget;    *)
(* hashes that were not listed are skipped.                                *)
Sizes ==
    /\ pass.pc = "sizes"
    /\ pass' = [pass EXCEPT !.pc = "evict", !.todo = objects, !.total = Cardinality(objects)]
    /\ UNCHANGED <<log, meta, staging, objects, put, faults>>

Evicts ==
    /\ pass.pc = "evict"
    /\ pass.total > Budget
    /\ pass.order # <<>>
    /\ pass' = [pass EXCEPT !.order = Tail(@),
                            !.total = IF Head(pass.order) \in pass.todo THEN @ - 1 ELSE @]
    /\ IF Head(pass.order) \in pass.todo
       THEN Deletes(Head(pass.order))
       ELSE UNCHANGED <<log, meta, staging, objects, put, faults>>

PassEnds ==
    /\ pass.pc = "evict"
    /\ pass.total <= Budget \/ pass.order = <<>>
    /\ pass' = NoPass
    /\ UNCHANGED <<log, meta, staging, objects, put, faults>>

(* The worker is killed, or a transaction fails: nothing is undone. *)
Killed ==
    /\ put' = [w \in Writers |-> NoPut]
    /\ pass' = NoPass
    /\ Fault
    /\ UNCHANGED <<log, meta, staging, objects>>

-----------------------------------------------------------------------------
Puts(w) ==
    \/ Begins(w) \/ Lands(w) \/ WriteFails(w) \/ PrefixLands(w)
    \/ Resolves(w) \/ Promotes(w) \/ PromoteFails(w)
    \/ Records(w) \/ Announces(w)

Sweeps == Prunes \/ Lists \/ SweepsObject \/ ObjectsSwept \/ SweepsStaging \/ StagingSwept

Passes == Trims \/ ReadsLive \/ Sweeps \/ Sizes \/ Evicts \/ PassEnds

StoreNext == (\E w \in Writers : Puts(w)) \/ Passes \/ PanicTrims \/ Killed

StoreSpec == StoreInit /\ [][StoreNext]_storeVars

(* Passes recur (every write asks for one, at most each MAINTENANCE_MS)    *)
(* and a running pass goes on.  Nothing is assumed of the writers.         *)
StoreFairSpec == StoreSpec /\ WF_storeVars(Passes)

-----------------------------------------------------------------------------
(* A pass takes nothing the log named when the pass read it: not an object *)
(* (except to get back under the budget), not the staged prefix a          *)
(* "blob-partial" event points at, not the metadata of a key.              *)
PassSpares ==
    [][Passes => \A i \in 1..pass.kept :
         /\ log[i].hash \in objects => log[i].hash \in objects' \/ pass.total > Budget
         /\ log[i].key \in staging => log[i].key \in staging'
         /\ log[i].key \in meta => log[i].key \in meta']_storeVars

\* The newest reference to h among the events the pass read, 0 for none.
NewestReference(h) ==
    LET references == {i \in 1..Len(pass.live) : pass.live[i].hash = h}
    IN  IF references = {} THEN 0 ELSE CHOOSE i \in references : \A j \in references : j <= i

(* Eviction goes by the newest reference: an object announced again a      *)
(* moment ago outlives every candidate last announced before it.           *)
EvictsOldest ==
    [][Evicts => \A h \in objects \ objects', g \in objects' \cap Range(pass.order) :
         NewestReference(h) < NewestReference(g)]_storeVars

(* Garbage does not stay: an object no retained event names is deleted, or *)
(* named again.  Crashed promotions and forgotten events leak nothing.     *)
Garbage(h) == h \in objects \ Named(log)

Collected == \A h \in Hashes : []<>~Garbage(h)
=============================================================================
