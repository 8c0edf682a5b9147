------------------------------- MODULE Outbox -------------------------------
(***************************************************************************)
(* The outbox: POSTed events are logged, then queued for the upstream, and *)
(* a flush sends them one by one, on a sync event of the browser and when  *)
(* the worker boots.                                                       *)
(*                                                                         *)
(* An operation is named by its outbox id.  Every transaction and every    *)
(* request is one action; the worker may be killed between any two.        *)
(***************************************************************************)
EXTENDS Integers, FiniteSets

CONSTANTS
    Requests,    \* POSTs in progress at a time
    MaxTries,    \* attempts the browser makes of one sync registration
    MaxOps,      \* bound: operations queued
    MaxFaults    \* bound: kills in the middle of work, failing transactions

ASSUME OutboxAssumption ==
    /\ MaxTries \in Nat \ {0}
    /\ MaxOps \in Nat
    /\ MaxFaults \in Nat

VARIABLES
    last,         \* the last outbox id given
    outbox,       \* the operations pending
    reached,      \* those the upstream has accepted, at least once
    sent,         \* those the log says were sent
    abandoned,    \* those the log says were given up
    hidden,       \* those given up whose note was lost (history)
    worker,       \* the service worker
    request,      \* progress of the POSTs
    flush,        \* `flushing`: the flush in progress
    sync,         \* the browser's sync registration
    supported,    \* whether it has Background Sync at all
    faults        \* for the bound

outboxVars == <<last, outbox, reached, sent, abandoned, hidden, worker, request,
                flush, sync, supported, faults>>

Ops == Nat \ {0}

NoFlush == [pc |-> "idle", todo |-> {}, lastChance |-> FALSE, event |-> FALSE]

NoSync == [pc |-> "none", tries |-> 0]

FlushPhases == {"idle", "reads", "sends", "dequeues", "notes", "gives up", "confesses"}

\* What of the snapshot is not settled yet goes in the order of the ids.
Flushings == [pc : FlushPhases, todo : SUBSET Ops, lastChance : BOOLEAN, event : BOOLEAN]

Syncs == [pc : {"none", "pending", "firing", "again"}, tries : 0..MaxTries]

OutboxTypeOK ==
    /\ last \in Nat
    /\ outbox \subseteq 1..last
    /\ reached \subseteq 1..last
    /\ sent \subseteq reached
    /\ abandoned \subseteq 1..last
    /\ hidden \subseteq 1..last
    /\ worker \in {"dead", "booting", "up"}
    /\ request \in [Requests -> {"idle", "logged", "queued"}]
    /\ flush \in Flushings
    /\ flush.todo \subseteq 1..last
    /\ flush.pc \in {"idle", "reads"} <=> flush.todo = {}
    /\ sync \in Syncs
    /\ flush.event => sync.pc \in {"firing", "again"}
    /\ supported \in BOOLEAN
    /\ faults \in 0..MaxFaults

OutboxInit ==
    /\ last = 0
    /\ outbox = {}
    /\ reached = {}
    /\ sent = {}
    /\ abandoned = {}
    /\ hidden = {}
    /\ worker = "dead"
    /\ request = [r \in Requests |-> "idle"]
    /\ flush = NoFlush
    /\ sync = NoSync
    /\ supported \in BOOLEAN
    /\ faults = 0

Fault ==
    /\ faults < MaxFaults
    /\ faults' = faults + 1

-----------------------------------------------------------------------------
(* A POST: append, enqueue, register.                                      *)
Posts(r) ==
    /\ worker = "up"
    /\ last + Cardinality({q \in Requests : request[q] = "logged"}) < MaxOps
    /\ request[r] = "idle"
    /\ request' = [request EXCEPT ![r] = "logged"]
    /\ UNCHANGED <<last, outbox, reached, sent, abandoned, hidden, worker, flush, sync, supported, faults>>

Enqueues(r) ==
    /\ request[r] = "logged"
    /\ last' = last + 1
    /\ outbox' = outbox \cup {last'}
    /\ request' = [request EXCEPT ![r] = "queued"]
    /\ UNCHANGED <<reached, sent, abandoned, hidden, worker, flush, sync, supported, faults>>

(* Without Background Sync registering fails, and that is all. *)
Registers(r) ==
    /\ request[r] = "queued"
    /\ request' = [request EXCEPT ![r] = "idle"]
    /\ sync' = IF ~supported THEN sync
               ELSE IF sync.pc \in {"firing", "again"} THEN [sync EXCEPT !.pc = "again"]
               ELSE [pc |-> "pending", tries |-> 0]
    /\ UNCHANGED <<last, outbox, reached, sent, abandoned, hidden, worker, flush, supported, faults>>

-----------------------------------------------------------------------------
(* flushOutbox: one flush at a time; whoever comes second joins it.        *)
Flushes(lastChance, event) ==
    flush' = IF flush.pc = "idle"
             THEN [pc |-> "reads", todo |-> {}, lastChance |-> lastChance, event |-> event]
             ELSE [flush EXCEPT !.event = @ \/ event]

(* The browser's side of a sync event that has settled: a failure is       *)
(* retried unless it was the last chance; a registration made meanwhile    *)
(* starts over.                                                            *)
Settles(ok) ==
    IF sync.pc = "again" THEN [pc |-> "pending", tries |-> 0]
    ELSE IF ok \/ sync.tries = MaxTries THEN NoSync
    ELSE [sync EXCEPT !.pc = "pending"]

(* The promise of the flush settles, and with it the event waiting on it. *)
Settled(ok) ==
    /\ flush' = NoFlush
    /\ sync' = IF flush.event THEN Settles(ok) ELSE sync

SyncFires ==
    /\ sync.pc = "pending"
    /\ sync' = [pc |-> "firing", tries |-> sync.tries + 1]
    /\ Flushes(sync'.tries = MaxTries, TRUE)
    /\ worker' = IF worker = "dead" THEN "booting" ELSE worker
    /\ UNCHANGED <<last, outbox, reached, sent, abandoned, hidden, request, supported, faults>>

(* A request of a page wakes the worker. *)
Wakes ==
    /\ worker = "dead"
    /\ worker' = "booting"
    /\ UNCHANGED <<last, outbox, reached, sent, abandoned, hidden, request, flush, sync, supported, faults>>

\* Fault: what an earlier instance left is left to Background Sync.
BootsOnly ==
    /\ worker = "booting"
    /\ worker' = "up"
    /\ UNCHANGED <<last, outbox, reached, sent, abandoned, hidden, request, flush, sync, supported, faults>>

(* boot flushes what an earlier instance left. *)
Boots ==
    /\ worker = "booting"
    /\ worker' = "up"
    /\ IF outbox # {} THEN Flushes(FALSE, FALSE) ELSE flush' = flush
    /\ UNCHANGED <<last, outbox, reached, sent, abandoned, hidden, request, sync, supported, faults>>

-----------------------------------------------------------------------------
(* drainOutbox.  It awaits boot(), reads what is pending, once, and sends  *)
(* it in the order of the ids.                                             *)
\* The operation the loop is at: the first of those left.
Op == {i \in flush.todo : \A j \in flush.todo : i <= j}

Goes(pc) == flush' = [flush EXCEPT !.pc = pc]

GoesOn(todo) ==
    IF todo = {} THEN Settled(TRUE)
    ELSE flush' = [flush EXCEPT !.pc = "sends", !.todo = todo] /\ UNCHANGED sync

Reads ==
    /\ flush.pc = "reads"
    /\ worker = "up"
    /\ GoesOn(outbox)
    /\ UNCHANGED <<last, outbox, reached, sent, abandoned, hidden, worker, request, supported, faults>>

Accepted ==
    /\ flush.pc = "sends"
    /\ reached' = reached \cup Op
    /\ Goes("dequeues")
    /\ UNCHANGED <<last, outbox, sent, abandoned, hidden, worker, request, sync, supported, faults>>

\* Fault: a failed operation is skipped.
CaughtSkips ==
    IF flush.lastChance THEN Goes("gives up") /\ UNCHANGED sync ELSE GoesOn(flush.todo \ Op)

(* The catch: without a last chance the rest waits for another flush. *)
Caught ==
    IF flush.lastChance THEN Goes("gives up") /\ UNCHANGED sync ELSE Settled(FALSE)

(* The upstream is out of reach or refuses, or its answer is lost. *)
SendFails ==
    /\ flush.pc = "sends"
    /\ Caught
    /\ reached' \in {reached, reached \cup Op}
    /\ UNCHANGED <<last, outbox, sent, abandoned, hidden, worker, request, supported, faults>>

Dequeues ==
    /\ flush.pc = "dequeues"
    /\ outbox' = outbox \ Op
    /\ Goes("notes")
    /\ UNCHANGED <<last, reached, sent, abandoned, hidden, worker, request, sync, supported, faults>>

Notes ==
    /\ flush.pc = "notes"
    /\ sent' = sent \cup Op
    /\ GoesOn(flush.todo \ Op)
    /\ UNCHANGED <<last, outbox, reached, abandoned, hidden, worker, request, supported, faults>>

(* A transaction of the two fails: the catch takes it for a failed send. *)
StepFails ==
    /\ flush.pc \in {"dequeues", "notes"}
    /\ Fault
    /\ Caught
    /\ UNCHANGED <<last, outbox, reached, sent, abandoned, hidden, worker, request, supported>>

\* Fault: the loss is not recorded.
GivesUpSilently ==
    /\ flush.pc = "gives up"
    /\ outbox' = outbox \ Op
    /\ GoesOn(flush.todo \ Op)
    /\ UNCHANGED <<last, reached, sent, abandoned, hidden, worker, request, supported, faults>>

GivesUp ==
    /\ flush.pc = "gives up"
    /\ outbox' = outbox \ Op
    /\ Goes("confesses")
    /\ UNCHANGED <<last, reached, sent, abandoned, hidden, worker, request, sync, supported, faults>>

Confesses ==
    /\ flush.pc = "confesses"
    /\ abandoned' = abandoned \cup Op
    /\ GoesOn(flush.todo \ Op)
    /\ UNCHANGED <<last, outbox, reached, sent, hidden, worker, request, supported, faults>>

Unconfessed == IF flush.pc = "confesses" THEN hidden \cup Op ELSE hidden

(* Nothing catches what fails in the catch. *)
CatchFails ==
    /\ flush.pc \in {"gives up", "confesses"}
    /\ Fault
    /\ hidden' = Unconfessed
    /\ Settled(FALSE)
    /\ UNCHANGED <<last, outbox, reached, sent, abandoned, worker, request, supported>>

-----------------------------------------------------------------------------
(* Module state dies with the worker, and the event it was handling fails. *)
Dies ==
    /\ worker' = "dead"
    /\ request' = [r \in Requests |-> "idle"]
    /\ hidden' = Unconfessed
    /\ Settled(FALSE)
    /\ UNCHANGED <<last, outbox, reached, sent, abandoned, supported>>

Busy == flush.pc # "idle" \/ \E r \in Requests : request[r] # "idle"

IdleKill ==
    /\ worker = "up"
    /\ ~Busy
    /\ Dies
    /\ UNCHANGED faults

Kill ==
    /\ worker # "dead"
    /\ Fault
    /\ Dies

-----------------------------------------------------------------------------
OutboxNext ==
    \/ \E r \in Requests : Posts(r) \/ Enqueues(r) \/ Registers(r)
    \/ SyncFires
    \/ Wakes
    \/ Boots
    \/ Reads
    \/ Accepted
    \/ SendFails
    \/ Dequeues
    \/ Notes
    \/ StepFails
    \/ GivesUp
    \/ Confesses
    \/ CatchFails
    \/ IdleKill
    \/ Kill

OutboxSpec == OutboxInit /\ [][OutboxNext]_outboxVars

(* The worker's steps; a worker that is idle is killed and one that is     *)
(* dead is asked for again; an upstream that is asked again and again      *)
(* accepts.  Nothing is assumed of Background Sync.                        *)
OutboxFairness ==
    /\ \A r \in Requests : WF_outboxVars(Enqueues(r)) /\ WF_outboxVars(Registers(r))
    /\ WF_outboxVars(Wakes)
    /\ WF_outboxVars(Boots)
    /\ WF_outboxVars(Reads)
    /\ SF_outboxVars(Accepted)
    /\ WF_outboxVars(Dequeues)
    /\ WF_outboxVars(Notes)
    /\ WF_outboxVars(GivesUp)
    /\ WF_outboxVars(Confesses)
    /\ SF_outboxVars(IdleKill)

OutboxFairSpec == OutboxSpec /\ OutboxFairness

-----------------------------------------------------------------------------
(* Properties.                                                             *)

(* An operation that was queued is pending, has reached the upstream, or   *)
(* its loss is in the log ("record the loss rather than hide it",          *)
(* service-worker.js:341), unless the worker died, or the append failed,   *)
(* between the last chance's dequeue and that note.                        *)
NothingLost ==
    \A op \in 1..last :
        \/ op \in outbox \cup reached \cup abandoned \cup hidden
        \/ flush.pc = "confesses" /\ op \in Op

(* Operations reach the upstream in the order they were queued: while one  *)
(* that never got there is pending, none after it is sent, whoever started *)
(* the flush and however earlier ones ended.                               *)
SentInOrder ==
    \A op \in reached : \A earlier \in outbox : earlier < op => earlier \in reached

(* Whatever is queued leaves the outbox, even without Background Sync:     *)
(* every boot tries again, and no failure of one instance stops the next.  *)
OutboxDrains == \A op \in 1..MaxOps : (op \in outbox) ~> (op \notin outbox)

=============================================================================
