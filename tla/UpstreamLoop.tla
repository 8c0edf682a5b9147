---------------------------- MODULE UpstreamLoop ----------------------------
(***************************************************************************)
(* The upstream leg: upstream.js ensureUpstream and the lock, known check  *)
(* and commit order of receiveBlob, over an upstream that resumes after    *)
(* the cursor it is sent (SSE and both WebSockets; WebTransport sends no   *)
(* cursor).  Several worker instances may run the loop at once: one being  *)
(* replaced lives on beside its successor.  They share the log, the cursor *)
(* record, the payloads and the payload locks.                             *)
(*                                                                         *)
(* An item is its position in the upstream's order, and its frame's id.    *)
(* The stores' own errors and those of the network are one action, Fails.  *)
(***************************************************************************)
EXTENDS Integers

CONSTANTS
    Workers,    \* worker instances
    MaxItem,    \* bound: items the upstream has to send
    Blobs,      \* those that announce a payload by reference
    Unnamed,    \* those whose frame has no id
    MaxFaults   \* bound: kills, errors and early ends of a connection

ASSUME LoopAssumption ==
    /\ MaxItem \in Nat
    /\ Blobs \subseteq 1..MaxItem
    /\ Unnamed \subseteq 1..MaxItem
    /\ MaxFaults \in Nat

VARIABLES
    phase,      \* where each worker's loop stands
    at,         \* the last item its connection has brought
    pending,    \* its pendingCursor, 0 for null
    fresh,      \* lastFlush is still 0: the connection has written no cursor
    cursor,     \* the __upstream_cursor record, 0 for none
    recorded,   \* payloads whose record resolves to an object at rest
    logged,     \* items the log has got
    passed,     \* history: payloads a loop passed by without an event
    broken,     \* history: payloads an attempt at which failed or was killed
    faults

loopVars == <<phase, at, pending, fresh, cursor, recorded, logged, passed, broken, faults>>

Items == 1..MaxItem

\* "doomed" and "over": the append inside the catch has thrown as well; the
\* loop is left through `finally` and state.running stays true.
Phases == {"dead", "read", "open", "next", "append", "store", "announce", "record",
           "lost", "final", "doomed", "wait", "over"}

LoopTypeOK ==
    /\ phase \in [Workers -> Phases]
    /\ at \in [Workers -> 0..MaxItem]
    /\ pending \in [Workers -> (Items \cup {0}) \ Unnamed]
    /\ fresh \in [Workers -> BOOLEAN]
    /\ cursor \in (Items \cup {0}) \ Unnamed
    /\ recorded \subseteq Blobs
    /\ logged \subseteq Items
    /\ passed \subseteq Blobs
    /\ broken \subseteq Blobs
    /\ faults \in 0..MaxFaults

LoopInit ==
    /\ phase = [w \in Workers |-> "dead"]
    /\ at = [w \in Workers |-> 0]
    /\ pending = [w \in Workers |-> 0]
    /\ fresh = [w \in Workers |-> TRUE]
    /\ cursor = 0
    /\ recorded = {}
    /\ logged = {}
    /\ passed = {}
    /\ broken = {}
    /\ faults = 0

GoTo(w, to) == phase' = [phase EXCEPT ![w] = to]

Fault == faults < MaxFaults /\ faults' = faults + 1

\* The worker holds the lock payload:<i>.
Stores(w, i) == phase[w] \in {"store", "announce"} /\ at[w] = i

Breaks(w) == broken' = broken \cup {i \in Blobs : Stores(w, i)}

-----------------------------------------------------------------------------
(* ensureUpstream in a new instance: state.running was false. *)
Boots(w) ==
    /\ phase[w] = "dead"
    /\ GoTo(w, "read")
    /\ UNCHANGED <<at, pending, fresh, cursor, recorded, logged, passed, broken, faults>>

\* Fault: the next connection goes on from where the last one broke.
ReadsOwnPosition(w) ==
    /\ phase[w] = "read"
    /\ GoTo(w, "open")
    /\ fresh' = [fresh EXCEPT ![w] = TRUE]
    /\ UNCHANGED <<at, pending, cursor, recorded, logged, passed, broken, faults>>

ReadsCursor(w) ==
    /\ phase[w] = "read"
    /\ GoTo(w, "open")
    /\ at' = [at EXCEPT ![w] = cursor]
    /\ fresh' = [fresh EXCEPT ![w] = TRUE]
    /\ UNCHANGED <<pending, cursor, recorded, logged, passed, broken, faults>>

(* openUpstream returns and "connected" is logged - over SSE and the plain *)
(* socket before anything was sent to the upstream.                        *)
Connects(w) ==
    /\ phase[w] = "open"
    /\ GoTo(w, "next")
    /\ UNCHANGED <<at, pending, fresh, cursor, recorded, logged, passed, broken, faults>>

Brings(w, i) ==
    /\ phase[w] = "next"
    /\ i = at[w] + 1
    /\ at' = [at EXCEPT ![w] = i]
    /\ UNCHANGED <<pending, fresh, cursor, recorded, logged, broken, faults>>

EventArrives(w) ==
    \E i \in Items \ Blobs :
        /\ Brings(w, i)
        /\ GoTo(w, "append")
        /\ UNCHANGED passed

(* receiveBlob returns without an event: the lock is taken, or the payload *)
(* is known and resolves.                                                  *)
BlobPassedBy(w) ==
    \E i \in Blobs :
        /\ Brings(w, i)
        /\ i \in recorded \/ \E v \in Workers : Stores(v, i)
        /\ GoTo(w, "record")
        /\ passed' = passed \cup {i}

BlobArrives(w) ==
    \E i \in Blobs \ recorded :
        /\ Brings(w, i)
        /\ \A v \in Workers : ~Stores(v, i)
        /\ GoTo(w, "store")
        /\ UNCHANGED passed

(* The bytes land, then putMeta; the event commits second. *)
Lands(w) ==
    /\ phase[w] = "store"
    /\ GoTo(w, "announce")
    /\ recorded' = recorded \cup {at[w]}
    /\ UNCHANGED <<at, pending, fresh, cursor, logged, passed, broken, faults>>

Logs(w) ==
    /\ phase[w] \in {"append", "announce"}
    /\ GoTo(w, "record")
    /\ logged' = logged \cup {at[w]}
    /\ UNCHANGED <<at, pending, fresh, cursor, recorded, passed, broken, faults>>

(* flushCursor after a frame: due at once on a connection that has written *)
(* none, and then once per CURSOR_FLUSH_MS.                                *)
Flushes(w) ==
    /\ phase[w] = "record"
    /\ at[w] \notin Unnamed
    /\ GoTo(w, "next")
    /\ cursor' = at[w]
    /\ pending' = [pending EXCEPT ![w] = 0]
    /\ fresh' = [fresh EXCEPT ![w] = FALSE]
    /\ UNCHANGED <<at, recorded, logged, passed, broken, faults>>

Postpones(w) ==
    /\ phase[w] = "record"
    /\ ~fresh[w] \/ at[w] \in Unnamed
    /\ GoTo(w, "next")
    /\ pending' = [pending EXCEPT ![w] = IF at[w] \in Unnamed THEN @ ELSE at[w]]
    /\ UNCHANGED <<at, fresh, cursor, recorded, logged, passed, broken, faults>>

-----------------------------------------------------------------------------
(* The frames end: for good at the last item, or early. *)
Ends(w) ==
    /\ phase[w] = "next"
    /\ IF at[w] = MaxItem THEN UNCHANGED faults ELSE Fault
    /\ GoTo(w, "final")
    /\ UNCHANGED <<at, pending, fresh, cursor, recorded, logged, passed, broken>>

\* Fault: the id is noted when the frame arrives, not when it was handled.
FailsForward(w) ==
    /\ phase[w] \in {"read", "open", "next", "append", "store", "announce", "record"}
    /\ Fault
    /\ GoTo(w, "lost")
    /\ pending' = [pending EXCEPT ![w] = IF at[w] \in Unnamed THEN @ ELSE at[w]]
    /\ Breaks(w)
    /\ UNCHANGED <<at, fresh, cursor, recorded, logged, passed>>

(* Any await of the try block throws.  A cursor that could not be written  *)
(* stays pending.                                                          *)
Fails(w) ==
    /\ phase[w] \in {"read", "open", "next", "append", "store", "announce", "record"}
    /\ Fault
    /\ GoTo(w, "lost")
    /\ pending' = [pending EXCEPT ![w] =
          IF phase[w] = "record" /\ at[w] \notin Unnamed THEN at[w] ELSE @]
    /\ Breaks(w)
    /\ UNCHANGED <<at, fresh, cursor, recorded, logged, passed>>

(* The catch block appends "lost", and that append may throw too. *)
ReportsLoss(w) ==
    /\ phase[w] = "lost"
    /\ \/ GoTo(w, "final") /\ UNCHANGED faults
       \/ GoTo(w, "doomed") /\ Fault
    /\ UNCHANGED <<at, pending, fresh, cursor, recorded, logged, passed, broken>>

(* finally: flushCursor(true), whose own failure is swallowed.  The next   *)
(* turn of the loop starts with pendingCursor null.                        *)
FinalFlush(w) ==
    /\ phase[w] \in {"final", "doomed"}
    /\ GoTo(w, IF phase[w] = "final" THEN "wait" ELSE "over")
    /\ pending' = [pending EXCEPT ![w] = 0]
    /\ \/ cursor' = (IF pending[w] = 0 THEN cursor ELSE pending[w]) /\ UNCHANGED faults
       \/ UNCHANGED cursor /\ Fault
    /\ UNCHANGED <<at, fresh, recorded, logged, passed, broken>>

BacksOff(w) ==
    /\ phase[w] = "wait"
    /\ GoTo(w, "read")
    /\ UNCHANGED <<at, pending, fresh, cursor, recorded, logged, passed, broken, faults>>

\* Fault: `running` outlives the instance.
KilledButRunning(w) ==
    /\ phase[w] # "dead"
    /\ IF phase[w] = "over" THEN UNCHANGED faults ELSE Fault
    /\ GoTo(w, "over")
    /\ pending' = [pending EXCEPT ![w] = 0]
    /\ Breaks(w)
    /\ UNCHANGED <<at, fresh, cursor, recorded, logged, passed>>

(* The browser ends an instance: at any moment, or an idle one in time. *)
Killed(w) ==
    /\ phase[w] # "dead"
    /\ IF phase[w] = "over" THEN UNCHANGED faults ELSE Fault
    /\ GoTo(w, "dead")
    /\ pending' = [pending EXCEPT ![w] = 0]
    /\ Breaks(w)
    /\ UNCHANGED <<at, fresh, cursor, recorded, logged, passed>>

(* A retention pass removes a record and object no event names. *)
Pruned ==
    \E i \in recorded \ logged :
        /\ recorded' = recorded \ {i}
        /\ UNCHANGED <<phase, at, pending, fresh, cursor, logged, passed, broken, faults>>

-----------------------------------------------------------------------------
Receives(w) ==
    EventArrives(w) \/ BlobPassedBy(w) \/ BlobArrives(w) \/ Lands(w) \/ Logs(w) \/ Flushes(w) \/ Postpones(w)

Turns(w) ==
    ReadsCursor(w) \/ Connects(w) \/ ReportsLoss(w) \/ FinalFlush(w) \/ BacksOff(w)

LoopNext ==
    \/ \E w \in Workers :
        \/ Boots(w)
        \/ Receives(w)
        \/ Turns(w)
        \/ Ends(w)
        \/ Fails(w)
        \/ Killed(w)
    \/ Pruned

LoopSpec == LoopInit /\ [][LoopNext]_loopVars

(* A running loop goes on, an idle instance is killed in time, and when no *)
(* instance is left a request boots one.                                   *)
LoopFairness ==
    /\ \A w \in Workers : WF_loopVars(Receives(w) \/ Turns(w))
    /\ \A w \in Workers : WF_loopVars(phase[w] = "over" /\ Killed(w))
    /\ WF_loopVars((\A w \in Workers : phase[w] = "dead") /\ \E w \in Workers : Boots(w))

LoopFairSpec == LoopSpec /\ LoopFairness

-----------------------------------------------------------------------------
(* "A stale cursor costs duplicates, never data" (upstream.js:53-55),      *)
(* with the exceptions the code has: whatever kills, errors, late flushes  *)
(* and second loops interleave, an item at or below the recorded cursor is *)
(* in the log, or is a payload that some worker is storing now or that an  *)
(* attempt broke off at - skipped under a busy lock, or recorded but never *)
(* announced.                                                              *)
CursorTruthful ==
    \A i \in 1..cursor :
        \/ i \in logged
        \/ i \in Blobs /\ (i \in broken \/ \E w \in Workers : Stores(w, i))

(* The loops together deliver in the upstream's order and resume from      *)
(* where everything before was dealt with, although each keeps a position  *)
(* and a pending cursor of its own and the record may move back.           *)
R == INSTANCE Relay WITH
        MaxItem <- MaxItem, logged <- logged, passed <- passed, cursor <- cursor
ImplementsRelay == R!RelaySpec

(* Every item gets into the log, also after the loop was left for good by  *)
(* a second error, except payloads an attempt broke off at.                *)
DeliversAll == \A i \in Items : <>(i \in logged \/ i \in broken)
=============================================================================
