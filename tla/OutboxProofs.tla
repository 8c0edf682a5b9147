---------------------------- MODULE OutboxProofs ----------------------------
(***************************************************************************)
(* Proofs about Outbox: for any number of POSTs, operations, retries and   *)
(* faults, no queued operation vanishes unrecorded and none overtakes one  *)
(* that was queued before it.                                              *)
(***************************************************************************)
EXTENDS Outbox, TLAPS

(***************************************************************************)
(* SentInOrder needs to know what the flush has left of its snapshot: all  *)
(* that is pending up to its greatest id, less what was settled.           *)
(* NothingLost needs to know that an operation is dequeued only once it    *)
(* has reached the upstream or is about to be recorded.                    *)
(***************************************************************************)

\* A pending operation older than one of the snapshot is in the snapshot.
SnapshotIsFront == \A i \in outbox, j \in flush.todo : i < j => i \in flush.todo

SentReached == flush.pc \in {"dequeues", "notes"} => Op \subseteq reached

OpDequeued == flush.pc \in {"notes", "confesses"} => Op \cap outbox = {}

\* A registration that is waiting has an attempt left.
TriesLeft == sync.pc = "pending" => sync.tries < MaxTries

OutboxInv ==
    /\ OutboxTypeOK
    /\ NothingLost
    /\ SentInOrder
    /\ SnapshotIsFront
    /\ SentReached
    /\ OpDequeued
    /\ TriesLeft

-----------------------------------------------------------------------------
(* What the operators on the flush and the registration do.                *)

(* Starting or joining a flush leaves its snapshot alone. *)
LEMMA FlushesFacts ==
    ASSUME OutboxTypeOK, NEW lc \in BOOLEAN, NEW ev \in BOOLEAN, Flushes(lc, ev)
    PROVE  /\ flush' \in Flushings
           /\ flush'.todo = flush.todo
           /\ flush'.pc = IF flush.pc = "idle" THEN "reads" ELSE flush.pc
           /\ flush'.event => flush.event \/ ev
<1>1. flush \in Flushings /\ (flush.pc = "idle" => flush.todo = {})
  BY DEF OutboxTypeOK
<1>2. CASE flush.pc = "idle"
  <2>1. flush' = [pc |-> "reads", todo |-> {}, lastChance |-> lc, event |-> ev]
    BY <1>2 DEF Flushes
  <2> QED
    BY <1>1, <1>2, <2>1 DEF Flushings, FlushPhases
<1>3. CASE flush.pc # "idle"
  <2>1. flush' = [flush EXCEPT !.event = flush.event \/ ev]
    BY <1>3 DEF Flushes
  <2> QED
    BY <1>1, <1>3, <2>1 DEF Flushings, FlushPhases
<1> QED
  BY <1>2, <1>3

(* A settled flush leaves no snapshot, and its event an attempt or none. *)
LEMMA SettledFacts ==
    ASSUME OutboxTypeOK, TriesLeft, NEW ok \in BOOLEAN, Settled(ok)
    PROVE  /\ flush' \in Flushings
           /\ flush'.pc = "idle" /\ flush'.todo = {} /\ ~flush'.event
           /\ sync' \in Syncs
           /\ TriesLeft'
<1>1. /\ sync \in Syncs
      /\ MaxTries \in Nat \ {0}
      /\ flush' = NoFlush
      /\ sync' = IF flush.event THEN Settles(ok) ELSE sync
  BY OutboxAssumption DEF OutboxTypeOK, Settled
<1>2. Settles(ok) \in Syncs /\ (Settles(ok).pc = "pending" => Settles(ok).tries < MaxTries)
  <2>1. CASE sync.pc = "again"
    BY <1>1, <2>1 DEF Settles, Syncs
  <2>2. CASE sync.pc # "again" /\ (ok \/ sync.tries = MaxTries)
    BY <1>1, <2>2 DEF Settles, Syncs, NoSync
  <2>3. CASE sync.pc # "again" /\ ~(ok \/ sync.tries = MaxTries)
    BY <1>1, <2>3 DEF Settles, Syncs
  <2> QED
    BY <2>1, <2>2, <2>3
<1>3. flush' \in Flushings /\ flush'.pc = "idle" /\ flush'.todo = {} /\ ~flush'.event
  BY <1>1 DEF NoFlush, Flushings, FlushPhases
<1> QED
  BY <1>1, <1>2, <1>3 DEF TriesLeft

(* Within a flush only the position moves. *)
LEMMA GoesFacts ==
    ASSUME OutboxTypeOK, NEW p \in FlushPhases, Goes(p)
    PROVE  /\ flush' \in Flushings
           /\ flush'.pc = p /\ flush'.todo = flush.todo /\ flush'.event = flush.event
  BY DEF OutboxTypeOK, Goes, Flushings

(* The next operation is sent, or the flush is over. *)
LEMMA GoesOnFacts ==
    ASSUME OutboxTypeOK, TriesLeft, NEW todo \in SUBSET Ops, GoesOn(todo)
    PROVE  /\ flush' \in Flushings
           /\ flush'.todo = todo
           /\ flush'.pc = IF todo = {} THEN "idle" ELSE "sends"
           /\ flush'.event => flush.event /\ sync' = sync
           /\ sync' \in Syncs
           /\ TriesLeft'
<1>1. CASE todo = {}
  BY <1>1, SettledFacts DEF GoesOn
<1>2. CASE todo # {}
  <2>1. flush \in Flushings /\ sync \in Syncs
    BY DEF OutboxTypeOK
  <2>2. flush' = [flush EXCEPT !.pc = "sends", !.todo = todo] /\ sync' = sync
    BY <1>2 DEF GoesOn
  <2> QED
    BY <1>2, <2>1, <2>2 DEF Flushings, FlushPhases, TriesLeft
<1> QED
  BY <1>1, <1>2

(* A failure is kept for the catch of the last chance, or ends the flush. *)
LEMMA CaughtFacts ==
    ASSUME OutboxTypeOK, TriesLeft, Caught
    PROVE  /\ flush' \in Flushings
           /\ \/ flush'.pc = "gives up" /\ flush'.todo = flush.todo
              \/ flush'.pc = "idle" /\ flush'.todo = {}
           /\ flush'.event => flush.event /\ sync' = sync
           /\ sync' \in Syncs
           /\ TriesLeft'
<1>1. CASE flush.lastChance
  <2>1. Goes("gives up") /\ sync' = sync
    BY <1>1 DEF Caught
  <2> QED
    BY <2>1, GoesFacts DEF FlushPhases, OutboxTypeOK, TriesLeft
<1>2. CASE ~flush.lastChance
  BY <1>2, SettledFacts DEF Caught
<1> QED
  BY <1>1, <1>2

(* The bound on faults is kept. *)
LEMMA FaultFacts ==
    ASSUME OutboxTypeOK, Fault
    PROVE  faults' \in 0..MaxFaults
  BY OutboxAssumption DEF OutboxTypeOK, Fault

-----------------------------------------------------------------------------
(* The invariant.                                                          *)

LEMMA OutboxInitInv == OutboxInit => OutboxInv
<1> SUFFICES ASSUME OutboxInit PROVE OutboxInv
  OBVIOUS
<1>1. OutboxTypeOK
  BY OutboxAssumption DEF OutboxInit, OutboxTypeOK, NoFlush, NoSync, Flushings, FlushPhases, Syncs
<1>2. NothingLost /\ SentInOrder /\ SnapshotIsFront
  BY DEF OutboxInit, NothingLost, SentInOrder, SnapshotIsFront
<1>3. SentReached /\ OpDequeued /\ TriesLeft
  BY DEF OutboxInit, SentReached, OpDequeued, TriesLeft, NoFlush, NoSync
<1> QED
  BY <1>1, <1>2, <1>3 DEF OutboxInv

(* Steps that touch neither an operation nor the snapshot: requests on     *)
(* their way, boots, sync events, and a flush that starts or joins.        *)
LEMMA QuietKeepsInv ==
    ASSUME OutboxInv, OutboxTypeOK', TriesLeft',
           UNCHANGED <<last, outbox, reached, sent, abandoned, hidden>>,
           flush'.todo = flush.todo,
           flush'.pc = flush.pc \/ (flush.pc = "idle" /\ flush'.pc = "reads")
    PROVE  OutboxInv'
<1>1. flush'.pc \in {"dequeues", "notes", "confesses"} => flush'.pc = flush.pc
  OBVIOUS
<1>2. flush.pc = "confesses" => flush'.pc = flush.pc
  OBVIOUS
<1>3. Op' = Op
  BY DEF Op
<1>4. NothingLost' /\ SentInOrder' /\ SnapshotIsFront'
  BY <1>2, <1>3 DEF OutboxInv, NothingLost, SentInOrder, SnapshotIsFront
<1>5. SentReached' /\ OpDequeued'
  BY <1>1, <1>3 DEF OutboxInv, SentReached, OpDequeued
<1> QED
  BY <1>4, <1>5 DEF OutboxInv

(* Steps that leave the flush without a snapshot, or idle: what the last   *)
(* chance had dequeued and not recorded is hidden.                         *)
LEMMA SettlingKeepsInv ==
    ASSUME OutboxInv, OutboxTypeOK', TriesLeft',
           UNCHANGED <<last, outbox, reached, sent, abandoned>>,
           hidden' = Unconfessed,
           flush'.todo = {}, flush'.pc = "idle"
    PROVE  OutboxInv'
<1>1. NothingLost'
  <2> SUFFICES ASSUME NEW op \in 1..last
               PROVE  op \in outbox \cup reached \cup abandoned \cup hidden'
    BY DEF NothingLost
  <2> QED
    BY DEF OutboxInv, NothingLost, Unconfessed
<1>2. SentInOrder' /\ SnapshotIsFront' /\ SentReached' /\ OpDequeued'
  BY DEF OutboxInv, SentInOrder, SnapshotIsFront, SentReached, OpDequeued
<1> QED
  BY <1>1, <1>2 DEF OutboxInv

(* What is left of the snapshot once its first operation is settled.       *)
LEMMA RestIsFront ==
    ASSUME OutboxInv, flush.pc \in {"notes", "confesses"}
    PROVE  /\ flush.todo \ Op \in SUBSET Ops
           /\ flush.todo \ Op \subseteq 1..last
           /\ \A i \in outbox, j \in flush.todo \ Op : i < j => i \in flush.todo \ Op
<1>1. flush.todo \in SUBSET Ops /\ flush.todo \subseteq 1..last
  BY DEF OutboxInv, OutboxTypeOK, Flushings
<1> QED
  BY <1>1 DEF OutboxInv, SnapshotIsFront, OpDequeued

(* The operation the flush is at is the oldest pending one that may not    *)
(* have reached the upstream.                                              *)
LEMMA FirstIsOldest ==
    ASSUME OutboxInv
    PROVE  \A op \in Op, earlier \in outbox : ~(earlier < op)
<1>1. flush.todo \in SUBSET Nat
  BY DEF OutboxInv, OutboxTypeOK, Flushings, Ops
<1> QED
  BY <1>1 DEF OutboxInv, SnapshotIsFront, Op

LEMMA OutboxNextInv == OutboxInv /\ [OutboxNext]_outboxVars => OutboxInv'
<1> SUFFICES ASSUME OutboxInv, [OutboxNext]_outboxVars PROVE OutboxInv'
  OBVIOUS
<1>a. OutboxTypeOK /\ TriesLeft /\ MaxTries \in Nat \ {0} /\ MaxFaults \in Nat
  BY OutboxAssumption DEF OutboxInv
<1>b. last \in Nat /\ flush \in Flushings /\ sync \in Syncs /\ flush.todo \in SUBSET Ops
  BY <1>a DEF OutboxTypeOK, Flushings
<1>1. ASSUME NEW r \in Requests, Posts(r) PROVE OutboxInv'
  <2>1. OutboxTypeOK' /\ TriesLeft'
    BY <1>a, <1>1 DEF Posts, OutboxTypeOK, TriesLeft
  <2> QED
    BY <1>1, <2>1, QuietKeepsInv DEF Posts
<1>2. ASSUME NEW r \in Requests, Enqueues(r) PROVE OutboxInv'
  <2>1. /\ last' = last + 1 /\ outbox' = outbox \cup {last + 1}
        /\ UNCHANGED <<reached, sent, abandoned, hidden, worker, flush, sync, supported, faults>>
        /\ request' = [request EXCEPT ![r] = "queued"]
    BY <1>2 DEF Enqueues
  <2>2. OutboxTypeOK'
    <3>1. 1..last \subseteq 1..(last + 1) /\ last + 1 \in 1..(last + 1) /\ last + 1 \in Nat
      BY <1>b
    <3> QED
      BY <1>a, <2>1, <3>1 DEF OutboxTypeOK
  <2>3. Op' = Op
    BY <2>1 DEF Op
  <2>4. NothingLost'
    BY <1>b, <2>1, <2>3 DEF OutboxInv, NothingLost
  <2>5. SentInOrder' /\ SnapshotIsFront'
    BY <1>a, <1>b, <2>1 DEF OutboxInv, OutboxTypeOK, SentInOrder, SnapshotIsFront
  <2>6. SentReached' /\ TriesLeft'
    BY <2>1, <2>3 DEF OutboxInv, SentReached, TriesLeft
  <2>7. OpDequeued'
    <3>1. last + 1 \notin Op
      BY <1>a, <1>b DEF Op, OutboxTypeOK
    <3> QED
      BY <2>1, <2>3, <3>1 DEF OutboxInv, OpDequeued
  <2> QED
    BY <2>2, <2>4, <2>5, <2>6, <2>7 DEF OutboxInv
<1>3. ASSUME NEW r \in Requests, Registers(r) PROVE OutboxInv'
  <2>1. /\ sync' \in Syncs /\ TriesLeft'
        /\ flush.event => sync'.pc \in {"firing", "again"}
    <3>1. CASE ~supported
      BY <1>a, <1>b, <1>3, <3>1 DEF Registers, OutboxTypeOK, TriesLeft
    <3>2. CASE supported /\ sync.pc \in {"firing", "again"}
      BY <1>a, <1>b, <1>3, <3>2 DEF Registers, Syncs, TriesLeft
    <3>3. CASE supported /\ sync.pc \notin {"firing", "again"}
      BY <1>a, <1>b, <1>3, <3>3 DEF Registers, Syncs, TriesLeft, OutboxTypeOK
    <3> QED
      BY <3>1, <3>2, <3>3
  <2>2. OutboxTypeOK'
    BY <1>a, <1>3, <2>1 DEF Registers, OutboxTypeOK
  <2> QED
    BY <1>3, <2>1, <2>2, QuietKeepsInv DEF Registers
<1>4. CASE SyncFires
  <2>1. /\ sync' = [pc |-> "firing", tries |-> sync.tries + 1]
        /\ worker' \in {worker, "booting"}
    BY <1>4 DEF SyncFires
  <2>2. sync' \in Syncs /\ TriesLeft'
    BY <1>a, <1>b, <1>4, <2>1 DEF SyncFires, Syncs, TriesLeft
  <2>3. PICK lc \in BOOLEAN : Flushes(lc, TRUE)
    BY <1>4 DEF SyncFires
  <2>4. /\ flush' \in Flushings /\ flush'.todo = flush.todo
        /\ flush'.pc = IF flush.pc = "idle" THEN "reads" ELSE flush.pc
    BY <1>a, <2>3, FlushesFacts
  <2>5. OutboxTypeOK'
    BY <1>a, <1>4, <2>1, <2>2, <2>4 DEF SyncFires, OutboxTypeOK
  <2> QED
    BY <1>4, <2>2, <2>4, <2>5, QuietKeepsInv DEF SyncFires
<1>5. CASE Wakes
  <2>1. OutboxTypeOK' /\ TriesLeft'
    BY <1>a, <1>5 DEF Wakes, OutboxTypeOK, TriesLeft
  <2> QED
    BY <1>5, <2>1, QuietKeepsInv DEF Wakes
<1>6. CASE Boots
  <2>1. /\ flush' \in Flushings /\ flush'.todo = flush.todo
        /\ flush'.pc = flush.pc \/ (flush.pc = "idle" /\ flush'.pc = "reads")
        /\ flush'.event => flush.event
    <3>1. CASE outbox # {}
      <4>1. Flushes(FALSE, FALSE)
        BY <1>6, <3>1 DEF Boots
      <4> QED
        BY <1>a, <4>1, FlushesFacts
    <3>2. CASE outbox = {}
      BY <1>b, <1>6, <3>2 DEF Boots
    <3> QED
      BY <3>1, <3>2
  <2>2. OutboxTypeOK' /\ TriesLeft'
    BY <1>a, <1>6, <2>1 DEF Boots, OutboxTypeOK, TriesLeft
  <2> QED
    BY <1>6, <2>1, <2>2, QuietKeepsInv DEF Boots
<1>7. CASE Reads
  <2>1. outbox \in SUBSET Ops /\ flush.todo = {} /\ flush.pc = "reads"
    BY <1>a, <1>7 DEF Reads, OutboxTypeOK, Ops
  <2>2. /\ flush' \in Flushings /\ flush'.todo = outbox
        /\ flush'.pc = IF outbox = {} THEN "idle" ELSE "sends"
        /\ flush'.event => flush.event /\ sync' = sync
        /\ sync' \in Syncs /\ TriesLeft'
    BY <1>a, <1>7, <2>1, GoesOnFacts DEF Reads
  <2>3. OutboxTypeOK'
    BY <1>a, <1>7, <2>2 DEF Reads, OutboxTypeOK
  <2>4. NothingLost'
    BY <1>7, <2>1 DEF Reads, OutboxInv, NothingLost
  <2>5. SentInOrder' /\ SnapshotIsFront' /\ SentReached' /\ OpDequeued'
    BY <1>7, <2>2 DEF Reads, OutboxInv, SentInOrder, SnapshotIsFront, SentReached, OpDequeued
  <2> QED
    BY <2>2, <2>3, <2>4, <2>5 DEF OutboxInv
<1>8. CASE Accepted
  <2>1. /\ flush.pc = "sends" /\ reached' = reached \cup Op
        /\ UNCHANGED <<last, outbox, sent, abandoned, hidden, worker, request, sync, supported, faults>>
        /\ flush' \in Flushings /\ flush'.pc = "dequeues"
        /\ flush'.todo = flush.todo /\ flush'.event = flush.event
    BY <1>a, <1>8, GoesFacts DEF Accepted, FlushPhases
  <2>2. Op' = Op /\ Op \subseteq flush.todo
    BY <2>1 DEF Op
  <2>3. OutboxTypeOK'
    BY <1>a, <2>1, <2>2 DEF OutboxTypeOK
  <2>4. NothingLost' /\ SentReached' /\ OpDequeued' /\ SnapshotIsFront' /\ TriesLeft'
    BY <2>1, <2>2 DEF OutboxInv, NothingLost, SentReached, OpDequeued, SnapshotIsFront, TriesLeft
  <2>5. SentInOrder'
    BY <1>a, <1>b, <2>1, FirstIsOldest DEF SentInOrder, OutboxInv
  <2> QED
    BY <2>3, <2>4, <2>5 DEF OutboxInv
<1>9. CASE SendFails
  <2>1. /\ flush.pc = "sends" /\ reached' \in {reached, reached \cup Op}
        /\ UNCHANGED <<last, outbox, sent, abandoned, hidden, worker, request, supported, faults>>
        /\ flush' \in Flushings
        /\ \/ flush'.pc = "gives up" /\ flush'.todo = flush.todo
           \/ flush'.pc = "idle" /\ flush'.todo = {}
        /\ flush'.event => flush.event /\ sync' = sync
        /\ sync' \in Syncs /\ TriesLeft'
    BY <1>a, <1>9, CaughtFacts DEF SendFails
  <2>2. Op \subseteq flush.todo
    BY DEF Op
  <2>3. OutboxTypeOK'
    BY <1>a, <2>1, <2>2 DEF OutboxTypeOK
  <2>4. NothingLost' /\ SentReached' /\ OpDequeued' /\ SnapshotIsFront'
    BY <2>1 DEF OutboxInv, NothingLost, SentReached, OpDequeued, SnapshotIsFront
  <2>5. SentInOrder'
    BY <1>a, <1>b, <2>1, FirstIsOldest DEF SentInOrder, OutboxInv
  <2> QED
    BY <2>1, <2>3, <2>4, <2>5 DEF OutboxInv
<1>10. CASE Dequeues
  <2>1. /\ flush.pc = "dequeues" /\ outbox' = outbox \ Op
        /\ UNCHANGED <<last, reached, sent, abandoned, hidden, worker, request, sync, supported, faults>>
        /\ flush' \in Flushings /\ flush'.pc = "notes"
        /\ flush'.todo = flush.todo /\ flush'.event = flush.event
    BY <1>a, <1>10, GoesFacts DEF Dequeues, FlushPhases
  <2>2. Op' = Op
    BY <2>1 DEF Op
  <2>3. OutboxTypeOK'
    BY <1>a, <2>1 DEF OutboxTypeOK
  <2>4. NothingLost'
    BY <2>1, <2>2 DEF OutboxInv, NothingLost, SentReached
  <2>5. SentInOrder' /\ SentReached' /\ OpDequeued' /\ SnapshotIsFront' /\ TriesLeft'
    BY <2>1, <2>2 DEF OutboxInv, SentInOrder, SentReached, OpDequeued, SnapshotIsFront, TriesLeft
  <2> QED
    BY <2>3, <2>4, <2>5 DEF OutboxInv
<1>11. CASE Notes
  <2>1. flush.pc = "notes" /\ GoesOn(flush.todo \ Op) /\ sent' = sent \cup Op
        /\ UNCHANGED <<last, outbox, reached, abandoned, hidden, worker, request, supported, faults>>
    BY <1>11 DEF Notes
  <2>2. /\ flush' \in Flushings /\ flush'.todo = flush.todo \ Op
        /\ flush'.pc = IF flush.todo \ Op = {} THEN "idle" ELSE "sends"
        /\ flush'.event => flush.event /\ sync' = sync
        /\ sync' \in Syncs /\ TriesLeft'
    BY <1>a, <2>1, RestIsFront, GoesOnFacts
  <2>3. OutboxTypeOK'
    BY <1>a, <2>1, <2>2 DEF OutboxInv, OutboxTypeOK, SentReached
  <2>4. NothingLost' /\ SentInOrder' /\ SentReached' /\ OpDequeued'
    BY <2>1, <2>2 DEF OutboxInv, NothingLost, SentInOrder, SentReached, OpDequeued
  <2>5. SnapshotIsFront'
    BY <2>1, <2>2, RestIsFront DEF SnapshotIsFront
  <2> QED
    BY <2>2, <2>3, <2>4, <2>5 DEF OutboxInv
<1>12. CASE StepFails
  <2>1. /\ flush.pc \in {"dequeues", "notes"} /\ faults' \in 0..MaxFaults
        /\ UNCHANGED <<last, outbox, reached, sent, abandoned, hidden, worker, request, supported>>
        /\ flush' \in Flushings
        /\ \/ flush'.pc = "gives up" /\ flush'.todo = flush.todo
           \/ flush'.pc = "idle" /\ flush'.todo = {}
        /\ flush'.event => flush.event /\ sync' = sync
        /\ sync' \in Syncs /\ TriesLeft'
    <3>1. flush.pc \in {"dequeues", "notes"} /\ Fault /\ Caught
          /\ UNCHANGED <<last, outbox, reached, sent, abandoned, hidden, worker, request, supported>>
      BY <1>12 DEF StepFails
    <3> QED
      BY <1>a, <3>1, FaultFacts, CaughtFacts
  <2>2. OutboxTypeOK'
    BY <1>a, <2>1 DEF OutboxTypeOK
  <2>3. NothingLost' /\ SentInOrder' /\ SentReached' /\ OpDequeued' /\ SnapshotIsFront'
    BY <2>1 DEF OutboxInv, NothingLost, SentInOrder, SentReached, OpDequeued, SnapshotIsFront
  <2> QED
    BY <2>1, <2>2, <2>3 DEF OutboxInv
<1>13. CASE GivesUp
  <2>1. /\ flush.pc = "gives up" /\ outbox' = outbox \ Op
        /\ UNCHANGED <<last, reached, sent, abandoned, hidden, worker, request, sync, supported, faults>>
        /\ flush' \in Flushings /\ flush'.pc = "confesses"
        /\ flush'.todo = flush.todo /\ flush'.event = flush.event
    BY <1>a, <1>13, GoesFacts DEF GivesUp, FlushPhases
  <2>2. Op' = Op
    BY <2>1 DEF Op
  <2>3. OutboxTypeOK'
    BY <1>a, <2>1 DEF OutboxTypeOK
  <2>4. NothingLost'
    BY <2>1, <2>2 DEF OutboxInv, NothingLost
  <2>5. SentInOrder' /\ SentReached' /\ OpDequeued' /\ SnapshotIsFront' /\ TriesLeft'
    BY <2>1, <2>2 DEF OutboxInv, SentInOrder, SentReached, OpDequeued, SnapshotIsFront, TriesLeft
  <2> QED
    BY <2>3, <2>4, <2>5 DEF OutboxInv
<1>14. CASE Confesses
  <2>1. /\ flush.pc = "confesses" /\ GoesOn(flush.todo \ Op) /\ abandoned' = abandoned \cup Op
        /\ UNCHANGED <<last, outbox, reached, sent, hidden, worker, request, supported, faults>>
    BY <1>14 DEF Confesses
  <2>2. /\ flush' \in Flushings /\ flush'.todo = flush.todo \ Op
        /\ flush'.pc = IF flush.todo \ Op = {} THEN "idle" ELSE "sends"
        /\ flush'.event => flush.event /\ sync' = sync
        /\ sync' \in Syncs /\ TriesLeft'
    BY <1>a, <2>1, RestIsFront, GoesOnFacts
  <2>3. Op \subseteq 1..last
    BY <1>a DEF Op, OutboxTypeOK
  <2>4. OutboxTypeOK'
    BY <1>a, <2>1, <2>2, <2>3 DEF OutboxTypeOK
  <2>5. NothingLost' /\ SentInOrder' /\ SentReached' /\ OpDequeued'
    BY <2>1, <2>2 DEF OutboxInv, NothingLost, SentInOrder, SentReached, OpDequeued
  <2>6. SnapshotIsFront'
    BY <2>1, <2>2, RestIsFront DEF SnapshotIsFront
  <2> QED
    BY <2>2, <2>4, <2>5, <2>6 DEF OutboxInv
<1>15. ASSUME Settled(FALSE), hidden' = Unconfessed,
              UNCHANGED <<last, outbox, reached, sent, abandoned, supported>>,
              worker' \in {worker, "dead"},
              request' \in {request, [r \in Requests |-> "idle"]},
              faults' \in 0..MaxFaults
       PROVE  OutboxInv'
  <2>1. /\ flush' \in Flushings /\ flush'.pc = "idle" /\ flush'.todo = {} /\ ~flush'.event
        /\ sync' \in Syncs /\ TriesLeft'
    BY <1>a, <1>15, SettledFacts
  <2>2. hidden' \subseteq 1..last
    BY <1>a, <1>15 DEF Unconfessed, Op, OutboxTypeOK
  <2>3. OutboxTypeOK'
    BY <1>a, <1>15, <2>1, <2>2 DEF OutboxTypeOK
  <2> QED
    BY <1>15, <2>1, <2>3, SettlingKeepsInv
<1>16. CASE CatchFails
  BY <1>a, <1>15, <1>16, FaultFacts DEF CatchFails
<1>17. CASE IdleKill
  BY <1>a, <1>15, <1>17 DEF IdleKill, Dies, OutboxTypeOK
<1>18. CASE Kill
  BY <1>a, <1>15, <1>18, FaultFacts DEF Kill, Dies
<1>19. CASE UNCHANGED outboxVars
  BY <1>19 DEF outboxVars, OutboxInv, OutboxTypeOK, NothingLost, SentInOrder, SnapshotIsFront,
              SentReached, OpDequeued, TriesLeft, Op
<1> QED
  BY <1>1, <1>2, <1>3, <1>4, <1>5, <1>6, <1>7, <1>8, <1>9, <1>10, <1>11, <1>12, <1>13, <1>14,
     <1>16, <1>17, <1>18, <1>19 DEF OutboxNext

-----------------------------------------------------------------------------
(* The theorems.                                                           *)

THEOREM OutboxInvariant == OutboxSpec => []OutboxInv
  BY OutboxInitInv, OutboxNextInv, PTL DEF OutboxSpec

(* The outbox keeps its types; in particular what the log calls sent has   *)
(* reached the upstream.                                                   *)
THEOREM OutboxTypeCorrect == OutboxSpec => []OutboxTypeOK
<1>1. OutboxInv => OutboxTypeOK
  BY DEF OutboxInv
<1> QED
  BY <1>1, OutboxInvariant, PTL

(* No queued operation vanishes: it is pending, has reached the upstream,  *)
(* or its loss is recorded, but for a death at the last step.              *)
THEOREM OutboxLosesNothing == OutboxSpec => []NothingLost
<1>1. OutboxInv => NothingLost
  BY DEF OutboxInv
<1> QED
  BY <1>1, OutboxInvariant, PTL

(* No operation overtakes an older one that never reached the upstream.    *)
THEOREM OutboxSendsInOrder == OutboxSpec => []SentInOrder
<1>1. OutboxInv => SentInOrder
  BY DEF OutboxInv
<1> QED
  BY <1>1, OutboxInvariant, PTL
=============================================================================
