--------------------------- MODULE UpstreamProofs ---------------------------
(***************************************************************************)
(* Proofs about the upstream leg.  UpstreamLoop: the truth of the cursor   *)
(* record and the refinement of Relay, for any number of workers, items    *)
(* and faults.  FrameSink: a loop gets every frame in turn, a body its own *)
(* messages, and the queue stays bounded, for any limit and any messages.  *)
(***************************************************************************)
EXTENDS UpstreamLoop, FrameSink, WellFoundedInduction, SequenceTheorems, TLAPS

(* The loops. *)

Dealt == logged \cup passed

\* What will still be logged, was, or is one of the code's exceptions.
Kept(i) == i \in logged \/ i \in broken \/ \E w \in Workers : Stores(w, i)

\* An item under way, whose own turn is not over.
Busy(w) == phase[w] \in {"append", "store", "announce"}

\* Where a connection stands, everything before it was dealt with.
PositionDealt ==
    \A w \in Workers :
        /\ phase[w] \in {"open", "next", "record"} => \A i \in 1..at[w] : i \in Dealt
        /\ Busy(w) => \A i \in 1..(at[w] - 1) : i \in Dealt

\* A frame in hand is an item, and one that is stored a payload.
HandHolds ==
    \A w \in Workers :
        /\ phase[w] \in {"append", "record"} => at[w] \in Items
        /\ phase[w] \in {"store", "announce"} => at[w] \in Blobs

CursorsDealt ==
    /\ \A i \in 1..cursor : i \in Dealt
    /\ \A w \in Workers : \A i \in 1..pending[w] : i \in Dealt

RecordedKept == \A i \in recorded : Kept(i)

PassedKept == \A i \in passed : Kept(i)

LoopInv ==
    /\ LoopTypeOK
    /\ HandHolds
    /\ PositionDealt
    /\ CursorsDealt
    /\ RecordedKept
    /\ PassedKept

-----------------------------------------------------------------------------
(* The initial state satisfies the invariant. *)
LEMMA LoopInitInv == LoopInit => LoopInv
BY LoopAssumption DEF LoopInit, LoopInv, LoopTypeOK, Phases, Items, HandHolds, PositionDealt,
    CursorsDealt, RecordedKept, PassedKept, Busy

(* Every step keeps the invariant: nothing is dealt with twice over, so    *)
(* what a position, a pending cursor or the record claims stays dealt with *)
(* whoever takes the step.                                                 *)
LEMMA LoopStepInv == LoopInv /\ [LoopNext]_loopVars => LoopInv'
<1> SUFFICES ASSUME LoopInv, [LoopNext]_loopVars PROVE LoopInv'
  OBVIOUS
<1> USE LoopAssumption DEF LoopInv
<1>1. ASSUME NEW w \in Workers, Boots(w) PROVE LoopInv'
  BY <1>1 DEF LoopTypeOK, Phases, Items, GoTo, HandHolds, PositionDealt, CursorsDealt, RecordedKept, PassedKept,
      Busy, Kept, Dealt, Stores, Boots
<1>2. ASSUME NEW w \in Workers, EventArrives(w) PROVE LoopInv'
  BY <1>2 DEF LoopTypeOK, Phases, Items, GoTo, HandHolds, PositionDealt, CursorsDealt, RecordedKept, PassedKept,
      Busy, Kept, Dealt, Stores, EventArrives, Brings
<1>3. ASSUME NEW w \in Workers, BlobPassedBy(w) PROVE LoopInv'
  <2> PICK i \in Blobs :
        /\ Brings(w, i)
        /\ i \in recorded \/ \E v \in Workers : Stores(v, i)
        /\ GoTo(w, "record")
        /\ passed' = passed \cup {i}
    BY <1>3 DEF BlobPassedBy
  <2>1. LoopTypeOK'
    <3>1. phase' \in [Workers -> Phases]
      BY DEF LoopTypeOK, Phases, GoTo
    <3>2. at' \in [Workers -> 0..MaxItem]
      <4>1. i \in 0..MaxItem
        BY i \in Blobs
      <4>2. QED
        BY <4>1 DEF LoopTypeOK, Brings
    <3>3. passed' \subseteq Blobs
      BY DEF LoopTypeOK
    <3>4. QED
      BY <3>1, <3>2, <3>3 DEF LoopTypeOK, Brings
  <2>2. HandHolds'
    BY <1>3 DEF LoopTypeOK, Phases, Items, GoTo, HandHolds, BlobPassedBy, Brings
  <2>3. PositionDealt'
    BY <1>3 DEF LoopTypeOK, Phases, Items, GoTo, HandHolds, PositionDealt, CursorsDealt, Busy, Dealt, BlobPassedBy, Brings
  <2>4. CursorsDealt'
    BY <1>3 DEF LoopTypeOK, Phases, Items, GoTo, HandHolds, PositionDealt, CursorsDealt, Busy, Dealt, BlobPassedBy, Brings
  <2>5. RecordedKept'
    BY <1>3 DEF LoopTypeOK, Phases, Items, GoTo, HandHolds, RecordedKept, PassedKept, Kept, Stores, BlobPassedBy, Brings
  <2>6. PassedKept'
    <3>1. Kept(i)
      BY DEF RecordedKept, Kept
    <3>2. ASSUME NEW j, Kept(j) PROVE Kept(j)'
      BY <3>2 DEF LoopTypeOK, GoTo, Kept, Stores, Brings
    <3>3. QED
      BY <3>1, <3>2 DEF PassedKept
  <2>7. QED  BY <2>1, <2>2, <2>3, <2>4, <2>5, <2>6
<1>4. ASSUME NEW w \in Workers, BlobArrives(w) PROVE LoopInv'
  BY <1>4 DEF LoopTypeOK, Phases, Items, GoTo, HandHolds, PositionDealt, CursorsDealt, RecordedKept, PassedKept,
      Busy, Kept, Dealt, Stores, BlobArrives, Brings
<1>5. ASSUME NEW w \in Workers, Lands(w) PROVE LoopInv'
  <2>1. LoopTypeOK'
    BY <1>5 DEF LoopTypeOK, Phases, Items, GoTo, HandHolds, Lands
  <2>2. HandHolds'
    BY <1>5 DEF LoopTypeOK, Phases, Items, GoTo, HandHolds, Lands
  <2>3. PositionDealt'
    BY <1>5 DEF LoopTypeOK, Phases, Items, GoTo, HandHolds, PositionDealt, CursorsDealt, Busy, Dealt, Lands
  <2>4. CursorsDealt'
    BY <1>5 DEF LoopTypeOK, Phases, Items, GoTo, HandHolds, PositionDealt, CursorsDealt, Busy, Dealt, Lands
  <2>5. RecordedKept'
    BY <1>5 DEF LoopTypeOK, Phases, Items, GoTo, HandHolds, RecordedKept, PassedKept, Kept, Stores, Lands
  <2>6. PassedKept'
    BY <1>5 DEF LoopTypeOK, Phases, Items, GoTo, HandHolds, RecordedKept, PassedKept, Kept, Stores, Lands
  <2>7. QED  BY <2>1, <2>2, <2>3, <2>4, <2>5, <2>6
<1>6. ASSUME NEW w \in Workers, Logs(w) PROVE LoopInv'
  <2>1. LoopTypeOK'
    BY <1>6 DEF LoopTypeOK, Phases, Items, GoTo, HandHolds, Logs
  <2>2. HandHolds'
    BY <1>6 DEF LoopTypeOK, Phases, Items, GoTo, HandHolds, Logs
  <2>3. PositionDealt'
    BY <1>6 DEF LoopTypeOK, Phases, Items, GoTo, HandHolds, PositionDealt, CursorsDealt, Busy, Dealt, Logs
  <2>4. CursorsDealt'
    BY <1>6 DEF LoopTypeOK, Phases, Items, GoTo, HandHolds, PositionDealt, CursorsDealt, Busy, Dealt, Logs
  <2>5. RecordedKept'
    BY <1>6 DEF LoopTypeOK, Phases, Items, GoTo, HandHolds, RecordedKept, PassedKept, Kept, Stores, Logs
  <2>6. PassedKept'
    BY <1>6 DEF LoopTypeOK, Phases, Items, GoTo, HandHolds, RecordedKept, PassedKept, Kept, Stores, Logs
  <2>7. QED  BY <2>1, <2>2, <2>3, <2>4, <2>5, <2>6
<1>7. ASSUME NEW w \in Workers, Flushes(w) PROVE LoopInv'
  BY <1>7 DEF LoopTypeOK, Phases, Items, GoTo, HandHolds, PositionDealt, CursorsDealt, RecordedKept, PassedKept,
      Busy, Kept, Dealt, Stores, Flushes
<1>8. ASSUME NEW w \in Workers, Postpones(w) PROVE LoopInv'
  BY <1>8 DEF LoopTypeOK, Phases, Items, GoTo, HandHolds, PositionDealt, CursorsDealt, RecordedKept, PassedKept,
      Busy, Kept, Dealt, Stores, Postpones
<1>9. ASSUME NEW w \in Workers, ReadsCursor(w) PROVE LoopInv'
  BY <1>9 DEF LoopTypeOK, Phases, Items, GoTo, HandHolds, PositionDealt, CursorsDealt, RecordedKept, PassedKept,
      Busy, Kept, Dealt, Stores, ReadsCursor
<1>10. ASSUME NEW w \in Workers, Connects(w) PROVE LoopInv'
  BY <1>10 DEF LoopTypeOK, Phases, Items, GoTo, HandHolds, PositionDealt, CursorsDealt, RecordedKept, PassedKept,
      Busy, Kept, Dealt, Stores, Connects
<1>11. ASSUME NEW w \in Workers, ReportsLoss(w) PROVE LoopInv'
  BY <1>11 DEF LoopTypeOK, Phases, Items, GoTo, HandHolds, PositionDealt, CursorsDealt, RecordedKept, PassedKept,
      Busy, Kept, Dealt, Stores, ReportsLoss, Fault
<1>12. ASSUME NEW w \in Workers, FinalFlush(w) PROVE LoopInv'
  BY <1>12 DEF LoopTypeOK, Phases, Items, GoTo, HandHolds, PositionDealt, CursorsDealt, RecordedKept, PassedKept,
      Busy, Kept, Dealt, Stores, FinalFlush, Fault
<1>13. ASSUME NEW w \in Workers, BacksOff(w) PROVE LoopInv'
  BY <1>13 DEF LoopTypeOK, Phases, Items, GoTo, HandHolds, PositionDealt, CursorsDealt, RecordedKept, PassedKept,
      Busy, Kept, Dealt, Stores, BacksOff
<1>14. ASSUME NEW w \in Workers, Ends(w) PROVE LoopInv'
  BY <1>14 DEF LoopTypeOK, Phases, Items, GoTo, HandHolds, PositionDealt, CursorsDealt, RecordedKept, PassedKept,
      Busy, Kept, Dealt, Stores, Ends, Fault
<1>15. ASSUME NEW w \in Workers, Fails(w) PROVE LoopInv'
  <2>1. LoopTypeOK'
    <3>1. broken' \subseteq Blobs
      BY <1>15 DEF Fails, Breaks, LoopTypeOK
    <3>2. pending' \in [Workers -> (Items \cup {0}) \ Unnamed]
      BY <1>15 DEF Fails, LoopTypeOK, HandHolds, Items
    <3>3. QED
      BY <1>15, <3>1, <3>2 DEF LoopTypeOK, Phases, GoTo, Fails, Fault
  <2>2. HandHolds'
    BY <1>15 DEF LoopTypeOK, Phases, Items, GoTo, HandHolds, Fails, Fault, Breaks
  <2>3. PositionDealt'
    BY <1>15 DEF LoopTypeOK, Phases, Items, GoTo, HandHolds, PositionDealt, CursorsDealt, Busy, Dealt, Fails, Fault, Breaks
  <2>4. CursorsDealt'
    BY <1>15 DEF LoopTypeOK, Phases, Items, GoTo, HandHolds, PositionDealt, CursorsDealt, Busy, Dealt, Fails, Fault, Breaks
  <2>5. RecordedKept'
    BY <1>15 DEF LoopTypeOK, Phases, Items, GoTo, HandHolds, RecordedKept, PassedKept, Kept, Stores, Fails, Fault, Breaks
  <2>6. PassedKept'
    BY <1>15 DEF LoopTypeOK, Phases, Items, GoTo, HandHolds, RecordedKept, PassedKept, Kept, Stores, Fails, Fault, Breaks
  <2>7. QED  BY <2>1, <2>2, <2>3, <2>4, <2>5, <2>6
<1>16. ASSUME NEW w \in Workers, Killed(w) PROVE LoopInv'
  <2>1. LoopTypeOK'
    <3>1. broken' \subseteq Blobs
      BY <1>16 DEF Killed, Breaks, LoopTypeOK
    <3>2. pending' \in [Workers -> (Items \cup {0}) \ Unnamed]
      BY <1>16 DEF Killed, LoopTypeOK, HandHolds, Items
    <3>3. QED
      BY <1>16, <3>1, <3>2 DEF LoopTypeOK, Phases, GoTo, Killed, Fault
  <2>2. HandHolds'
    BY <1>16 DEF LoopTypeOK, Phases, Items, GoTo, HandHolds, Killed, Fault, Breaks
  <2>3. PositionDealt'
    BY <1>16 DEF LoopTypeOK, Phases, Items, GoTo, HandHolds, PositionDealt, CursorsDealt, Busy, Dealt, Killed, Fault, Breaks
  <2>4. CursorsDealt'
    BY <1>16 DEF LoopTypeOK, Phases, Items, GoTo, HandHolds, PositionDealt, CursorsDealt, Busy, Dealt, Killed, Fault, Breaks
  <2>5. RecordedKept'
    BY <1>16 DEF LoopTypeOK, Phases, Items, GoTo, HandHolds, RecordedKept, PassedKept, Kept, Stores, Killed, Fault, Breaks
  <2>6. PassedKept'
    BY <1>16 DEF LoopTypeOK, Phases, Items, GoTo, HandHolds, RecordedKept, PassedKept, Kept, Stores, Killed, Fault, Breaks
  <2>7. QED  BY <2>1, <2>2, <2>3, <2>4, <2>5, <2>6
<1>17. CASE Pruned
  BY <1>17 DEF LoopTypeOK, Phases, Items, GoTo, HandHolds, PositionDealt, CursorsDealt, RecordedKept, PassedKept,
      Busy, Kept, Dealt, Stores, Pruned
<1>18. CASE UNCHANGED loopVars
  BY <1>18 DEF loopVars, LoopTypeOK, Phases, Items, GoTo, HandHolds, PositionDealt, CursorsDealt, RecordedKept, PassedKept,
      Busy, Kept, Dealt, Stores
<1>19. QED
  BY <1>1, <1>2, <1>3, <1>4, <1>5, <1>6, <1>7, <1>8, <1>9, <1>10, <1>11, <1>12, <1>13, <1>14, <1>15, <1>16, <1>17, <1>18 DEF LoopNext, Receives, Turns

LEMMA LoopInvariant == LoopSpec => []LoopInv
<1>1. LoopInit => LoopInv
  BY LoopInitInv
<1>2. LoopInv /\ [LoopNext]_loopVars => LoopInv'
  BY LoopStepInv
<1>3. QED
  BY <1>1, <1>2, PTL DEF LoopSpec

(* The loops' state keeps its types; in particular no frame without an id  *)
(* becomes a cursor.                                                       *)
THEOREM LoopTypeCorrect == LoopSpec => []LoopTypeOK
<1>1. LoopInv => LoopTypeOK
  BY DEF LoopInv
<1>2. QED
  BY <1>1, LoopInvariant, PTL

(* "A stale cursor costs duplicates, never data" (upstream.js:53-55), with *)
(* the exceptions CursorTruthful names, for any number of loops and items. *)
THEOREM CursorIsTruthful == LoopSpec => []CursorTruthful
<1>1. LoopInv => CursorTruthful
  BY DEF LoopInv, LoopTypeOK, CursorsDealt, PassedKept, Kept, Dealt, CursorTruthful, Items
<1>2. QED
  BY <1>1, LoopInvariant, PTL

-----------------------------------------------------------------------------
(* Every step of the loops is a step of the relay, or leaves it alone.     *)
LEMMA LoopStepRelays == LoopInv /\ [LoopNext]_loopVars => [R!RelayNext]_(R!relayVars)
<1> SUFFICES ASSUME LoopInv, [LoopNext]_loopVars PROVE [R!RelayNext]_(R!relayVars)
  OBVIOUS
<1> USE LoopAssumption DEF LoopInv, LoopTypeOK, R!RelayNext, R!relayVars, R!DealtWith
<1>1. ASSUME NEW w \in Workers, BlobPassedBy(w) PROVE [R!RelayNext]_(R!relayVars)
  <2>1. PICK i \in Blobs : Brings(w, i) /\ passed' = passed \cup {i}
    BY <1>1 DEF BlobPassedBy
  <2>2. R!PassBy(i)
    BY <2>1 DEF Brings, PositionDealt, Dealt, Items, R!PassBy
  <2>3. QED
    BY <2>1, <2>2 DEF Items
<1>2. ASSUME NEW w \in Workers, Logs(w) PROVE [R!RelayNext]_(R!relayVars)
  <2>1. at[w] \in Items
    BY <1>2 DEF Logs, HandHolds, Items
  <2>2. R!Deliver(at[w])
    BY <1>2, <2>1 DEF Logs, PositionDealt, Busy, Dealt, Items, R!Deliver
  <2>3. QED
    BY <2>1, <2>2 DEF Items
<1>3. ASSUME NEW w \in Workers, Flushes(w) PROVE [R!RelayNext]_(R!relayVars)
  <2>1. at[w] \in Items
    BY <1>3 DEF Flushes, HandHolds, Items
  <2>2. R!Remember(at[w])
    BY <1>3, <2>1 DEF Flushes, PositionDealt, Dealt, Items, R!Remember
  <2>3. QED
    BY <2>1, <2>2 DEF Items
<1>4. ASSUME NEW w \in Workers, FinalFlush(w) PROVE [R!RelayNext]_(R!relayVars)
  <2>1. CASE cursor' = cursor
    BY <1>4, <2>1 DEF FinalFlush
  <2>2. CASE pending[w] # 0 /\ cursor' = pending[w]
    <3>1. pending[w] \in Items
      BY <2>2
    <3>2. R!Remember(pending[w])
      BY <1>4, <2>2, <3>1 DEF FinalFlush, CursorsDealt, Dealt, Items, R!Remember
    <3>3. QED
      BY <3>1, <3>2 DEF Items
  <2>3. QED
    BY <1>4, <2>1, <2>2 DEF FinalFlush
<1>5. ASSUME NEW w \in Workers,
             \/ Boots(w) \/ EventArrives(w) \/ BlobArrives(w) \/ Lands(w) \/ Postpones(w)
             \/ ReadsCursor(w) \/ Connects(w) \/ ReportsLoss(w) \/ BacksOff(w)
             \/ Ends(w) \/ Fails(w) \/ Killed(w)
      PROVE UNCHANGED <<logged, passed, cursor>>
  BY <1>5 DEF Boots, EventArrives, BlobArrives, Brings, Lands, Postpones, ReadsCursor, Connects,
      ReportsLoss, BacksOff, Ends, Fails, Killed
<1>6. CASE Pruned \/ UNCHANGED loopVars
  BY <1>6 DEF Pruned, loopVars
<1>7. QED
  BY <1>1, <1>2, <1>3, <1>4, <1>5, <1>6 DEF LoopNext, Receives, Turns

(* The loops implement the relay: items are delivered in the upstream's    *)
(* order and the cursor never claims more than was dealt with, although    *)
(* each loop keeps a position and a pending cursor of its own.             *)
THEOREM LoopImplementsRelay == LoopSpec => ImplementsRelay
<1>1. LoopInit => R!RelayInit
  BY DEF LoopInit, R!RelayInit
<1>2. LoopInv /\ [LoopNext]_loopVars => [R!RelayNext]_(R!relayVars)
  BY LoopStepRelays
<1>3. QED
  BY <1>1, <1>2, LoopInvariant, PTL DEF LoopSpec, ImplementsRelay, R!RelaySpec

-----------------------------------------------------------------------------
(* One connection. *)

\* Nothing is accepted after a message was lost.
LossIsFinal == lost > 0 => Jammed

EndIsFinal == ended # "no" => pump = "stopped" /\ (payload = 0 \/ Jammed)

FrameIsAccepted ==
    /\ consumer.frame <= accepted
    /\ consumer.pc = "busy" => consumer.frame # 0

\* What DepthBounded leaves out: a plain socket is read while there is room.
RoomWhileRunning == pump = "running" => Len(queue) <= Limit

NotYetOpened == \A h \in Positions : h > accepted => bodies[h] = NoBody

\* The body of h as far as the last message it took, and whether it is done.
BodyHolds(h) ==
    LET body == bodies[h]
        last == h + Len(body.bytes)
        full == last > h /\ Reaches(body.received, sent[h].size)
        cut == last < accepted /\ IsHeader(last + 1) IN
    /\ \A n \in 1..Len(body.bytes) : body.bytes[n] = h + n
    /\ body.received = Carried(sent, h, last)
    /\ last <= accepted
    /\ \A i \in (h + 1)..last : ~IsHeader(i)
    /\ \A i \in (h + 1)..(last - 1) : ~Reaches(Carried(sent, h, i), sent[h].size)
    /\ IF payload = h
       THEN last = accepted /\ ~full /\ body.state # "closed"
       ELSE (full \/ cut \/ (ended # "no" /\ last = accepted)) /\ body.state # "open"

BodiesHold == \A h \in 1..accepted : sent[h].kind = "blob" => BodyHolds(h)

SinkInv ==
    /\ SinkTypeOK
    /\ LossIsFinal
    /\ EndIsFinal
    /\ FrameIsAccepted
    /\ RoomWhileRunning
    /\ NotYetOpened
    /\ FramesInOrder
    /\ DepthBounded
    /\ BodiesHold

-----------------------------------------------------------------------------
(* What the messages behind a header carry: the sum exists, and grows by   *)
(* the size of each message.                                               *)

LEMMA LeastNumber == ASSUME NEW S, S \subseteq Nat, S # {} PROVE \E n \in S : \A m \in S : n <= m
<1>1. PICK n \in S : \A m \in S : ~(<<m, n>> \in OpToRel(<, Nat))
  BY WFMin, NatLessThanWellFounded
<1>2. \A m \in S : ~(m < n)
  BY <1>1, Zenon DEF OpToRel
<1>3. QED
  BY <1>2

SumTo(messages, h, n, f) == f = [j \in 0..n |-> IF j <= h THEN 0 ELSE f[j - 1] + messages[j].size]

LEMMA SumExists == ASSUME NEW messages, NEW h \in Nat, NEW n \in Nat PROVE \E f : SumTo(messages, h, n, f)
<1> DEFINE Without == {m \in Nat : ~\E f : SumTo(messages, h, m, f)}
<1>1. SUFFICES ASSUME Without # {} PROVE FALSE
  OBVIOUS
<1>2. PICK m \in Without : \A k \in Without : m <= k
  BY <1>1, LeastNumber
<1>3. CASE m = 0
  <2>1. SumTo(messages, h, 0, [j \in 0..0 |-> 0])
    BY DEF SumTo
  <2>2. QED
    BY <1>3, <2>1
<1>4. CASE m # 0
  <2>1. PICK f : SumTo(messages, h, m - 1, f)
    BY <1>2, <1>4
  <2>2. DEFINE g == [j \in 0..m |-> IF j <= h THEN 0 ELSE f[j - 1] + messages[j].size]
  <2>3. \A j \in 0..(m - 1) : g[j] = f[j]
    BY <1>4, <2>1 DEF SumTo
  <2>4. \A j \in 0..m : j <= h \/ g[j - 1] = f[j - 1]
    <3>1. \A j \in 0..m : j <= h \/ j - 1 \in 0..(m - 1)
      OBVIOUS
    <3>2. QED
      BY <2>3, <3>1
  <2>5. SumTo(messages, h, m, g)
    BY <2>4 DEF SumTo
  <2>6. QED
    BY <2>5
<1>5. QED
  BY <1>3, <1>4

LEMMA SumIsUnique ==
    ASSUME NEW messages, NEW h \in Nat, NEW n \in Nat, NEW m \in Nat, NEW f, NEW g, SumTo(messages, h, n, f), SumTo(messages, h, m, g),
           NEW k \in Nat, k <= n, k <= m
    PROVE  f[k] = g[k]
<1> DEFINE Differ == {j \in Nat : j <= n /\ j <= m /\ f[j] # g[j]}
<1>1. SUFFICES ASSUME Differ # {} PROVE FALSE
  OBVIOUS
<1>2. PICK j \in Differ : \A i \in Differ : j <= i
  BY <1>1, LeastNumber
<1>3. /\ j \in 0..n /\ f[j] = IF j <= h THEN 0 ELSE f[j - 1] + messages[j].size
      /\ j \in 0..m /\ g[j] = IF j <= h THEN 0 ELSE g[j - 1] + messages[j].size
  BY DEF SumTo
<1>4. ~(j <= h) => j - 1 \in Nat /\ j - 1 \notin Differ
  BY <1>2
<1>5. ~(j <= h) => f[j - 1] = g[j - 1]
  BY <1>3, <1>4
<1>6. QED
  BY <1>3, <1>5

LEMMA CarriedGrows ==
    ASSUME NEW messages, NEW h \in Nat
    PROVE  /\ Carried(messages, h, h) = 0
           /\ \A i \in Nat : i >= h => Carried(messages, h, i + 1) = Carried(messages, h, i) + messages[i + 1].size
<1> DEFINE part(n) == CHOOSE f : SumTo(messages, h, n, f)
           whole == [n \in Nat |-> part(n)[n]]
           IsWhole(s) == s = [j \in Nat |-> IF j <= h THEN 0 ELSE s[j - 1] + messages[j].size]
           sum == CHOOSE s : IsWhole(s)
<1>1. \A n \in Nat : SumTo(messages, h, n, part(n))
  BY SumExists
<1> HIDE DEF part
<1>2. \A n \in Nat : part(n)[n] = IF n <= h THEN 0 ELSE part(n)[n - 1] + messages[n].size
  <2>1. ASSUME NEW n \in Nat, NEW f, SumTo(messages, h, n, f)
        PROVE  f[n] = IF n <= h THEN 0 ELSE f[n - 1] + messages[n].size
    <3>1. n \in 0..n
      OBVIOUS
    <3>2. QED
      BY <2>1, <3>1 DEF SumTo
  <2>2. QED
    BY <1>1, <2>1
<1>3. \A n \in Nat : ~(n <= h) => part(n)[n - 1] = whole[n - 1]
  <2>1. SUFFICES ASSUME NEW n \in Nat, ~(n <= h) PROVE part(n)[n - 1] = whole[n - 1]
    OBVIOUS
  <2>2. n - 1 \in Nat /\ n - 1 <= n /\ whole[n - 1] = part(n - 1)[n - 1]
    BY <2>1
  <2>3. QED
    BY <1>1, <2>2, SumIsUnique
<1>4. IsWhole(whole)
  <2>1. \A n \in Nat : whole[n] = IF n <= h THEN 0 ELSE whole[n - 1] + messages[n].size
    BY <1>2, <1>3
  <2>2. whole = [n \in Nat |-> whole[n]]
    OBVIOUS
  <2> HIDE DEF whole
  <2>3. QED
    BY <2>1, <2>2
<1> HIDE DEF whole
<1>5. IsWhole(sum)
  BY <1>4
<1> HIDE DEF sum
<1>6. \A i \in Nat : sum[i] = IF i <= h THEN 0 ELSE sum[i - 1] + messages[i].size
  BY <1>5
<1>7. \A i \in Nat : Carried(messages, h, i) = sum[i]
  BY DEF Carried, sum
<1>8. QED
  BY <1>6, <1>7

-----------------------------------------------------------------------------
(* What becomes of a body when something else happens. *)

LEMMA SinkFacts ==
    ASSUME SinkInv
    PROVE  /\ sent \in Seq(Messages) /\ Len(sent) \in Nat /\ Len(sent) <= MaxMessages /\ MaxMessages \in Nat
           /\ accepted \in Nat /\ lost \in Nat /\ accepted + lost <= Len(sent)
           /\ queue \in Seq(Positions) /\ Len(queue) \in Nat
           /\ payload \in 0..accepted /\ (payload # 0 => sent[payload].kind = "blob")
           /\ bodies \in [Positions -> Bodies] /\ ended \in {"no", "done", "error"}
           /\ consumer \in [pc : {"next", "parked", "busy", "over", "left"}, frame : Positions \cup {0}]
           /\ transport \in {"stream", "plain"} /\ pump \in {"running", "stopped"}
BY SinkAssumption DEF SinkInv, SinkTypeOK

LEMMA BodyFacts ==
    ASSUME SinkInv, NEW h \in 1..accepted
    PROVE  /\ h \in Positions /\ h \in Nat \ {0} /\ bodies[h] \in Bodies
           /\ bodies[h].bytes \in Seq(Positions) /\ Len(bodies[h].bytes) \in Nat
<1>1. h \in Positions /\ h \in Nat \ {0}
  BY SinkFacts DEF Positions
<1>2. bodies[h] \in Bodies
  BY <1>1, SinkFacts
<1>3. bodies[h].bytes \in Seq(Positions)
  BY <1>2 DEF Bodies
<1>4. QED
  BY <1>1, <1>2, <1>3

\* Its payload was over before, or is not its own.
LEMMA ClosedBodyHolds ==
    ASSUME SinkInv, NEW h \in 1..accepted, sent[h].kind = "blob", sent' = sent, payload # h, payload' # h,
           accepted' \in Nat, accepted <= accepted',
           bodies'[h].bytes = bodies[h].bytes, bodies'[h].received = bodies[h].received,
           bodies'[h].state # "open", ended # "no" => ended' # "no" /\ accepted' = accepted
    PROVE  BodyHolds(h)'
<1>1. BodyHolds(h) /\ accepted \in Nat
  BY SinkFacts DEF SinkInv, BodiesHold
<1>2. Len(bodies[h].bytes) \in Nat
  BY BodyFacts
<1>3. QED
  BY <1>1, <1>2 DEF BodyHolds, IsHeader

\* A header or the end of the socket ends the payload under way.
LEMMA EndedBodyHolds ==
    ASSUME SinkInv, NEW h \in 1..accepted, sent[h].kind = "blob", sent' = sent, payload = h, payload' # h,
           accepted' \in Nat,
           bodies'[h].bytes = bodies[h].bytes, bodies'[h].received = bodies[h].received,
           bodies'[h].state # "open",
           \/ accepted' = accepted /\ ended' # "no"
           \/ accepted' > accepted /\ IsHeader(accepted + 1)
    PROVE  BodyHolds(h)'
<1>1. BodyHolds(h) /\ accepted \in Nat
  BY SinkFacts DEF SinkInv, BodiesHold
<1>2. Len(bodies[h].bytes) \in Nat
  BY BodyFacts
<1>3. h + Len(bodies[h].bytes) = accepted
  BY <1>1, <1>2 DEF BodyHolds
<1>4. CASE accepted' = accepted /\ ended' # "no"
  BY <1>1, <1>2, <1>3, <1>4 DEF BodyHolds, IsHeader
<1>5. CASE accepted' > accepted /\ IsHeader(accepted + 1)
  <2>1. /\ \A n \in 1..Len(bodies[h].bytes) : bodies[h].bytes[n] = h + n
        /\ bodies[h].received = Carried(sent, h, accepted)
        /\ \A i \in (h + 1)..accepted : ~IsHeader(i)
        /\ \A i \in (h + 1)..(accepted - 1) : ~Reaches(Carried(sent, h, i), sent[h].size)
    BY <1>1, <1>3 DEF BodyHolds
  <2>2. h + Len(bodies'[h].bytes) = accepted /\ accepted < accepted'
    BY <1>1, <1>3, <1>5
  <2>3. accepted <= accepted' /\ sent[accepted + 1].kind # "bytes"
    BY <1>1, <1>5 DEF IsHeader
  <2>4. QED
    BY <2>1, <2>2, <2>3 DEF BodyHolds, IsHeader
<1>6. QED
  BY <1>4, <1>5

\* Nothing was accepted.
LEMMA OpenBodyHolds ==
    ASSUME SinkInv, NEW h \in 1..accepted, sent[h].kind = "blob", sent' = sent, payload = h, payload' = h,
           accepted' = accepted,
           bodies'[h].bytes = bodies[h].bytes, bodies'[h].received = bodies[h].received,
           bodies'[h].state # "closed"
    PROVE  BodyHolds(h)'
<1>1. BodyHolds(h) /\ accepted \in Nat
  BY SinkFacts DEF SinkInv, BodiesHold
<1>2. Len(bodies[h].bytes) \in Nat
  BY BodyFacts
<1>3. QED
  BY <1>1, <1>2 DEF BodyHolds, IsHeader

\* Its payload takes a message.
Fed(h, i) ==
    /\ sent' = sent /\ payload = h /\ i = accepted + 1 /\ accepted' = i
    /\ bodies'[h].bytes = Append(bodies[h].bytes, i)
    /\ bodies'[h].received = bodies[h].received + sent[i].size
    /\ IF Reaches(bodies'[h].received, sent[h].size)
       THEN payload' = 0 /\ bodies'[h].state = "closed"
       ELSE payload' = h /\ bodies'[h].state # "closed"

LEMMA FedBodyHolds ==
    ASSUME SinkInv, NEW h \in 1..accepted, sent[h].kind = "blob", NEW i \in Positions, ~IsHeader(i), Fed(h, i)
    PROVE  BodyHolds(h)'
<1> DEFINE bytes == bodies[h].bytes
           n == Len(bytes)
<1>1. BodyHolds(h) /\ accepted \in Nat /\ h \in Nat
  BY SinkFacts DEF SinkInv, BodiesHold
<1>2. bytes \in Seq(Positions) /\ n \in Nat
  BY BodyFacts
<1>3. /\ h + n = accepted /\ i = accepted + 1 /\ \A k \in 1..n : bytes[k] = h + k
      /\ bodies[h].received = Carried(sent, h, h + n)
      /\ \A k \in (h + 1)..(h + n) : ~IsHeader(k)
      /\ \A k \in (h + 1)..(h + n - 1) : ~Reaches(Carried(sent, h, k), sent[h].size)
      /\ h + n > h => ~Reaches(bodies[h].received, sent[h].size)
  BY <1>1, <1>2 DEF BodyHolds, Fed
<1>4. bodies'[h].bytes = Append(bytes, i)
  BY DEF Fed
<1>5. /\ Len(bodies'[h].bytes) = n + 1 /\ bodies'[h].bytes[n + 1] = i
      /\ \A k \in 1..n : bodies'[h].bytes[k] = bytes[k]
  BY <1>2, <1>4, AppendProperties
<1> HIDE DEF bytes, n
<1>6. h + Len(bodies'[h].bytes) = i
  BY <1>1, <1>2, <1>3, <1>5
<1>7. \A k \in 1..Len(bodies'[h].bytes) : bodies'[h].bytes[k] = h + k
  BY <1>1, <1>2, <1>3, <1>5, SMTT(30)
<1>8. bodies'[h].received = Carried(sent, h, i)
  <2>1. Carried(sent, h, i) = Carried(sent, h, accepted) + sent[i].size
    <3>1. accepted \in Nat /\ accepted >= h /\ i = accepted + 1
      BY <1>1, <1>2, <1>3
    <3>2. \A k \in Nat : k >= h => Carried(sent, h, k + 1) = Carried(sent, h, k) + sent[k + 1].size
      BY <1>1, CarriedGrows
    <3>3. QED
      BY <3>1, <3>2
  <2>2. bodies'[h].received = bodies[h].received + sent[i].size
    BY DEF Fed
  <2>3. QED
    BY <1>3, <2>1, <2>2
<1>9. \A k \in (h + 1)..i : ~IsHeader(k)
  BY <1>1, <1>3
<1>10. \A k \in (h + 1)..(i - 1) : ~Reaches(Carried(sent, h, k), sent[h].size)
  <2>1. accepted > h => ~Reaches(Carried(sent, h, accepted), sent[h].size)
    BY <1>3
  <2>2. QED
    BY <1>1, <1>2, <1>3, <2>1
<1>11. /\ sent' = sent /\ accepted' = i
       /\ IF Reaches(bodies'[h].received, sent[h].size)
          THEN payload' = 0 /\ bodies'[h].state = "closed"
          ELSE payload' = h /\ bodies'[h].state # "closed"
  BY DEF Fed
<1>12. QED
  BY <1>1, <1>3, <1>6, <1>7, <1>8, <1>9, <1>10, <1>11 DEF BodyHolds, IsHeader

\* A header opens a body; the end may come with it.
LEMMA NewBodyHolds ==
    ASSUME SinkInv, NEW h \in Positions, h = accepted + 1, accepted' = h, sent' = sent,
           bodies'[h].bytes = <<>>, bodies'[h].received = 0,
           IF payload' = h THEN bodies'[h].state # "closed"
                           ELSE ended' # "no" /\ bodies'[h].state # "open"
    PROVE  BodyHolds(h)'
<1>1. h \in Nat
  BY DEF Positions
<1>2. Carried(sent, h, h) = 0
  BY <1>1, CarriedGrows
<1>3. QED
  BY <1>1, <1>2 DEF BodyHolds, IsHeader

LEMMA BodiesAreTheirOwn == SinkInv => BodyIsItsOwn
<1> SUFFICES ASSUME SinkInv, NEW h \in 1..accepted, sent[h].kind = "blob"
             PROVE  \E last \in h..accepted :
                      LET full == Complete(h, last) /\ ~Overlooked(h, last)
                          cut == last < accepted /\ IsHeader(last + 1) IN
                      /\ bodies[h].bytes = [n \in 1..(last - h) |-> h + n]
                      /\ \A i \in (h + 1)..last : ~IsHeader(i)
                      /\ \A i \in h..(last - 1) : ~Complete(h, i) \/ Overlooked(h, i)
                      /\ full \/ cut \/ last = accepted
                      /\ bodies[h].state # "cancelled" =>
                          (bodies[h].state = "open" <=> ~full /\ ~cut /\ ended = "no")
  BY DEF BodyIsItsOwn
<1> DEFINE bytes == bodies[h].bytes
           last == h + Len(bytes)
<1>1. /\ BodyHolds(h) /\ accepted \in Nat /\ h \in Nat /\ bytes \in Seq(Positions) /\ Len(bytes) \in Nat
      /\ bodies[h].state \in {"open", "closed", "cancelled"}
  BY BodyFacts, SinkFacts DEF SinkInv, BodiesHold, Bodies
<1>2. last \in h..accepted /\ last - h = Len(bytes)
  BY <1>1 DEF BodyHolds
<1>3. bytes = [n \in 1..(last - h) |-> h + n]
  <2>1. \A n \in 1..Len(bytes) : bytes[n] = h + n
    BY <1>1 DEF BodyHolds
  <2>2. bytes = [n \in 1..Len(bytes) |-> bytes[n]]
    BY <1>1
  <2>3. QED
    BY <1>2, <2>1, <2>2
<1>4. ended # "no" => payload = 0 \/ bodies[payload].state = "cancelled"
  BY DEF SinkInv, EndIsFinal, Jammed
<1>5. bodies[h].state = "open" <=> payload = h /\ bodies[h].state # "cancelled"
  BY <1>1 DEF BodyHolds
<1>6. h # 0
  BY <1>1
<1> DEFINE full == Complete(h, last) /\ ~Overlooked(h, last)
           cut == last < accepted /\ IsHeader(last + 1)
<1>7. Complete(h, h) => Overlooked(h, h)
  <2>1. Carried(sent, h, h) = 0
    BY <1>1, CarriedGrows
  <2>2. sent[h].size \in Nat \cup {Infinity}
    <3>1. h \in 1..Len(sent)
      BY <1>1, SinkFacts
    <3>2. sent[h] \in Messages
      BY <3>1, SinkFacts, ElementOfSeq, Zenon
    <3>3. QED
      BY <3>2, SinkAssumption DEF Messages
  <2>3. QED
    BY <2>1, <2>2 DEF Complete, Overlooked, Reaches
<1>8. full <=> last > h /\ Reaches(Carried(sent, h, last), sent[h].size)
  BY <1>1, <1>2, <1>7 DEF Complete, Overlooked
<1> HIDE DEF full
<1>9. /\ payload = h => ~full /\ ~cut /\ last = accepted
      /\ payload # h => full \/ cut \/ (ended # "no" /\ last = accepted)
  BY <1>1, <1>8 DEF BodyHolds
<1>10. \A i \in (h + 1)..last : ~IsHeader(i)
  BY <1>1 DEF BodyHolds
<1>11. \A i \in h..(last - 1) : ~Complete(h, i) \/ Overlooked(h, i)
  <2>1. \A i \in (h + 1)..(last - 1) : ~Complete(h, i)
    BY <1>1 DEF BodyHolds, Complete
  <2>2. \A i \in h..(last - 1) : i = h \/ i \in (h + 1)..(last - 1)
    BY <1>1, <1>2
  <2>3. QED
    BY <1>7, <2>1, <2>2
<1> HIDE DEF cut
<1>12. bodies[h].state # "cancelled" => (bodies[h].state = "open" <=> ~full /\ ~cut /\ ended = "no")
  BY <1>4, <1>5, <1>6, <1>9
<1>13. full \/ cut \/ last = accepted
  BY <1>9
<1> HIDE DEF last, bytes
<1>14. QED
  BY <1>2, <1>3, <1>10, <1>11, <1>12, <1>13 DEF full, cut, bytes

-----------------------------------------------------------------------------
(* The order of the frames. *)

\* FramesInOrder, of any queue and member by member.
InOrder(messages, q, to, from) ==
    /\ \A a, b \in 1..Len(q) : a < b => q[a] < q[b]
    /\ \A a \in 1..Len(q) : q[a] \in 1..to /\ q[a] > from /\ messages[q[a]].kind # "bytes"
    /\ \A i \in 1..to : i > from /\ messages[i].kind # "bytes" => \E a \in 1..Len(q) : q[a] = i

LEMMA InOrderByMember ==
    ASSUME NEW messages, NEW q \in Seq(Positions), NEW to, NEW from
    PROVE  InOrder(messages, q, to, from) <=>
             /\ \A a, b \in 1..Len(q) : a < b => q[a] < q[b]
             /\ Range(q) = {i \in 1..to : i > from /\ messages[i].kind # "bytes"}
<1>1. DOMAIN q = 1..Len(q)
  OBVIOUS
<1>2. Range(q) = {q[a] : a \in 1..Len(q)}
  BY <1>1 DEF Range
<1>3. QED
  BY <1>2 DEF InOrder

LEMMA AppendKeepsOrder ==
    ASSUME NEW messages, NEW q \in Seq(Positions), NEW to \in Nat, NEW from \in Nat, from <= to,
           InOrder(messages, q, to, from), to + 1 \in Positions, messages[to + 1].kind # "bytes"
    PROVE  InOrder(messages, Append(q, to + 1), to + 1, from)
<1> DEFINE r == Append(q, to + 1)
<1>1. /\ Len(q) \in Nat /\ Len(r) = Len(q) + 1 /\ r[Len(q) + 1] = to + 1
      /\ \A a \in 1..Len(q) : r[a] = q[a]
  BY AppendProperties
<1>2. \A a \in 1..Len(q) : q[a] \in 1..to /\ q[a] > from /\ messages[q[a]].kind # "bytes"
  BY DEF InOrder
<1> HIDE DEF r
<1>3. \A a, b \in 1..Len(r) : a < b => r[a] < r[b]
  <2>1. \A a, b \in 1..Len(q) : a < b => q[a] < q[b]
    BY DEF InOrder
  <2>2. QED
    BY <1>1, <1>2, <2>1
<1>4. \A a \in 1..Len(r) : r[a] \in 1..(to + 1) /\ r[a] > from /\ messages[r[a]].kind # "bytes"
  BY <1>1, <1>2
<1>5. \A i \in 1..(to + 1) : i > from /\ messages[i].kind # "bytes" => \E a \in 1..Len(r) : r[a] = i
  <2>1. SUFFICES ASSUME NEW i \in 1..(to + 1), i > from, messages[i].kind # "bytes"
                 PROVE  \E a \in 1..Len(r) : r[a] = i
    OBVIOUS
  <2>2. CASE i = to + 1
    BY <1>1, <2>2
  <2>3. CASE i \in 1..to
    <3>1. PICK a \in 1..Len(q) : q[a] = i
      BY <2>1, <2>3 DEF InOrder
    <3>2. a \in 1..Len(r) /\ r[a] = i
      BY <1>1, <3>1
    <3>3. QED
      BY <3>2
  <2>4. QED
    BY <2>2, <2>3
<1>6. QED
  BY <1>3, <1>4, <1>5 DEF InOrder, r

LEMMA OthersKeepOrder ==
    ASSUME NEW messages, NEW q \in Seq(Positions), NEW to \in Nat, NEW from \in Nat,
           InOrder(messages, q, to, from), messages[to + 1].kind = "bytes"
    PROVE  InOrder(messages, q, to + 1, from)
<1>1. \A i \in 1..(to + 1) : i = to + 1 \/ i \in 1..to
  OBVIOUS
<1>2. \A i \in 1..to : i \in 1..(to + 1)
  OBVIOUS
<1>3. \A a, b \in 1..Len(q) : a < b => q[a] < q[b]
  BY DEF InOrder
<1>4. \A a \in 1..Len(q) : q[a] \in 1..(to + 1) /\ q[a] > from /\ messages[q[a]].kind # "bytes"
  BY <1>2 DEF InOrder
<1>5. \A i \in 1..(to + 1) : i > from /\ messages[i].kind # "bytes" => \E a \in 1..Len(q) : q[a] = i
  BY <1>1 DEF InOrder
<1>6. QED
  BY <1>3, <1>4, <1>5 DEF InOrder

LEMMA TailKeepsOrder ==
    ASSUME NEW messages, NEW q \in Seq(Positions), NEW to \in Nat, NEW from \in Nat,
           InOrder(messages, q, to, from), q # <<>>
    PROVE  InOrder(messages, Tail(q), to, Head(q)) /\ Head(q) \in 1..to
<1> DEFINE r == Tail(q)
<1>1. /\ Len(q) \in Nat \ {0} /\ Len(r) = Len(q) - 1 /\ Head(q) = q[1]
      /\ \A a \in 1..Len(r) : r[a] = q[a + 1]
  <2>1. Len(r) = Len(q) - 1 /\ \A a \in 1..Len(r) : r[a] = q[a + 1]
    BY HeadTailProperties
  <2>2. Len(q) \in Nat \ {0}
    BY EmptySeq
  <2>3. Head(q) = q[1]
    OBVIOUS
  <2> HIDE DEF r
  <2>4. QED
    BY <2>1, <2>2, <2>3
<1>2. /\ \A a, b \in 1..Len(q) : a < b => q[a] < q[b]
      /\ \A a \in 1..Len(q) : q[a] \in 1..to /\ q[a] > from /\ messages[q[a]].kind # "bytes"
  BY DEF InOrder
<1> HIDE DEF r
<1>3. \A a, b \in 1..Len(r) : a < b => r[a] < r[b]
  <2>1. \A a, b \in 1..Len(r) : a < b =>
          a + 1 \in 1..Len(q) /\ b + 1 \in 1..Len(q) /\ a + 1 < b + 1
    BY <1>1
  <2>2. \A a, b \in 1..Len(r) : a < b => q[a + 1] < q[b + 1]
    BY <1>2, <2>1
  <2>3. QED
    BY <1>1, <2>2
<1>4. \A a \in 1..Len(r) : r[a] \in 1..to /\ r[a] > q[1] /\ messages[r[a]].kind # "bytes"
  <2>1. \A a \in 1..Len(r) : a + 1 \in 1..Len(q) /\ 1 \in 1..Len(q) /\ 1 < a + 1
    BY <1>1
  <2>2. \A a \in 1..Len(r) : q[a + 1] \in 1..to /\ q[1] < q[a + 1] /\ messages[q[a + 1]].kind # "bytes" /\ q[1] \in Nat
    BY <1>2, <2>1
  <2>3. QED
    BY <1>1, <2>2
<1>5. \A i \in 1..to : i > q[1] /\ messages[i].kind # "bytes" => \E a \in 1..Len(r) : r[a] = i
  <2>1. SUFFICES ASSUME NEW i \in 1..to, i > q[1], messages[i].kind # "bytes"
                 PROVE  \E a \in 1..Len(r) : r[a] = i
    OBVIOUS
  <2>2. q[1] > from /\ q[1] \in Nat
    BY <1>1, <1>2
  <2>3. PICK a \in 1..Len(q) : q[a] = i
    BY <2>1, <2>2 DEF InOrder
  <2>4. a # 1 /\ a - 1 \in 1..Len(r) /\ r[a - 1] = i
    BY <1>1, <2>1, <2>3, <2>2
  <2>5. QED
    BY <2>4
<1>6. QED
  BY <1>1, <1>2, <1>3, <1>4, <1>5 DEF InOrder, r

-----------------------------------------------------------------------------
(* The loop's steps. *)

Consumers == [pc : {"next", "parked", "busy", "over", "left"}, frame : Positions \cup {0}]

LEMMA QueueInOrder ==
    ASSUME SinkInv PROVE InOrder(sent, queue, accepted, consumer.frame)
BY SinkFacts, InOrderByMember DEF SinkInv, FramesInOrder, IsHeader

LEMMA OrderOfQueue ==
    ASSUME queue' \in Seq(Positions), InOrder(sent', queue', accepted', consumer'.frame)
    PROVE  FramesInOrder'
BY InOrderByMember DEF FramesInOrder, IsHeader

\* Nothing is accepted and no body touched.
LEMMA LoopMoves ==
    ASSUME SinkInv, UNCHANGED <<transport, sent, accepted, lost, pump, payload, bodies, ended>>,
           consumer' \in Consumers, consumer'.frame <= accepted,
           consumer'.pc = "busy" => consumer'.frame # 0,
           queue' \in Seq(Positions), Len(queue') <= Len(queue),
           InOrder(sent, queue', accepted, consumer'.frame)
    PROVE  SinkInv'
<1>1. SinkTypeOK'
  BY DEF SinkInv, SinkTypeOK, Consumers
<1>2. (LossIsFinal /\ EndIsFinal /\ NotYetOpened)'
  BY DEF SinkInv, LossIsFinal, EndIsFinal, NotYetOpened, Jammed
<1>3. FrameIsAccepted' /\ FramesInOrder'
  BY OrderOfQueue DEF FrameIsAccepted
<1>4. RoomWhileRunning' /\ DepthBounded'
  <2>1. Len(queue) \in Nat /\ Len(queue') \in Nat /\ Limit \in Nat
    BY SinkFacts, SinkAssumption
  <2>2. RoomWhileRunning /\ DepthBounded
    BY DEF SinkInv
  <2>3. QED
    BY <2>1, <2>2 DEF RoomWhileRunning, DepthBounded
<1>5. BodiesHold'
  BY DEF SinkInv, BodiesHold, BodyHolds, IsHeader
<1>6. QED
  BY <1>1, <1>2, <1>3, <1>4, <1>5 DEF SinkInv

LEMMA LoopKeepsInv == ASSUME SinkInv, TakesFrame \/ FindsNone \/ Finishes \/ Leaves PROVE SinkInv'
<1>1. UNCHANGED <<transport, sent, accepted, lost, pump, payload, bodies, ended>>
  BY DEF TakesFrame, FindsNone, Finishes, Leaves
<1>2. CASE TakesFrame
  <2>1. /\ queue # <<>> /\ consumer' = [pc |-> "busy", frame |-> Head(queue)] /\ queue' = Tail(queue)
    BY <1>2 DEF TakesFrame
  <2>2. /\ queue \in Seq(Positions) /\ accepted \in Nat /\ consumer.frame \in Nat
        /\ InOrder(sent, queue, accepted, consumer.frame)
    BY SinkFacts, QueueInOrder DEF Positions
  <2>3. InOrder(sent, queue', accepted, consumer'.frame) /\ Head(queue) \in 1..accepted
    BY <2>1, <2>2, TailKeepsOrder
  <2>4. queue' \in Seq(Positions) /\ Len(queue') <= Len(queue) /\ Head(queue) \in Positions
    BY <2>1, <2>2, HeadTailProperties, EmptySeq
  <2>5. /\ consumer' \in Consumers /\ consumer'.frame <= accepted
        /\ consumer'.pc = "busy" => consumer'.frame # 0
    BY <2>1, <2>2, <2>3, <2>4 DEF Consumers
  <2>6. QED
    BY <1>1, <2>3, <2>4, <2>5, LoopMoves
<1>3. CASE FindsNone \/ Finishes \/ Leaves
  <2>1. UNCHANGED queue /\ consumer \in Consumers
    BY <1>3, SinkFacts DEF FindsNone, Finishes, Leaves, Consumers
  <2>2. PICK pc \in {"next", "parked", "over", "left"} : consumer' = [consumer EXCEPT !.pc = pc]
    BY <1>3 DEF FindsNone, Finishes, Leaves
  <2>3. /\ consumer' \in Consumers /\ consumer'.frame = consumer.frame /\ consumer'.pc # "busy"
    BY <2>1, <2>2 DEF Consumers
  <2>4. consumer.frame <= accepted
    BY DEF SinkInv, FrameIsAccepted
  <2>5. queue' \in Seq(Positions) /\ Len(queue') <= Len(queue)
    BY <2>1, SinkFacts
  <2>6. QED
    BY <1>1, <2>1, <2>3, <2>4, <2>5, QueueInOrder, LoopMoves
<1>4. QED
  BY <1>2, <1>3

LEMMA CancelsKeepsInv == ASSUME SinkInv, Cancels PROVE SinkInv'
<1> DEFINE h == consumer.frame
<1>1. /\ sent[h].kind = "blob" /\ consumer.pc = "busy" /\ consumer' = [consumer EXCEPT !.pc = "next"]
      /\ bodies' = [bodies EXCEPT ![h].state = "cancelled"]
      /\ UNCHANGED <<transport, sent, accepted, lost, pump, queue, payload, ended>>
  BY DEF Cancels
<1>2. h \in 1..accepted /\ h \in Positions
  BY <1>1, SinkFacts DEF SinkInv, FrameIsAccepted, Positions
<1>3. /\ bodies' \in [Positions -> Bodies]
      /\ bodies'[h].bytes = bodies[h].bytes /\ bodies'[h].received = bodies[h].received
      /\ bodies'[h].state = "cancelled"
      /\ \A i \in Positions : i # h => bodies'[i] = bodies[i]
  BY <1>1, <1>2, SinkFacts DEF Bodies
<1>4. consumer' \in Consumers /\ consumer'.frame = h /\ consumer'.pc = "next"
  BY <1>1, SinkFacts DEF Consumers
<1>5. SinkTypeOK'
  BY <1>1, <1>3, <1>4 DEF SinkInv, SinkTypeOK, Consumers
<1>6. Jammed => Jammed'
  <2>1. payload \in Positions \cup {0}
    BY SinkFacts DEF Positions
  <2>2. QED
    BY <1>1, <1>3, <2>1 DEF Jammed
<1>7. (LossIsFinal /\ EndIsFinal)'
  BY <1>1, <1>6 DEF SinkInv, LossIsFinal, EndIsFinal
<1>8. NotYetOpened'
  BY <1>1, <1>2, <1>3, SinkFacts DEF SinkInv, NotYetOpened
<1>9. FrameIsAccepted' /\ FramesInOrder' /\ RoomWhileRunning' /\ DepthBounded'
  BY <1>1, <1>4 DEF SinkInv, FrameIsAccepted, FramesInOrder, RoomWhileRunning, DepthBounded, IsHeader
<1>10. BodiesHold'
  <2>1. SUFFICES ASSUME NEW i \in 1..accepted, sent[i].kind = "blob" PROVE BodyHolds(i)'
    BY <1>1 DEF BodiesHold
  <2>2. CASE i = h
    <3>1. accepted \in Nat /\ i \in 1..accepted
      BY <2>1, SinkFacts
    <3>2. CASE payload = i
      BY <1>1, <1>3, <2>1, <2>2, <3>2, OpenBodyHolds
    <3>3. CASE payload # i
      BY <1>1, <1>3, <2>1, <2>2, <3>1, <3>3, ClosedBodyHolds
    <3>4. QED
      BY <3>2, <3>3
  <2>3. CASE i # h
    <3>1. bodies'[i] = bodies[i] /\ BodyHolds(i)
      BY <1>3, <2>1, <2>3, BodyFacts DEF SinkInv, BodiesHold
    <3>2. QED
      BY <1>1, <3>1 DEF BodyHolds, IsHeader
  <2>4. QED
    BY <2>2, <2>3
<1>11. QED
  BY <1>5, <1>7, <1>8, <1>9, <1>10 DEF SinkInv

-----------------------------------------------------------------------------
(* The sink's steps. *)

LEMMA AcceptingFacts ==
    ASSUME SinkInv, Hands, ~Jammed, NEW i, i = NextMessage
    PROVE  /\ lost = 0 /\ i = accepted + 1 /\ i \in Positions /\ i <= Len(sent)
           /\ pump = "running" /\ ended = "no" /\ Len(queue) <= Limit /\ Limit \in Nat
           /\ transport = "stream" => Len(queue) < Limit
           /\ sent[i] \in Messages /\ (sent[i].kind = "bytes" => sent[i].size \in Nat)
           /\ payload # i /\ (payload # 0 => bodies[payload].state # "cancelled")
           /\ bodies[i] = NoBody
<1>1. lost = 0
  BY SinkFacts DEF SinkInv, LossIsFinal
<1>2. i = accepted + 1 /\ i <= Len(sent) /\ i \in Positions
  BY <1>1, SinkFacts DEF Hands, NextMessage, Positions
<1>3. pump = "running" /\ ended = "no" /\ Len(queue) <= Limit /\ Limit \in Nat
  BY SinkAssumption DEF Hands, Ready, SinkInv, EndIsFinal, RoomWhileRunning
<1>4. transport = "stream" => Len(queue) < Limit
  BY DEF Hands, Ready
<1>5. sent[i] \in Messages
  BY <1>2, SinkFacts, ElementOfSeq DEF Positions
<1>6. sent[i].kind = "bytes" => sent[i].size \in Nat
  BY <1>5, SinkAssumption DEF Messages
<1>7. payload # i /\ (payload # 0 => bodies[payload].state # "cancelled")
  BY <1>2, SinkFacts DEF Jammed
<1>8. bodies[i] = NoBody
  BY <1>2, SinkFacts DEF SinkInv, NotYetOpened
<1>9. QED
  BY <1>1, <1>2, <1>3, <1>4, <1>5, <1>6, <1>7, <1>8

\* What a step that ends the payload under way does to the bodies.
LEMMA ClosingFacts ==
    ASSUME SinkInv
    PROVE  /\ Closing(bodies) \in [Positions -> Bodies]
           /\ \A h \in Positions : /\ Closing(bodies)[h].bytes = bodies[h].bytes
                                   /\ Closing(bodies)[h].received = bodies[h].received
                                   /\ h # payload => Closing(bodies)[h] = bodies[h]
           /\ payload # 0 => Closing(bodies)[payload].state = "closed"
<1>1. payload \in Positions \cup {0} /\ bodies \in [Positions -> Bodies]
  BY SinkFacts DEF Positions
<1>2. QED
  BY <1>1 DEF Closing, Bodies

LEMMA FeedsKeepsInv == ASSUME SinkInv, Takes, sent[NextMessage].kind = "bytes" PROVE SinkInv'
<1> DEFINE i == NextMessage
<1>1. /\ Hands /\ ~Jammed /\ accepted' = i /\ Feeds(i)
      /\ UNCHANGED <<transport, sent, lost, pump, queue, ended, consumer>>
  BY DEF Takes, Accept
<1>2. /\ lost = 0 /\ i = accepted + 1 /\ i \in Positions /\ i <= Len(sent) /\ pump = "running" /\ ended = "no"
      /\ sent[i].size \in Nat /\ accepted \in Nat /\ sent[i].kind = "bytes"
      /\ payload # 0 => bodies[payload].state # "cancelled"
  BY <1>1, AcceptingFacts, SinkFacts
<1> HIDE DEF i
<1>3. payload # 0 =>
        /\ payload \in Positions /\ payload \in 1..accepted /\ sent[payload].kind = "blob"
        /\ bodies[payload] \in Bodies /\ bodies[payload].bytes \in Seq(Positions) /\ bodies[payload].received \in Nat
        /\ bodies[payload].state = "open"
  <2>1. SUFFICES ASSUME payload # 0
                 PROVE  /\ payload \in Positions /\ payload \in 1..accepted /\ sent[payload].kind = "blob"
                        /\ bodies[payload] \in Bodies /\ bodies[payload].bytes \in Seq(Positions)
                        /\ bodies[payload].received \in Nat /\ bodies[payload].state = "open"
    OBVIOUS
  <2>2. payload \in 1..accepted /\ sent[payload].kind = "blob"
    BY <2>1, SinkFacts
  <2>3. payload \in Positions /\ bodies[payload] \in Bodies
    BY <2>2, BodyFacts
  <2>4. BodyHolds(payload)
    BY <2>2 DEF SinkInv, BodiesHold
  <2>5. bodies[payload].state # "closed"
    BY <2>4 DEF BodyHolds
  <2>6. QED
    BY <1>2, <2>1, <2>2, <2>3, <2>5 DEF Bodies
<1> DEFINE body == [bodies[payload] EXCEPT !.bytes = Append(@, i), !.received = @ + sent[i].size]
           full == Reaches(body.received, sent[payload].size)
           new == IF full THEN [body EXCEPT !.state = "closed"] ELSE body
<1>4. payload = 0 => UNCHANGED <<payload, bodies>>
  BY <1>1 DEF Feeds
<1>5. payload # 0 => bodies' = [bodies EXCEPT ![payload] = new] /\ payload' = IF full THEN 0 ELSE payload
  BY <1>1 DEF Feeds
<1>6. payload # 0 =>
        /\ body \in Bodies /\ new \in Bodies
        /\ body.received = bodies[payload].received + sent[i].size
        /\ new.bytes = Append(bodies[payload].bytes, i) /\ new.received = bodies[payload].received + sent[i].size
        /\ new.state = IF full THEN "closed" ELSE "open"
  <2>1. SUFFICES ASSUME payload # 0
                 PROVE  /\ body \in Bodies /\ new \in Bodies
                        /\ body.received = bodies[payload].received + sent[i].size
                        /\ new.bytes = Append(bodies[payload].bytes, i)
                        /\ new.received = bodies[payload].received + sent[i].size
                        /\ new.state = IF full THEN "closed" ELSE "open"
    OBVIOUS
  <2>2. Append(bodies[payload].bytes, i) \in Seq(Positions) /\ bodies[payload].received + sent[i].size \in Nat
    BY <1>2, <1>3, <2>1
  <2>3. body \in Bodies /\ body.bytes = Append(bodies[payload].bytes, i)
        /\ body.received = bodies[payload].received + sent[i].size /\ body.state = "open"
    BY <1>3, <2>1, <2>2 DEF Bodies
  <2> HIDE DEF body
  <2>4. QED
    BY <2>3 DEF Bodies
<1>7. payload # 0 => Fed(payload, i)
  <2>1. SUFFICES ASSUME payload # 0 PROVE Fed(payload, i)
    OBVIOUS
  <2>2. bodies'[payload] = new /\ payload' = IF full THEN 0 ELSE payload
    BY <1>3, <1>5, <2>1, SinkFacts
  <2>3. full <=> Reaches(new.received, sent[payload].size)
    BY <1>6, <2>1
  <2> HIDE DEF body, new, full
  <2>4. QED
    BY <1>1, <1>2, <1>6, <2>1, <2>2, <2>3 DEF Fed
<1>8. /\ bodies' \in [Positions -> Bodies] /\ payload' \in {0, payload}
      /\ \A h \in Positions : h # payload => bodies'[h] = bodies[h]
  <2> HIDE DEF body, new, full
  <2>1. QED
    BY <1>3, <1>4, <1>5, <1>6, SinkFacts
<1> HIDE DEF body, new, full
<1>9. SinkTypeOK'
  <2>1. payload' \in {h \in 1..accepted' : sent'[h].kind = "blob"} \cup {0}
    BY <1>1, <1>2, <1>8, SinkFacts
  <2>2. accepted' \in Nat /\ accepted' + lost' <= Len(sent')
    BY <1>1, <1>2, SinkFacts
  <2>3. QED
    BY <1>1, <1>8, <2>1, <2>2 DEF SinkInv, SinkTypeOK
<1>10. (LossIsFinal /\ EndIsFinal)'
  BY <1>1, <1>2 DEF LossIsFinal, EndIsFinal
<1>11. FrameIsAccepted' /\ RoomWhileRunning' /\ DepthBounded'
  <2>1. consumer.frame <= accepted' /\ consumer.frame \in Nat
    BY <1>1, <1>2, SinkFacts DEF SinkInv, FrameIsAccepted, Positions
  <2>2. QED
    BY <1>1, <2>1 DEF SinkInv, FrameIsAccepted, RoomWhileRunning, DepthBounded
<1>12. NotYetOpened'
  BY <1>1, <1>2, <1>3, <1>8 DEF SinkInv, NotYetOpened
<1>13. FramesInOrder'
  <2>1. InOrder(sent, queue, accepted + 1, consumer.frame)
    BY <1>2, QueueInOrder, OthersKeepOrder, SinkFacts DEF Positions
  <2>2. QED
    BY <1>1, <1>2, <2>1, OrderOfQueue, SinkFacts
<1>14. BodiesHold'
  <2>1. SUFFICES ASSUME NEW h \in 1..(accepted + 1), sent[h].kind = "blob" PROVE BodyHolds(h)'
    BY <1>1, <1>2 DEF BodiesHold
  <2>2. h \in 1..accepted
    BY <1>2, <2>1
  <2>3. CASE payload = h
    BY <1>2, <1>7, <2>1, <2>2, <2>3, FedBodyHolds DEF IsHeader
  <2>4. CASE payload # h
    <3>1. bodies'[h] = bodies[h] /\ BodyHolds(h) /\ payload' # h /\ h \in Positions
      BY <1>8, <2>1, <2>2, <2>4, BodyFacts DEF SinkInv, BodiesHold
    <3>2. bodies'[h].state # "open"
      BY <2>4, <3>1 DEF BodyHolds
    <3>3. QED
      BY <1>1, <1>2, <2>1, <2>2, <2>4, <3>1, <3>2, ClosedBodyHolds
  <2>5. QED
    BY <2>3, <2>4
<1>15. QED
  BY <1>9, <1>10, <1>11, <1>12, <1>13, <1>14 DEF SinkInv

LEMMA WakeUpFacts ==
    ASSUME SinkInv, WakeUp \/ UNCHANGED consumer
    PROVE  /\ consumer' \in Consumers /\ consumer'.frame = consumer.frame
           /\ consumer'.pc = "busy" => consumer.pc = "busy"
           /\ consumer.frame <= accepted /\ consumer.frame \in Nat
           /\ consumer'.pc = "busy" => consumer'.frame # 0
<1>1. consumer \in Consumers /\ consumer.frame <= accepted /\ (consumer.pc = "busy" => consumer.frame # 0)
  BY SinkFacts DEF Consumers, SinkInv, FrameIsAccepted
<1>2. /\ consumer' \in Consumers /\ consumer'.frame = consumer.frame
      /\ consumer'.pc = "busy" => consumer.pc = "busy"
  BY <1>1 DEF WakeUp, Consumers
<1>3. QED
  BY <1>1, <1>2 DEF Consumers, Positions

\* A text message: the payload under way ends, and a frame is queued.  The
\* bodies are then as Closing leaves them, but for the state of a new one.
Headed(i) ==
    /\ sent' = sent /\ transport' = transport /\ lost' = lost
    /\ accepted' = i /\ queue' = Append(queue, i)
    /\ WakeUp
    /\ bodies' \in [Positions -> Bodies]
    /\ \A h \in Positions : h # i => bodies'[h] = Closing(bodies)[h]
    /\ bodies'[i].bytes = <<>> /\ bodies'[i].received = 0
    /\ \/ /\ sent[i].kind = "blob" /\ payload' = i /\ bodies'[i].state = "open"
          /\ UNCHANGED <<ended, pump>>
       \/ /\ sent[i].kind # "blob" /\ payload' = 0 /\ UNCHANGED <<ended, pump>>
       \/ /\ payload' = 0 /\ bodies'[i].state = "closed" /\ ended' = "error" /\ pump' = "stopped"

LEMMA HeadedKeepsInv ==
    ASSUME SinkInv, Hands, ~Jammed, NEW i \in Positions, i = NextMessage, IsHeader(i), Headed(i),
           pump' = "running" => Len(queue') <= Limit,
           Len(queue') <= IF transport = "stream" THEN Limit ELSE Limit + 1
    PROVE  SinkInv'
<1>1. /\ lost = 0 /\ i = accepted + 1 /\ i <= Len(sent) /\ pump = "running" /\ ended = "no"
      /\ accepted \in Nat /\ sent[i].kind # "bytes" /\ payload # i
  BY AcceptingFacts, SinkFacts DEF IsHeader
<1>2. /\ sent' = sent /\ transport' = transport /\ lost' = lost /\ accepted' = i /\ queue' = Append(queue, i)
      /\ WakeUp /\ bodies' \in [Positions -> Bodies] /\ bodies'[i].bytes = <<>> /\ bodies'[i].received = 0
      /\ \A h \in Positions : h # i => bodies'[h] = Closing(bodies)[h]
  BY DEF Headed
<1>3. /\ payload' \in {0, i} /\ (payload' = i => sent[i].kind = "blob" /\ bodies'[i].state = "open")
      /\ ended' \in {"no", "error"} /\ pump' \in {"running", "stopped"}
      /\ ended' = "error" => pump' = "stopped" /\ payload' = 0
  BY <1>1 DEF Headed
<1>4. sent[i].kind = "blob" /\ payload' # i => ended' # "no" /\ bodies'[i].state # "open"
  BY <1>1 DEF Headed
<1>5. /\ consumer' \in Consumers /\ consumer'.frame = consumer.frame
      /\ consumer.frame <= accepted /\ consumer.frame \in Nat
      /\ consumer'.pc = "busy" => consumer'.frame # 0
  BY <1>2, WakeUpFacts
<1>6. queue' \in Seq(Positions)
  BY <1>2, SinkFacts
<1>7. SinkTypeOK'
  <2>1. payload' \in {h \in 1..accepted' : sent'[h].kind = "blob"} \cup {0}
    BY <1>1, <1>2, <1>3
  <2>2. accepted' \in Nat /\ lost' \in Nat /\ accepted' + lost' <= Len(sent')
    BY <1>1, <1>2, SinkFacts
  <2>3. ended' \in {"no", "done", "error"}
    BY <1>3
  <2>4. QED
    BY <1>2, <1>3, <1>5, <1>6, <2>1, <2>2, <2>3 DEF SinkInv, SinkTypeOK, Consumers
<1>8. (LossIsFinal /\ EndIsFinal)'
  BY <1>1, <1>2, <1>3 DEF LossIsFinal, EndIsFinal
<1>9. FrameIsAccepted'
  BY <1>1, <1>2, <1>5 DEF FrameIsAccepted
<1>10. RoomWhileRunning' /\ DepthBounded'
  BY <1>2 DEF RoomWhileRunning, DepthBounded
<1>11. NotYetOpened'
  <2>1. SUFFICES ASSUME NEW h \in Positions, h > i PROVE bodies'[h] = NoBody
    BY <1>2 DEF NotYetOpened
  <2>2. h > accepted /\ h # payload /\ h # i
    BY <1>1, <2>1, SinkFacts DEF Positions
  <2>3. QED
    BY <1>2, <2>2, ClosingFacts DEF SinkInv, NotYetOpened
<1>12. FramesInOrder'
  <2>1. InOrder(sent, Append(queue, accepted + 1), accepted + 1, consumer.frame)
    BY <1>1, <1>5, QueueInOrder, AppendKeepsOrder, SinkFacts
  <2>2. QED
    BY <1>1, <1>2, <1>5, <1>6, <2>1, OrderOfQueue
<1>13. BodiesHold'
  <2>1. SUFFICES ASSUME NEW h \in 1..i, sent[h].kind = "blob" PROVE BodyHolds(h)'
    BY <1>2 DEF BodiesHold
  <2>2. CASE h = i
    BY <1>1, <1>2, <1>3, <1>4, <2>1, <2>2, NewBodyHolds
  <2>3. CASE h # i
    <3>1. h \in 1..accepted /\ h \in Positions /\ BodyHolds(h) /\ payload' # h
      BY <1>1, <1>3, <2>1, <2>3, BodyFacts DEF SinkInv, BodiesHold
    <3>2. bodies'[h].bytes = bodies[h].bytes /\ bodies'[h].received = bodies[h].received
      BY <1>2, <2>3, <3>1, ClosingFacts
    <3>3. bodies'[h].state # "open"
      <4>1. CASE payload = h
        BY <1>2, <2>3, <3>1, <4>1, BodyFacts, ClosingFacts
      <4>2. CASE payload # h
        BY <1>2, <2>3, <3>1, <4>2, ClosingFacts DEF BodyHolds
      <4>3. QED
        BY <4>1, <4>2
    <3>4. CASE payload = h
      BY <1>1, <1>2, <2>1, <3>1, <3>2, <3>3, <3>4, EndedBodyHolds
    <3>5. CASE payload # h
      BY <1>1, <1>2, <2>1, <3>1, <3>2, <3>3, <3>5, ClosedBodyHolds
    <3>6. QED
      BY <3>4, <3>5
  <2>4. QED
    BY <2>2, <2>3
<1>14. QED
  BY <1>7, <1>8, <1>9, <1>10, <1>11, <1>12, <1>13 DEF SinkInv

LEMMA HeadersKeepInv ==
    ASSUME SinkInv, GivesUp \/ (Takes /\ sent[NextMessage].kind # "bytes")
    PROVE  SinkInv'
<1> DEFINE i == NextMessage
<1>1. Hands /\ ~Jammed
  BY DEF GivesUp, Takes
<1>2. /\ i \in Positions /\ i = accepted + 1 /\ lost = 0 /\ Len(queue) <= Limit /\ Limit \in Nat
      /\ transport = "stream" => Len(queue) < Limit
      /\ bodies[i] = NoBody /\ payload # i
  BY <1>1, AcceptingFacts
<1>3. IsHeader(i)
  BY DEF GivesUp, IsHeader
<1>4. Closing(bodies) \in [Positions -> Bodies] /\ Closing(bodies)[i] = NoBody
  BY <1>2, ClosingFacts
<1>5. NoBody.bytes = <<>> /\ NoBody.received = 0 /\ NoBody.state = "closed"
  BY DEF NoBody
<1> HIDE DEF i
<1>6. CASE GivesUp
  <2>1. /\ Overflows(Append(queue, i)) /\ accepted' = i /\ queue' = Append(queue, i)
        /\ bodies' = Closing(bodies) /\ payload' = 0 /\ WakeUp /\ ended' = "error" /\ pump' = "stopped"
        /\ UNCHANGED <<transport, sent, lost>>
    BY <1>6 DEF GivesUp, i
  <2>2. Headed(i)
    BY <1>4, <1>5, <2>1 DEF Headed
  <2>3. transport # "stream" /\ Len(queue') <= Limit + 1
    BY <1>2, <2>1, SinkFacts DEF Overflows
  <2>4. QED
    BY <1>1, <1>2, <1>3, <2>1, <2>2, <2>3, HeadedKeepsInv DEF i
<1>7. CASE Takes /\ sent[i].kind # "bytes"
  <2>1. /\ accepted' = i /\ lost' = lost /\ Heads(i) /\ WakeUp /\ ~Overflows(queue')
        /\ UNCHANGED <<transport, sent, pump, ended>>
    BY <1>7 DEF Takes, Accept, i
  <2>2. /\ queue' = Append(queue, i) /\ payload' = IF sent[i].kind = "blob" THEN i ELSE 0
        /\ bodies' = IF sent[i].kind = "blob" THEN [Closing(bodies) EXCEPT ![i].state = "open"]
                     ELSE Closing(bodies)
    BY <2>1 DEF Heads
  <2>3. /\ bodies' \in [Positions -> Bodies] /\ bodies'[i].bytes = <<>> /\ bodies'[i].received = 0
        /\ \A h \in Positions : h # i => bodies'[h] = Closing(bodies)[h]
        /\ sent[i].kind = "blob" => bodies'[i].state = "open"
    <3>1. CASE sent[i].kind = "blob"
      <4>1. bodies' = [Closing(bodies) EXCEPT ![i].state = "open"]
        BY <2>2, <3>1
      <4>2. [NoBody EXCEPT !.state = "open"] \in Bodies
        BY <1>4, <1>5, <1>2 DEF Bodies
      <4>3. bodies'[i] = [NoBody EXCEPT !.state = "open"]
        BY <1>2, <1>4, <4>1
      <4>4. bodies'[i].bytes = <<>> /\ bodies'[i].received = 0 /\ bodies'[i].state = "open"
        BY <4>3 DEF NoBody
      <4>5. bodies' \in [Positions -> Bodies] /\ \A h \in Positions : h # i => bodies'[h] = Closing(bodies)[h]
        BY <1>2, <1>4, <4>1, <4>2, <4>3
      <4>6. QED
        BY <4>4, <4>5
    <3>2. CASE sent[i].kind # "blob"
      BY <1>4, <1>5, <2>2, <3>2
    <3>3. QED
      BY <3>1, <3>2
  <2>4. Headed(i)
    BY <2>1, <2>2, <2>3 DEF Headed
  <2>5. Len(queue') = Len(queue) + 1 /\ Len(queue) \in Nat
    BY <1>2, <2>2, SinkFacts, AppendProperties
  <2>6. Len(queue') <= Limit
    BY <1>2, <2>1, <2>5, SinkFacts DEF Overflows
  <2>7. QED
    BY <1>1, <1>2, <1>3, <2>4, <2>6, HeadedKeepsInv DEF i
<1>8. QED
  BY <1>6, <1>7 DEF i

\* The pump ends the sink, or drops a message behind a cancelled body.
LEMMA EndKeepsInv ==
    ASSUME SinkInv, NEW reason \in {"done", "error"}, End(reason), pump' = "stopped",
           UNCHANGED <<transport, sent, accepted, queue>>,
           lost' \in Nat, accepted + lost' <= Len(sent), lost' > 0 => Jammed
    PROVE  SinkInv'
<1>1. ended' \in {"no", "done", "error"} /\ ended' # "no"
  BY SinkFacts DEF End
<1>2. /\ consumer' \in Consumers /\ consumer'.frame = consumer.frame
      /\ consumer.frame <= accepted
      /\ consumer'.pc = "busy" => consumer'.frame # 0
  <2>1. WakeUp \/ UNCHANGED consumer
    BY DEF End
  <2>2. QED
    BY <2>1, WakeUpFacts
<1>3. CASE Jammed
  <2>1. UNCHANGED <<payload, bodies, consumer>>
    BY <1>3 DEF End
  <2>2. SinkTypeOK'
    BY <1>1, <2>1 DEF SinkInv, SinkTypeOK
  <2>3. (LossIsFinal /\ EndIsFinal /\ FrameIsAccepted /\ NotYetOpened)'
    BY <1>3, <2>1 DEF SinkInv, LossIsFinal, EndIsFinal, FrameIsAccepted, NotYetOpened, Jammed
  <2>4. (RoomWhileRunning /\ FramesInOrder /\ DepthBounded)'
    BY <2>1 DEF SinkInv, RoomWhileRunning, FramesInOrder, DepthBounded, IsHeader
  <2>5. BodiesHold'
    <3>1. SUFFICES ASSUME NEW h \in 1..accepted, sent[h].kind = "blob" PROVE BodyHolds(h)'
      BY DEF BodiesHold
    <3>2. BodyHolds(h) /\ h # 0
      BY <3>1, BodyFacts DEF SinkInv, BodiesHold
    <3>3. payload = h => bodies[h].state # "closed"
      BY <3>2 DEF BodyHolds
    <3>4. payload # h => bodies[h].state # "open"
      BY <3>2 DEF BodyHolds
    <3>5. QED
      BY <1>1, <2>1, <3>1, <3>3, <3>4, SinkFacts, OpenBodyHolds, ClosedBodyHolds
  <2>6. QED
    BY <2>2, <2>3, <2>4, <2>5 DEF SinkInv
<1>4. CASE ~Jammed
  <2>1. bodies' = Closing(bodies) /\ payload' = 0 /\ lost' = 0
    BY <1>4 DEF End
  <2>2. bodies' \in [Positions -> Bodies]
    BY <2>1, ClosingFacts
  <2>3. SinkTypeOK'
    <3>1. payload' \in {h \in 1..accepted' : sent'[h].kind = "blob"} \cup {0}
      BY <2>1
    <3>2. lost' \in Nat /\ accepted' + lost' <= Len(sent')
      OBVIOUS
    <3>3. QED
      BY <1>1, <1>2, <2>2, <3>1, <3>2 DEF SinkInv, SinkTypeOK, Consumers
  <2>4. (LossIsFinal /\ EndIsFinal /\ FrameIsAccepted)'
    BY <1>2, <2>1 DEF LossIsFinal, EndIsFinal, FrameIsAccepted
  <2>5. NotYetOpened'
    <3>1. SUFFICES ASSUME NEW h \in Positions, h > accepted PROVE bodies'[h] = NoBody
      BY DEF NotYetOpened
    <3>2. h # payload
      BY <3>1, SinkFacts DEF Positions
    <3>3. QED
      BY <2>1, <3>1, <3>2, ClosingFacts DEF SinkInv, NotYetOpened
  <2>6. (RoomWhileRunning /\ FramesInOrder /\ DepthBounded)'
    BY <1>2 DEF SinkInv, RoomWhileRunning, FramesInOrder, DepthBounded, IsHeader
  <2>7. BodiesHold'
    <3>1. SUFFICES ASSUME NEW h \in 1..accepted, sent[h].kind = "blob" PROVE BodyHolds(h)'
      BY DEF BodiesHold
    <3>2. BodyHolds(h) /\ h # 0 /\ h \in Positions /\ payload' # h
      BY <2>1, <3>1, BodyFacts DEF SinkInv, BodiesHold
    <3>3. bodies'[h].bytes = bodies[h].bytes /\ bodies'[h].received = bodies[h].received
      BY <2>1, <3>2, ClosingFacts
    <3>4. CASE payload = h
      <4>1. bodies'[h].state = "closed"
        BY <2>1, <3>2, <3>4, ClosingFacts
      <4>2. QED
        BY <1>1, <3>1, <3>2, <3>3, <3>4, <4>1, SinkFacts, EndedBodyHolds
    <3>5. CASE payload # h
      <4>1. bodies'[h].state # "open"
        BY <2>1, <3>2, <3>5, ClosingFacts DEF BodyHolds
      <4>2. QED
        BY <1>1, <3>1, <3>2, <3>3, <3>5, <4>1, SinkFacts, ClosedBodyHolds
    <3>6. QED
      BY <3>4, <3>5
  <2>8. QED
    BY <2>3, <2>4, <2>5, <2>6, <2>7 DEF SinkInv
<1>5. QED
  BY <1>3, <1>4

LEMMA EndingsKeepInv == ASSUME SinkInv, Throws \/ SocketEnds PROVE SinkInv'
<1>1. CASE SocketEnds
  <2>1. PICK reason \in {"done", "error"} : End(reason)
    BY <1>1 DEF SocketEnds
  <2>2. pump' = "stopped" /\ lost' = lost /\ UNCHANGED <<transport, sent, accepted, queue>>
    BY <1>1 DEF SocketEnds
  <2>3. lost' \in Nat /\ accepted + lost' <= Len(sent) /\ (lost' > 0 => Jammed)
    BY <2>2, SinkFacts DEF SinkInv, LossIsFinal
  <2>4. QED
    BY <2>1, <2>2, <2>3, EndKeepsInv
<1>2. CASE Throws
  <2>1. /\ Jammed /\ lost' = lost + 1 /\ NextMessage <= Len(sent)
        /\ UNCHANGED <<transport, sent, accepted, queue>>
    BY <1>2 DEF Throws, Hands
  <2>2. lost' \in Nat /\ accepted + lost' <= Len(sent)
    BY <2>1, SinkFacts DEF NextMessage
  <2>3. CASE transport = "stream"
    BY <1>2, <2>1, <2>2, <2>3, EndKeepsInv DEF Throws
  <2>4. CASE transport # "stream"
    <3>1. UNCHANGED <<payload, bodies, ended, consumer, pump>>
      BY <1>2, <2>4 DEF Throws
    <3>2. SinkTypeOK'
      BY <2>1, <2>2, <3>1 DEF SinkInv, SinkTypeOK
    <3>3. (LossIsFinal /\ EndIsFinal /\ FrameIsAccepted /\ NotYetOpened)'
      BY <2>1, <3>1 DEF SinkInv, LossIsFinal, EndIsFinal, FrameIsAccepted, NotYetOpened, Jammed
    <3>4. (RoomWhileRunning /\ FramesInOrder /\ DepthBounded)'
      BY <2>1, <3>1 DEF SinkInv, RoomWhileRunning, FramesInOrder, DepthBounded, IsHeader
    <3>5. BodiesHold'
      BY <2>1, <3>1 DEF SinkInv, BodiesHold, BodyHolds, IsHeader
    <3>6. QED
      BY <3>2, <3>3, <3>4, <3>5 DEF SinkInv
  <2>5. QED
    BY <2>3, <2>4
<1>3. QED
  BY <1>1, <1>2

-----------------------------------------------------------------------------
(* The theorems. *)

LEMMA SinkInitInv == SinkInit => SinkInv
<1> SUFFICES ASSUME SinkInit PROVE SinkInv
  OBVIOUS
<1>1. /\ accepted = 0 /\ lost = 0 /\ pump = "running" /\ queue = <<>> /\ payload = 0
      /\ bodies = [i \in Positions |-> NoBody] /\ ended = "no" /\ consumer = [pc |-> "next", frame |-> 0]
      /\ transport \in {"stream", "plain"}
  BY DEF SinkInit
<1>2. sent \in Seq(Messages) /\ Len(sent) \in Nat /\ Len(sent) <= MaxMessages
  <2>1. PICK n \in 0..MaxMessages : sent \in [1..n -> Messages]
    BY DEF SinkInit
  <2>2. QED
    BY <2>1, SinkAssumption
<1>3. NoBody \in Bodies
  BY EmptySeq DEF NoBody, Bodies
<1>4. SinkTypeOK
  <2>1. queue \in Seq(Positions) /\ Len(queue) = 0
    BY <1>1, EmptySeq
  <2>2. consumer \in [pc : {"next", "parked", "busy", "over", "left"}, frame : Positions \cup {0}]
    BY <1>1
  <2>3. bodies \in [Positions -> Bodies]
    BY <1>1, <1>3
  <2>4. accepted \in Nat /\ lost \in Nat /\ accepted + lost <= Len(sent)
    BY <1>1, <1>2
  <2>5. QED
    BY <1>1, <1>2, <2>1, <2>2, <2>3, <2>4 DEF SinkTypeOK
<1>5. LossIsFinal /\ EndIsFinal /\ FrameIsAccepted
  BY <1>1 DEF LossIsFinal, EndIsFinal, FrameIsAccepted
<1>6. RoomWhileRunning /\ DepthBounded
  BY <1>1, SinkAssumption DEF RoomWhileRunning, DepthBounded
<1>7. NotYetOpened
  BY <1>1 DEF NotYetOpened
<1>8. FramesInOrder
  <2>1. Range(queue) = {}
    BY <1>1 DEF Range
  <2>2. 1..accepted = {} /\ 1..Len(queue) = {}
    BY <1>1
  <2>3. QED
    BY <2>1, <2>2 DEF FramesInOrder
<1>9. BodiesHold
  BY <1>1 DEF BodiesHold
<1>10. QED
  BY <1>4, <1>5, <1>6, <1>7, <1>8, <1>9 DEF SinkInv

LEMMA SinkStepInv == SinkInv /\ [SinkNext]_sinkVars => SinkInv'
<1> SUFFICES ASSUME SinkInv, [SinkNext]_sinkVars PROVE SinkInv'
  OBVIOUS
<1>1. CASE Takes
  BY <1>1, FeedsKeepsInv, HeadersKeepInv
<1>2. CASE GivesUp
  BY <1>2, HeadersKeepInv
<1>3. CASE Throws \/ SocketEnds
  BY <1>3, EndingsKeepInv
<1>4. CASE TakesFrame \/ FindsNone \/ Finishes \/ Leaves
  BY <1>4, LoopKeepsInv
<1>5. CASE Cancels
  BY <1>5, CancelsKeepsInv
<1>6. CASE UNCHANGED sinkVars
  <2>1. UNCHANGED <<transport, sent, accepted, lost, pump, queue, payload, bodies, ended, consumer>>
    BY <1>6 DEF sinkVars
  <2>2. /\ consumer' \in Consumers /\ consumer'.frame <= accepted
        /\ consumer'.pc = "busy" => consumer'.frame # 0
    BY <2>1, WakeUpFacts
  <2>3. queue' \in Seq(Positions) /\ Len(queue') <= Len(queue)
    BY <2>1, SinkFacts
  <2>4. QED
    BY <2>1, <2>2, <2>3, QueueInOrder, LoopMoves
<1>7. QED
  BY <1>1, <1>2, <1>3, <1>4, <1>5, <1>6 DEF SinkNext

(* What carries the proofs below, and the types, hold in every state.      *)
THEOREM SinkIsInvariant == SinkSpec => []SinkInv
<1>1. SinkInit => SinkInv
  BY SinkInitInv
<1>2. SinkInv /\ [SinkNext]_sinkVars => SinkInv'
  BY SinkStepInv
<1>3. QED
  BY <1>1, <1>2, PTL DEF SinkSpec

(* The types of the sink's state. *)
THEOREM SinkTypes == SinkSpec => []SinkTypeOK
<1>1. SinkInv => SinkTypeOK
  BY DEF SinkInv
<1>2. QED
  BY <1>1, SinkIsInvariant, PTL

(* The loop takes the frames of a connection one by one in the order of    *)
(* the socket: none is skipped, repeated or overtaken.                     *)
THEOREM FramesComeInOrder == SinkSpec => []FramesInOrder
<1>1. SinkInv => FramesInOrder
  BY DEF SinkInv
<1>2. QED
  BY <1>1, SinkIsInvariant, PTL

(* A body holds the messages of its own payload as far as the one that     *)
(* completes it, and is open until that one, another header or the end of  *)
(* the socket; an empty payload is only seen to be complete when a message *)
(* comes, and takes that one.                                              *)
THEOREM EachBodyIsItsOwn == SinkSpec => []BodyIsItsOwn
<1>1. SinkInv => BodyIsItsOwn
  BY BodiesAreTheirOwn
<1>2. QED
  BY <1>1, SinkIsInvariant, PTL

(* The frames that wait for the loop are bounded, whatever the server      *)
(* sends and however slow the loop is.                                     *)
THEOREM DepthIsBounded == SinkSpec => []DepthBounded
<1>1. SinkInv => DepthBounded
  BY DEF SinkInv
<1>2. QED
  BY <1>1, SinkIsInvariant, PTL
=============================================================================
