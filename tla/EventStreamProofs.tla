-------------------------- MODULE EventStreamProofs --------------------------
(***************************************************************************)
(* Proofs about EventStream: whatever the number of tabs and appends, the  *)
(* retention windows, the high water mark, the page size and the faults,   *)
(* no event the log retains is skipped, and a tab sees the feed of module  *)
(* Feed.                                                                   *)
(*                                                                         *)
(* The argument is about one stream at a time: Good says how the frames of *)
(* a stream relate to its tab's cursor and to the log, a lemma per         *)
(* operator on streams shows that it is kept, and the steps of the         *)
(* specification are then instances of these lemmas.                       *)
(***************************************************************************)
EXTENDS EventStream, FiniteSetTheorems, TLAPS

(***************************************************************************)
(* GapFree and BelowFloorGone are not inductive alone: a trim commits a    *)
(* floor it computed from an old head.  What makes it harmless is that the *)
(* head only grows, so a floor read earlier is still behind the window of  *)
(* the newest PanicRetention events.                                       *)
(***************************************************************************)

\* The newest event is retained, so the head read is the last id given.
NewestKept == nextId > 1 => nextId - 1 \in events

TrimsBehindHead ==
    \A p \in Callers : At(p, "trimming") => trimTo[p] < nextId - PanicRetention

FloorBehindHead == floor < nextId

LogInv ==
    /\ LogTypeOK
    /\ GapFree
    /\ RecentKept
    /\ BelowFloorGone
    /\ NewestKept
    /\ TrimsBehindHead
    /\ FloorBehindHead

(* The greatest element of a set of numbers is what api.head reads. *)
LEMMA GreatestIsChosen ==
    ASSUME NEW S, S \subseteq Nat, NEW m \in S, \A j \in S : j <= m
    PROVE  (CHOOSE i \in S : \A j \in S : j <= i) = m
<1>1. \A i \in S : (\A j \in S : j <= i) => i = m
  OBVIOUS
<1> QED
  BY <1>1

(* The windows as the steps use them. *)
LEMMA KeepInWindow ==
    ASSUME NEW p \in Callers
    PROVE  Keep(p) \in Nat /\ Keep(p) >= PanicRetention /\ PanicRetention >= 1
  BY LogAssumption DEF Keep

(* api.head returns the last id given, or 0 before the first append. *)
LEMMA HeadIsNewest ==
    ASSUME LogInv
    PROVE  LogHead = nextId - 1
<1>1. PICK lo \in 1..nextId : events = lo..(nextId - 1)
  BY DEF LogInv, GapFree
<1>2. nextId \in Nat /\ nextId >= 1
  BY DEF LogInv, LogTypeOK, Ids
<1>3. CASE events = {}
  <2>1. nextId = 1
    BY <1>2, <1>3 DEF LogInv, NewestKept
  <2> QED
    BY <1>3, <2>1 DEF LogHead
<1>4. CASE events # {}
  <2>1. nextId - 1 \in events /\ events \subseteq Nat /\ \A j \in events : j <= nextId - 1
    BY <1>1, <1>2, <1>4
  <2>2. (CHOOSE i \in events : \A j \in events : j <= i) = nextId - 1
    BY <2>1, GreatestIsChosen
  <2> QED
    BY <2>2, <1>4 DEF LogHead
<1> QED
  BY <1>3, <1>4

-----------------------------------------------------------------------------
(* One kind of step at a time.                                             *)

(* The committed add, whoever calls it and whatever else the step does to  *)
(* the callers that are not trimming.                                      *)
LEMMA CommitKeepsInv ==
    ASSUME LogInv, Commit, pc' \in [Callers -> Positions],
           \A p \in Callers : pc'[p] = "trimming" => pc[p] = "trimming"
    PROVE  LogInv'
<1> USE DEF LogInv
<1>1. PICK lo \in 1..nextId : events = lo..(nextId - 1)
  BY DEF GapFree
<1>2. nextId \in Nat /\ nextId >= 1 /\ nextId' = nextId + 1
  BY DEF LogTypeOK, Ids, Commit
<1>3. LogTypeOK'
  BY <1>2 DEF LogTypeOK, Commit, Ids
<1>4. GapFree'
  <2>1. events' = lo..nextId /\ lo \in 1..(nextId + 1)
    BY <1>1, <1>2 DEF Commit
  <2> QED
    BY <2>1, <1>2 DEF GapFree
<1>5. RecentKept' /\ NewestKept'
  BY <1>2, LogAssumption DEF RecentKept, NewestKept, Commit, Ids
<1>6. BelowFloorGone' /\ FloorBehindHead'
  BY <1>2 DEF BelowFloorGone, FloorBehindHead, Commit, LogTypeOK
<1>7. TrimsBehindHead'
  <2> SUFFICES ASSUME NEW p \in Callers, pc'[p] = "trimming"
               PROVE  trimTo'[p] < nextId' - PanicRetention
    BY DEF TrimsBehindHead, At
  <2>1. trimTo[p] \in Nat /\ trimTo[p] < nextId - PanicRetention
    BY DEF TrimsBehindHead, At, LogTypeOK
  <2> QED
    BY <2>1, <1>2, LogAssumption DEF Commit
<1> QED
  BY <1>3, <1>4, <1>5, <1>6, <1>7

(* A step that leaves the stores alone and starts no trim. *)
LEMMA QuietStepKeepsInv ==
    ASSUME LogInv, UNCHANGED <<events, nextId, floor, trimTo>>,
           pc' \in [Callers -> Positions],
           \A p \in Callers : pc'[p] = "trimming" => pc[p] = "trimming"
    PROVE  LogInv'
  BY DEF LogInv, LogTypeOK, GapFree, RecentKept, BelowFloorGone, NewestKept,
         TrimsBehindHead, FloorBehindHead, At

(* A trim that has read the head. *)
LEMMA TrimReadsHeadKeepsInv ==
    ASSUME LogInv, NEW p \in Callers, TrimReadsHead(p)
    PROVE  LogInv'
<1>1. LogHead = nextId - 1 /\ nextId \in Nat
  BY HeadIsNewest DEF LogInv, LogTypeOK, Ids
<1>2. Keep(p) \in Nat /\ Keep(p) >= PanicRetention /\ PanicRetention >= 1
  BY KeepInWindow
<1>3. UNCHANGED <<events, nextId, floor>>
  BY DEF TrimReadsHead
<1>4. LogTypeOK'
  BY <1>1, <1>2 DEF LogInv, LogTypeOK, TrimReadsHead, GoTo, Positions
<1>5. TrimsBehindHead'
  <2> SUFFICES ASSUME NEW q \in Callers, pc'[q] = "trimming"
               PROVE  trimTo'[q] < nextId' - PanicRetention
    BY DEF TrimsBehindHead, At
  <2>1. CASE q = p
    <3>1. trimTo'[p] = LogHead - Keep(p)
      BY DEF TrimReadsHead, LogInv, LogTypeOK
    <3> QED
      BY <1>1, <1>2, <1>3, <2>1, <3>1, LogAssumption
  <2>2. CASE q # p
    BY <2>2, <1>3 DEF LogInv, LogTypeOK, TrimReadsHead, TrimsBehindHead, At, GoTo
  <2> QED
    BY <2>1, <2>2
<1> QED
  BY <1>3, <1>4, <1>5
     DEF LogInv, GapFree, RecentKept, BelowFloorGone, NewestKept, FloorBehindHead

(* A trim that deletes, however old the head it read. *)
LEMMA TrimCommitsKeepsInv ==
    ASSUME LogInv, NEW p \in Callers, TrimCommits(p)
    PROVE  LogInv'
<1> USE DEF LogInv
<1>1. PICK lo \in 1..nextId : events = lo..(nextId - 1)
  BY DEF GapFree
<1>2. nextId \in Nat /\ nextId >= 1 /\ PanicRetention \in Nat /\ PanicRetention >= 1
  BY LogAssumption DEF LogTypeOK, Ids
<1>3. trimTo[p] \in Nat /\ trimTo[p] < nextId - PanicRetention
  BY DEF TrimCommits, TrimsBehindHead, LogTypeOK, At
<1>4. /\ events' = {i \in events : i > trimTo[p]}
      /\ floor' = trimTo[p]
      /\ nextId' = nextId
      /\ trimTo' = trimTo
  BY DEF TrimCommits
<1>5. pc' \in [Callers -> Positions] /\ \A q \in Callers : pc'[q] = "trimming" => pc[q] = "trimming"
  BY DEF TrimCommits, GoTo, AfterTrim, LogTypeOK, Positions
<1>6. LogTypeOK'
  BY <1>3, <1>4, <1>5 DEF LogTypeOK
<1>7. GapFree'
  <2>1. CASE lo > trimTo[p]
    <3>1. events' = lo..(nextId - 1)
      BY <1>1, <1>2, <1>3, <1>4, <2>1
    <3> QED
      BY <3>1, <1>4 DEF GapFree
  <2>2. CASE ~(lo > trimTo[p])
    <3>1. events' = (trimTo[p] + 1)..(nextId - 1) /\ trimTo[p] + 1 \in 1..nextId
      BY <1>1, <1>2, <1>3, <1>4, <2>2
    <3> QED
      BY <3>1, <1>4 DEF GapFree
  <2> QED
    BY <2>1, <2>2
<1>8. RecentKept' /\ NewestKept'
  BY <1>2, <1>3, <1>4 DEF RecentKept, NewestKept, Ids
<1>9. BelowFloorGone' /\ FloorBehindHead'
  BY <1>2, <1>3, <1>4 DEF BelowFloorGone, FloorBehindHead
<1>10. TrimsBehindHead'
  BY <1>4, <1>5 DEF TrimsBehindHead, At
<1> QED
  BY <1>6, <1>7, <1>8, <1>9, <1>10

-----------------------------------------------------------------------------
(* The empty log of a fresh origin satisfies the inductive invariant. *)
LEMMA LogInitInv == LogInit => LogInv
<1> SUFFICES ASSUME LogInit PROVE LogInv
  OBVIOUS
<1>1. events = 1..(nextId - 1) /\ nextId = 1
  BY DEF LogInit
<1>2. GapFree
  BY <1>1 DEF GapFree
<1> QED
  BY <1>1, <1>2, LogAssumption
     DEF LogInit, LogInv, LogTypeOK, RecentKept, BelowFloorGone, NewestKept,
         TrimsBehindHead, FloorBehindHead, Positions, Ids, At

(* Every step of the log preserves it. *)
LEMMA LogNextInv == LogInv /\ [LogNext]_logVars => LogInv'
<1> SUFFICES ASSUME LogInv, [LogNext]_logVars
             PROVE  LogInv'
  OBVIOUS
<1> USE DEF GoTo, Positions
<1>0. pc \in [Callers -> Positions] /\ Writers \subseteq Callers
  BY DEF LogInv, LogTypeOK, Callers
<1>1. ASSUME NEW w \in Writers, LogAppend(w) PROVE LogInv'
  BY <1>0, <1>1, CommitKeepsInv DEF LogAppend
<1>2. ASSUME NEW w \in Writers, Retry(w) PROVE LogInv'
  BY <1>0, <1>2, CommitKeepsInv DEF Retry
<1>3. ASSUME NEW w \in Writers, QuotaHit(w) \/ NoteFails(w) \/ RetryFails(w)
      PROVE  LogInv'
  BY <1>0, <1>3, QuietStepKeepsInv DEF QuotaHit, NoteFails, RetryFails
<1>4. ASSUME NEW p \in Callers, Trims(p) PROVE LogInv'
  <2>1. CASE TrimReadsHead(p)
    BY <2>1, TrimReadsHeadKeepsInv
  <2>2. CASE TrimCommits(p)
    BY <2>2, TrimCommitsKeepsInv
  <2>3. CASE TrimHasNothing(p) \/ TrimAborts(p)
    BY <1>0, <2>3, QuietStepKeepsInv DEF TrimHasNothing, TrimAborts, AfterTrim
  <2> QED
    BY <1>4, <2>1, <2>2, <2>3 DEF Trims
<1>5. CASE WorkerKilled
  BY <1>5, QuietStepKeepsInv DEF WorkerKilled
<1>6. CASE UNCHANGED logVars
  BY <1>0, <1>6, QuietStepKeepsInv DEF logVars
<1> QED
  BY <1>1, <1>2, <1>3, <1>4, <1>5, <1>6 DEF LogNext

(* The log is well-formed in every reachable state. *)
THEOREM LogInvariant == LogSpec => []LogInv
  BY LogInitInv, LogNextInv, PTL DEF LogSpec

(* Type correctness of the log and its callers (log.js 106-232). *)
THEOREM LogTypeCorrect == LogSpec => []LogTypeOK
<1>1. LogInv => LogTypeOK
  BY DEF LogInv
<1> QED
  BY <1>1, LogInvariant, PTL

(* Retained ids form one interval ending at the last id given: a replay    *)
(* that reads a page has no hole to fall into (log.js 152-163, 221-232).   *)
THEOREM LogIsGapFree == LogSpec => []GapFree
<1>1. LogInv => GapFree
  BY DEF LogInv
<1> QED
  BY <1>1, LogInvariant, PTL

(* No interleaving of trims reaches into the newest PanicRetention events. *)
THEOREM LogKeepsRecent == LogSpec => []RecentKept
<1>1. LogInv => RecentKept
  BY DEF LogInv
<1> QED
  BY <1>1, LogInvariant, PTL

(* The floor that /api/status reports is below every retained event. *)
THEOREM LogFloorIsBelow == LogSpec => []BelowFloorGone
<1>1. LogInv => BelowFloorGone
  BY DEF LogInv
<1> QED
  BY <1>1, LogInvariant, PTL

-----------------------------------------------------------------------------

InPipe(k, i) == \E m \in 1..Len(k.pipe) : k.pipe[m] = i

\* Up to the first lagged frame: new to the tab, increasing, ...
Ordered(k, cur, next) ==
    \A n \in 1..Len(k.pipe) : Unbroken(k, n) =>
        /\ cur < k.pipe[n] /\ k.pipe[n] < next
        /\ \A m \in 1..(n - 1) : k.pipe[m] < k.pipe[n]

\* ... and with every retained event on the way.
Covers(k, cur, log) ==
    \A n \in 1..Len(k.pipe) : Unbroken(k, n) =>
        \A i \in log : cur < i /\ i <= k.pipe[n] => \E m \in 1..n : k.pipe[m] = i

\* Nothing replay still has to emit is as old as x.
Behind(k, x) ==
    \/ x <= k.last
    \/ k.page = {} /\ ~k.more /\ \A i \in k.buffered : x < i

\* A page is the front of what the log has beyond `last`.
PageIsFront(k, log, next) ==
    \A i \in k.page :
        /\ k.last < i /\ i < next
        /\ \A j \in log : k.last < j /\ j <= i => j \in k.page

Replaying(k, cur, log, next) ==
    /\ ~k.lagging
    /\ Unbroken(k, Len(k.pipe))
    /\ k.last < next
    /\ Behind(k, cur)
    /\ \A m \in 1..Len(k.pipe) : Behind(k, k.pipe[m])
    /\ \A i \in log : cur < i /\ i <= k.last => InPipe(k, i)
    /\ PageIsFront(k, log, next)
    /\ \A i \in k.buffered : i < next
    /\ ~k.more => \A i \in log : i > k.last /\ i > cur =>
                      i \in k.page \/ i \in k.buffered \/ InPipe(k, i)

\* Live, either everything beyond the cursor is on its way or a lagged frame is.
Tailing(k, cur, log) ==
    /\ k.lagging => ~Unbroken(k, Len(k.pipe))
    /\ Unbroken(k, Len(k.pipe)) => \A i \in log : i > cur => InPipe(k, i)

Good(k, cur, log, next) ==
    /\ k \in Streams
    /\ cur < next
    /\ k.pulled <= Len(k.pipe)
    /\ Ordered(k, cur, next)
    /\ Covers(k, cur, log)
    /\ k.phase = "replay" => Replaying(k, cur, log, next)
    /\ k.phase = "live" => Tailing(k, cur, log)

StreamInv ==
    /\ LogInv
    /\ StreamTypeOK
    /\ \A c \in Clients : Good(conn[c], cursor[c], events, nextId)
    /\ NoGap

-----------------------------------------------------------------------------
(* What the operators do to the frames. *)
LEMMA EmitFacts ==
    ASSUME NEW k \in Streams, NEW x \in Nat
    PROVE  /\ Emit(k, x).pipe \in Seq(Nat)
           /\ Len(Emit(k, x).pipe) = Len(k.pipe) + 1
           /\ Len(k.pipe) \in Nat
           /\ \A m \in 1..Len(k.pipe) : k.pipe[m] \in Nat /\ Emit(k, x).pipe[m] = k.pipe[m]
           /\ Emit(k, x).pipe[Len(k.pipe) + 1] = x
<1>1. k.pipe \in Seq(Nat) /\ Emit(k, x).pipe = Append(k.pipe, x)
  BY DEF Streams, Emit
<1> QED
  BY <1>1

(* Opening: nothing is on its way, nothing is behind. *)
LEMMA NoStreamFacts ==
    /\ NoStream \in Streams /\ NoStream.pipe = <<>> /\ Len(NoStream.pipe) = 0
    /\ NoStream.phase = "none" /\ NoStream.pulled = 0
<1>1. <<>> \in Seq(Nat) /\ Len(<<>>) = 0
  OBVIOUS
<1>2. NoStream \in Streams
  BY <1>1 DEF NoStream, Streams
<1> QED
  BY <1>1, <1>2 DEF NoStream

LEMMA NoStreamGood ==
    ASSUME NEW cur \in Nat, NEW log, NEW next \in Nat, cur < next
    PROVE  Good(NoStream, cur, log, next)
  BY NoStreamFacts DEF Good, Ordered, Covers

LEMMA OpenedFacts ==
    ASSUME NEW cur \in Nat
    PROVE  LET k == Opened(cur) IN
           /\ k \in Streams /\ k.pipe = <<>> /\ k.phase = "replay" /\ k.pulled = 0
           /\ Len(k.pipe) = 0 /\ k.last = cur /\ k.page = {} /\ k.more
           /\ k.buffered = {} /\ ~k.lagging
<1>1. <<>> \in Seq(Nat) /\ Len(<<>>) = 0
  OBVIOUS
<1>2. Opened(cur) \in Streams
  BY <1>1 DEF Opened, Streams
<1> QED
  BY <1>1, <1>2 DEF Opened

LEMMA OpenedGood ==
    ASSUME NEW cur \in Nat, NEW log \in SUBSET Nat, NEW next \in Nat, cur < next
    PROVE  Good(Opened(cur), cur, log, next)
<1>1. Replaying(Opened(cur), cur, log, next)
  BY OpenedFacts DEF Replaying, Unbroken, Behind, PageIsFront
<1> QED
  BY <1>1, OpenedFacts DEF Good, Ordered, Covers

-----------------------------------------------------------------------------
(* An operator on a stream is described by the fields it changes. *)
LEMMA EmitIsStream ==
    ASSUME NEW k \in Streams, NEW x \in Nat
    PROVE  /\ Emit(k, x) \in Streams
           /\ Emit(k, x).pipe = Append(k.pipe, x)
           /\ Emit(k, x).phase = k.phase /\ Emit(k, x).last = k.last
           /\ Emit(k, x).page = k.page /\ Emit(k, x).more = k.more
           /\ Emit(k, x).buffered = k.buffered /\ Emit(k, x).pulled = k.pulled
           /\ Emit(k, x).lagging = k.lagging
<1>1. Append(k.pipe, x) \in Seq(Nat)
  BY DEF Streams
<1> QED
  BY <1>1 DEF Emit, Streams

LEMMA RowEmittedFacts ==
    ASSUME NEW k \in Streams, NEW id \in Nat
    PROVE  LET e == RowEmitted(k, id) IN
           /\ e \in Streams
           /\ e.pipe = Append(k.pipe, id) /\ e.page = k.page \ {id} /\ e.last = id
           /\ e.phase = k.phase /\ e.more = k.more /\ e.buffered = k.buffered
           /\ e.pulled = k.pulled /\ e.lagging = k.lagging
<1>1. PICK e \in Streams : e = Emit(k, id)
  BY EmitIsStream
<1>2. RowEmitted(k, id) = [e EXCEPT !.page = @ \ {id}, !.last = id]
  BY <1>1 DEF RowEmitted
<1>3. [e EXCEPT !.page = @ \ {id}, !.last = id] \in Streams
  BY DEF Streams
<1>4. LET f == [e EXCEPT !.page = @ \ {id}, !.last = id] IN
      /\ f.pipe = e.pipe /\ f.page = e.page \ {id} /\ f.last = id
      /\ f.phase = e.phase /\ f.more = e.more /\ f.buffered = e.buffered
      /\ f.pulled = e.pulled /\ f.lagging = e.lagging
  BY DEF Streams
<1>5. RowEmitted(k, id) \in Streams
  BY <1>2, <1>3
<1> QED
  BY <1>1, <1>2, <1>4, <1>5, EmitIsStream

(* One more frame.  Behind a lagged frame nothing is claimed of it;        *)
(* otherwise it must be the next retained id.                              *)
LEMMA AppendedFrames ==
    ASSUME NEW k \in Streams, NEW e \in Streams, NEW x \in Nat,
           e.pipe = Append(k.pipe, x),
           NEW cur \in Nat, NEW log \in SUBSET Nat, NEW next \in Nat,
           Ordered(k, cur, next), Covers(k, cur, log),
           x # Lagged /\ Unbroken(k, Len(k.pipe)) =>
               /\ cur < x /\ x < next
               /\ \A m \in 1..Len(k.pipe) : k.pipe[m] < x
               /\ \A i \in log : cur < i /\ i <= x => i = x \/ InPipe(k, i)
    PROVE  Ordered(e, cur, next) /\ Covers(e, cur, log)
<1>1. /\ Len(k.pipe) \in Nat
      /\ Len(e.pipe) = Len(k.pipe) + 1
      /\ \A m \in 1..Len(k.pipe) : k.pipe[m] \in Nat /\ e.pipe[m] = k.pipe[m]
      /\ e.pipe[Len(k.pipe) + 1] = x
  <2>1. k.pipe \in Seq(Nat)
    BY DEF Streams
  <2> QED
    BY <2>1
<1>2. \A n \in 1..Len(k.pipe) : Unbroken(e, n) => Unbroken(k, n)
  BY <1>1 DEF Unbroken
<1>3. Unbroken(e, Len(k.pipe) + 1) => x # Lagged /\ Unbroken(k, Len(k.pipe))
  BY <1>1 DEF Unbroken
<1>4. ASSUME NEW n \in 1..Len(e.pipe), Unbroken(e, n)
      PROVE  /\ cur < e.pipe[n] /\ e.pipe[n] < next
             /\ \A m \in 1..(n - 1) : e.pipe[m] < e.pipe[n]
             /\ \A i \in log : cur < i /\ i <= e.pipe[n] => \E m \in 1..n : e.pipe[m] = i
  <2>1. CASE n \in 1..Len(k.pipe)
    <3>1. Unbroken(k, n) /\ e.pipe[n] = k.pipe[n]
      BY <1>1, <1>2, <1>4, <2>1
    <3>2. \A m \in 1..n : e.pipe[m] = k.pipe[m]
      BY <1>1, <2>1
    <3>3. /\ cur < k.pipe[n] /\ k.pipe[n] < next
          /\ \A m \in 1..(n - 1) : k.pipe[m] < k.pipe[n]
      BY <3>1, <2>1 DEF Ordered
    <3>4. \A i \in log : cur < i /\ i <= k.pipe[n] => \E m \in 1..n : k.pipe[m] = i
      BY <3>1, <2>1 DEF Covers
    <3>5. \A i \in log : cur < i /\ i <= e.pipe[n] => \E m \in 1..n : e.pipe[m] = i
      BY <3>1, <3>2, <3>4
    <3>6. \A m \in 1..(n - 1) : e.pipe[m] < e.pipe[n]
      BY <3>1, <3>2, <3>3, <2>1
    <3> QED
      BY <3>1, <3>3, <3>5, <3>6
  <2>2. CASE n = Len(k.pipe) + 1
    <3>1. /\ cur < x /\ x < next
          /\ \A m \in 1..Len(k.pipe) : k.pipe[m] < x
          /\ \A i \in log : cur < i /\ i <= x => i = x \/ InPipe(k, i)
      BY <1>3, <1>4, <2>2
    <3>2. ASSUME NEW i \in log, cur < i, i <= x
          PROVE  \E m \in 1..n : e.pipe[m] = i
      <4>1. CASE i = x
        BY <4>1, <1>1, <2>2
      <4>2. CASE InPipe(k, i)
        BY <4>2, <1>1, <2>2 DEF InPipe
      <4> QED
        BY <3>1, <3>2, <4>1, <4>2
    <3> QED
      BY <1>1, <2>2, <3>1, <3>2
  <2> QED
    BY <1>1, <2>1, <2>2, SMTT(30)
<1> QED
  BY <1>4 DEF Ordered, Covers

(* Appending to the log says nothing about frames already on their way. *)
LEMMA FramesAfterCommit ==
    ASSUME NEW k \in Streams, NEW cur \in Nat, NEW log \in SUBSET Nat, NEW next \in Nat,
           Ordered(k, cur, next), Covers(k, cur, log)
    PROVE  Ordered(k, cur, next + 1) /\ Covers(k, cur, log \cup {next})
<1>1. Len(k.pipe) \in Nat /\ \A m \in 1..Len(k.pipe) : k.pipe[m] \in Nat
  BY DEF Streams
<1>2. Ordered(k, cur, next + 1)
  BY <1>1 DEF Ordered
<1>3. ASSUME NEW n \in 1..Len(k.pipe), Unbroken(k, n), NEW i \in log \cup {next},
             cur < i, i <= k.pipe[n]
      PROVE  \E m \in 1..n : k.pipe[m] = i
  <2>1. k.pipe[n] < next
    BY <1>3 DEF Ordered
  <2>2. i \in log
    BY <1>1, <1>3, <2>1
  <2> QED
    BY <1>3, <2>2 DEF Covers
<1> QED
  BY <1>2, <1>3 DEF Covers

(* A trim owes nobody more. *)
LEMMA TrimmedGood ==
    ASSUME NEW k, NEW cur, NEW log, NEW next, Good(k, cur, log, next),
           NEW rest \in SUBSET log
    PROVE  Good(k, cur, rest, next)
<1>1. Covers(k, cur, rest)
  BY DEF Good, Covers
<1>2. k.phase = "replay" => Replaying(k, cur, rest, next)
  BY DEF Good, Replaying, PageIsFront
<1>3. k.phase = "live" => Tailing(k, cur, rest)
  BY DEF Good, Tailing
<1> QED
  BY <1>1, <1>2, <1>3 DEF Good

(* The frames before an emission are those after it, but for the last. *)
LEMMA AppendFacts ==
    ASSUME NEW k \in Streams, NEW e \in Streams, NEW x \in Nat, e.pipe = Append(k.pipe, x)
    PROVE  /\ Len(k.pipe) \in Nat
           /\ Len(e.pipe) = Len(k.pipe) + 1
           /\ \A m \in 1..Len(k.pipe) : k.pipe[m] \in Nat /\ e.pipe[m] = k.pipe[m]
           /\ e.pipe[Len(k.pipe) + 1] = x
           /\ InPipe(e, x)
           /\ \A i : InPipe(k, i) => InPipe(e, i)
           /\ x # Lagged /\ Unbroken(k, Len(k.pipe)) => Unbroken(e, Len(e.pipe))
           /\ x = Lagged \/ ~Unbroken(k, Len(k.pipe)) => ~Unbroken(e, Len(e.pipe))
<1>1. /\ Len(k.pipe) \in Nat
      /\ Len(e.pipe) = Len(k.pipe) + 1
      /\ \A m \in 1..Len(k.pipe) : k.pipe[m] \in Nat /\ e.pipe[m] = k.pipe[m]
      /\ e.pipe[Len(k.pipe) + 1] = x
  <2>1. k.pipe \in Seq(Nat)
    BY DEF Streams
  <2> QED
    BY <2>1
<1>2. InPipe(e, x)
  BY <1>1 DEF InPipe
<1>3. \A i : InPipe(k, i) => InPipe(e, i)
  BY <1>1 DEF InPipe
<1>4. x # Lagged /\ Unbroken(k, Len(k.pipe)) => Unbroken(e, Len(e.pipe))
  BY <1>1 DEF Unbroken
<1>5. x = Lagged \/ ~Unbroken(k, Len(k.pipe)) => ~Unbroken(e, Len(e.pipe))
  BY <1>1 DEF Unbroken
<1> QED
  BY <1>1, <1>2, <1>3, <1>4, <1>5

(* What First offers to emit. *)
LEMMA FirstFacts ==
    ASSUME NEW S \in SUBSET Ids, NEW id \in First(S)
    PROVE  id \in S /\ id \in Nat /\ id # Lagged /\ \A j \in S : id <= j
  BY DEF First, Ids, Lagged

(* A row of a page: nothing retained lies between the frames and it. *)
LEMMA RowEmittedGood ==
    ASSUME NEW k, NEW cur \in Nat, NEW log \in SUBSET Nat, NEW next \in Nat,
           Good(k, cur, log, next), k.phase = "replay", NEW id \in First(k.page)
    PROVE  Good(RowEmitted(k, id), cur, log, next)
<1>1. k \in Streams /\ Replaying(k, cur, log, next) /\ k.page \in SUBSET Ids
  BY DEF Good, Streams
<1>2. id \in k.page /\ id \in Nat /\ id # Lagged /\ \A j \in k.page : id <= j
  BY <1>1, FirstFacts
<1>3. PICK e \in Streams : e = RowEmitted(k, id)
  BY <1>1, <1>2, RowEmittedFacts
<1>4. /\ e.pipe = Append(k.pipe, id) /\ e.page = k.page \ {id} /\ e.last = id
      /\ e.phase = k.phase /\ e.more = k.more /\ e.buffered = k.buffered
      /\ e.pulled = k.pulled /\ e.lagging = k.lagging
  BY <1>1, <1>2, <1>3, RowEmittedFacts
<1>5. k.last \in Nat /\ k.pulled \in Nat /\ k.page \subseteq Nat
  BY <1>1 DEF Streams, Ids
<1>6. cur <= k.last /\ \A m \in 1..Len(k.pipe) : k.pipe[m] <= k.last
  BY <1>1, <1>2 DEF Replaying, Behind
<1>7. k.last < id /\ id < next /\ \A j \in log : k.last < j /\ j <= id => j \in k.page
  BY <1>1, <1>2 DEF Replaying, PageIsFront
<1>8. \A i \in log : cur < i /\ i <= id => i = id \/ InPipe(k, i)
  <2> SUFFICES ASSUME NEW i \in log, cur < i, i <= id, i # id
               PROVE  InPipe(k, i)
    OBVIOUS
  <2>0. i \in Nat
    OBVIOUS
  <2>1. i <= k.last
    <3> SUFFICES ASSUME k.last < i PROVE FALSE
      BY <2>0, <1>5
    <3>1. i \in k.page
      BY <1>7
    <3> QED
      BY <1>2, <2>0, <3>1
  <2> QED
    BY <1>1, <2>1 DEF Replaying
<1>9. /\ Len(k.pipe) \in Nat /\ Len(e.pipe) = Len(k.pipe) + 1
      /\ \A m \in 1..Len(k.pipe) : k.pipe[m] \in Nat /\ e.pipe[m] = k.pipe[m]
      /\ e.pipe[Len(k.pipe) + 1] = id /\ InPipe(e, id)
      /\ \A i : InPipe(k, i) => InPipe(e, i)
      /\ Unbroken(e, Len(e.pipe))
  BY <1>1, <1>2, <1>3, <1>4, AppendFacts, SMTT(30) DEF Replaying
<1>10. Ordered(e, cur, next) /\ Covers(e, cur, log)
  <2>1. cur < id /\ \A m \in 1..Len(k.pipe) : k.pipe[m] < id
    BY <1>2, <1>5, <1>6, <1>7, <1>9
  <2> QED
    BY <1>1, <1>2, <1>3, <1>4, <1>7, <1>8, <2>1, AppendedFrames DEF Good
<1>11. Replaying(e, cur, log, next)
  <2>1. Behind(e, cur) /\ \A m \in 1..Len(e.pipe) : Behind(e, e.pipe[m])
    BY <1>2, <1>4, <1>5, <1>6, <1>7, <1>9, SMTT(30) DEF Behind
  <2>2. \A i \in log : cur < i /\ i <= e.last => InPipe(e, i)
    BY <1>4, <1>8, <1>9
  <2>3. PageIsFront(e, log, next)
    <3> SUFFICES ASSUME NEW i \in e.page
                 PROVE  /\ id < i /\ i < next
                        /\ \A j \in log : id < j /\ j <= i => j \in e.page
      BY <1>4 DEF PageIsFront
    <3>1. i \in k.page /\ i # id /\ id <= i /\ i \in Nat
      BY <1>2, <1>4, <1>5
    <3>2. i < next /\ \A j \in log : k.last < j /\ j <= i => j \in k.page
      BY <1>1, <3>1 DEF Replaying, PageIsFront
    <3>3. \A j \in log : id < j /\ j <= i => j \in e.page
      BY <1>2, <1>4, <1>5, <1>7, <3>2
    <3> QED
      BY <1>2, <3>1, <3>2, <3>3
  <2>4. ~e.more => \A i \in log : i > e.last /\ i > cur =>
                       i \in e.page \/ i \in e.buffered \/ InPipe(e, i)
    <3> SUFFICES ASSUME ~k.more, NEW i \in log, i > id, i > cur
                 PROVE  i \in k.page \/ i \in k.buffered \/ InPipe(k, i)
      BY <1>2, <1>4, <1>9
    <3>0. i \in Nat
      OBVIOUS
    <3>1. i > k.last
      BY <1>2, <1>5, <1>7, <3>0
    <3> QED
      BY <1>1, <3>1 DEF Replaying
  <2> QED
    BY <1>1, <1>4, <1>7, <1>9, <2>1, <2>2, <2>3, <2>4 DEF Replaying
<1>12. e.phase = "replay" /\ cur < next /\ e.pulled <= Len(e.pipe)
  BY <1>4, <1>5, <1>9 DEF Good
<1>13. Good(e, cur, log, next)
  BY <1>10, <1>11, <1>12 DEF Good
<1> QED
  BY <1>3, <1>13

LEMMA FlushedFacts ==
    ASSUME NEW k \in Streams, NEW id \in Nat
    PROVE  LET e == [k EXCEPT !.buffered = @ \ {id}] IN
           /\ e \in Streams
           /\ e.pipe = k.pipe /\ e.page = k.page /\ e.last = k.last
           /\ e.phase = k.phase /\ e.more = k.more /\ e.buffered = k.buffered \ {id}
           /\ e.pulled = k.pulled /\ e.lagging = k.lagging
  BY DEF Streams

(* What landed during replay is emitted once, and only if replay missed it. *)
LEMMA BufferedEmittedGood ==
    ASSUME NEW k, NEW cur \in Nat, NEW log \in SUBSET Nat, NEW next \in Nat,
           Good(k, cur, log, next), k.phase = "replay", k.page = {}, ~k.more,
           NEW id \in First(k.buffered)
    PROVE  Good(BufferedEmitted(k, id), cur, log, next)
<1>1. k \in Streams /\ Replaying(k, cur, log, next) /\ k.buffered \in SUBSET Ids
  BY DEF Good, Streams
<1>2. id \in k.buffered /\ id \in Nat /\ id # Lagged /\ \A j \in k.buffered : id <= j
  BY <1>1, FirstFacts
<1>3. k.last \in Nat /\ k.pulled \in Nat /\ k.buffered \subseteq Nat /\ id < next
  BY <1>1, <1>2 DEF Streams, Ids, Replaying
<1>4. PICK f \in Streams : f = [k EXCEPT !.buffered = @ \ {id}]
  BY <1>1, <1>2, FlushedFacts
<1>5. /\ f.pipe = k.pipe /\ f.page = k.page /\ f.last = k.last
      /\ f.phase = k.phase /\ f.more = k.more /\ f.buffered = k.buffered \ {id}
      /\ f.pulled = k.pulled /\ f.lagging = k.lagging
  BY <1>1, <1>2, <1>4, FlushedFacts
<1>6. \A x \in Nat : Behind(k, x) => Behind(f, x)
  BY <1>5 DEF Behind
<1>7. Len(k.pipe) \in Nat /\ \A m \in 1..Len(k.pipe) : k.pipe[m] \in Nat
  BY <1>1 DEF Streams
<1>8. CASE ~(id > k.last)
  <2>1. Replaying(f, cur, log, next)
    <3>1. Behind(f, cur) /\ \A m \in 1..Len(f.pipe) : Behind(f, f.pipe[m])
      BY <1>1, <1>5, <1>6, <1>7 DEF Replaying
    <3>2. \A i \in log : i > f.last /\ i > cur =>
              i \in f.page \/ i \in f.buffered \/ InPipe(f, i)
      BY <1>1, <1>2, <1>3, <1>5, <1>8 DEF Replaying, InPipe
    <3> QED
      BY <1>1, <1>5, <3>1, <3>2 DEF Replaying, InPipe, PageIsFront, Unbroken
  <2>2. Ordered(f, cur, next) /\ Covers(f, cur, log)
    BY <1>5 DEF Good, Ordered, Covers, Unbroken
  <2>3. Good(f, cur, log, next)
    BY <1>5, <2>1, <2>2 DEF Good
  <2> QED
    BY <1>4, <1>8, <2>3 DEF BufferedEmitted
<1>9. CASE id > k.last
  <2>1. PICK e \in Streams : e = Emit(f, id)
    BY <1>2, EmitIsStream
  <2>2. /\ e.pipe = Append(k.pipe, id) /\ e.page = k.page /\ e.last = k.last
        /\ e.phase = k.phase /\ e.more = k.more /\ e.buffered = k.buffered \ {id}
        /\ e.pulled = k.pulled /\ e.lagging = k.lagging
    <3>1. /\ e.pipe = Append(f.pipe, id) /\ e.page = f.page /\ e.last = f.last
          /\ e.phase = f.phase /\ e.more = f.more /\ e.buffered = f.buffered
          /\ e.pulled = f.pulled /\ e.lagging = f.lagging
      BY <1>2, <2>1, EmitIsStream
    <3> QED
      BY <1>5, <3>1
  <2>3. /\ Len(e.pipe) = Len(k.pipe) + 1
        /\ \A m \in 1..Len(k.pipe) : e.pipe[m] = k.pipe[m]
        /\ e.pipe[Len(k.pipe) + 1] = id /\ InPipe(e, id)
        /\ \A i : InPipe(k, i) => InPipe(e, i)
        /\ Unbroken(e, Len(e.pipe))
    BY <1>1, <1>2, <2>1, <2>2, AppendFacts DEF Replaying
  <2>4. cur < id /\ \A m \in 1..Len(k.pipe) : k.pipe[m] < id
    <3>1. \A x \in Nat : Behind(k, x) => x < id
      BY <1>2, <1>3, <1>9 DEF Behind
    <3> QED
      BY <1>1, <1>7, <3>1 DEF Replaying
  <2>5. \A i \in log : cur < i /\ i <= id => i = id \/ InPipe(k, i)
    <3> SUFFICES ASSUME NEW i \in log, cur < i, i <= id, i # id
                 PROVE  InPipe(k, i)
      OBVIOUS
    <3>0. i \in Nat
      OBVIOUS
    <3>1. CASE i <= k.last
      BY <1>1, <3>1 DEF Replaying
    <3>2. CASE i > k.last
      <4>1. i \notin k.buffered
        BY <1>2, <3>0
      <4> QED
        BY <1>1, <3>2, <4>1 DEF Replaying
    <3> QED
      BY <1>3, <3>0, <3>1, <3>2
  <2>6. Ordered(e, cur, next) /\ Covers(e, cur, log)
    BY <1>1, <1>2, <1>3, <2>1, <2>2, <2>4, <2>5, AppendedFrames DEF Good
  <2>7. Replaying(e, cur, log, next)
    <3>1. \A x \in Nat : Behind(k, x) => Behind(e, x)
      BY <2>2 DEF Behind
    <3>2. Behind(e, id)
      <4>1. \A i \in e.buffered : id < i
        BY <1>2, <1>3, <2>2
      <4>2. e.page = {} /\ ~e.more
        BY <2>2
      <4> QED
        BY <4>1, <4>2 DEF Behind
    <3>3. Behind(e, cur) /\ \A m \in 1..Len(e.pipe) : Behind(e, e.pipe[m])
      <4>1. Behind(e, cur)
        BY <1>1, <3>1 DEF Replaying
      <4>2. ASSUME NEW m \in 1..Len(e.pipe) PROVE Behind(e, e.pipe[m])
        <5>1. CASE m \in 1..Len(k.pipe)
          <6>1. Behind(k, k.pipe[m]) /\ k.pipe[m] \in Nat /\ e.pipe[m] = k.pipe[m]
            BY <1>1, <1>7, <2>3, <5>1 DEF Replaying
          <6> QED
            BY <3>1, <6>1
        <5>2. CASE m = Len(k.pipe) + 1
          BY <2>3, <3>2, <5>2
        <5> QED
          BY <1>7, <2>3, <5>1, <5>2
      <4> QED
        BY <4>1, <4>2
    <3>4. \A i \in log : i > e.last /\ i > cur =>
              i \in e.page \/ i \in e.buffered \/ InPipe(e, i)
      BY <1>1, <2>2, <2>3 DEF Replaying
    <3>5. \A i \in log : cur < i /\ i <= e.last => InPipe(e, i)
      BY <1>1, <2>2, <2>3 DEF Replaying
    <3> QED
      BY <1>1, <2>2, <2>3, <3>3, <3>4, <3>5 DEF Replaying, PageIsFront
  <2>8. e.pulled <= Len(e.pipe) /\ cur < next /\ e.phase = "replay"
    BY <1>3, <1>7, <2>2, <2>3 DEF Good
  <2>9. Good(e, cur, log, next)
    BY <2>6, <2>7, <2>8 DEF Good
  <2> QED
    BY <1>4, <1>9, <2>1, <2>9 DEF BufferedEmitted
<1> QED
  BY <1>8, <1>9

LEMMA PageReadFacts ==
    ASSUME NEW k \in Streams, NEW page \in SUBSET Ids, NEW more \in BOOLEAN
    PROVE  LET e == [k EXCEPT !.page = page, !.more = more] IN
           /\ e \in Streams
           /\ e.pipe = k.pipe /\ e.page = page /\ e.last = k.last
           /\ e.phase = k.phase /\ e.more = more /\ e.buffered = k.buffered
           /\ e.pulled = k.pulled /\ e.lagging = k.lagging
  BY DEF Streams

(* A page is the front of the rest of the log, and a short page is all of  *)
(* it: getAll returned fewer rows than it was asked for.                   *)
LEMMA PageReadGood ==
    ASSUME NEW k, NEW cur \in Nat, NEW log \in SUBSET Ids, NEW next \in Nat,
           \A i \in log : i < next,
           Good(k, cur, log, next), k.phase = "replay", k.page = {}, k.more
    PROVE  Good(PageRead(k, log), cur, log, next)
<1> DEFINE rest == {i \in log : i > k.last}
           before(i) == {j \in rest : j < i}
           page == {i \in rest : Cardinality(before(i)) < Batch}
           more == Cardinality(rest) >= Batch
<1>1. k \in Streams /\ Replaying(k, cur, log, next) /\ k.last \in Nat
  BY DEF Good, Streams
<1>2. page \in SUBSET Ids /\ more \in BOOLEAN
  OBVIOUS
<1>3. PICK e \in Streams : e = [k EXCEPT !.page = page, !.more = more]
  BY <1>1, <1>2, PageReadFacts
<1>4. /\ e.pipe = k.pipe /\ e.page = page /\ e.last = k.last
      /\ e.phase = k.phase /\ e.more = more /\ e.buffered = k.buffered
      /\ e.pulled = k.pulled /\ e.lagging = k.lagging
  <2> HIDE DEF page, more
  <2> QED
    BY <1>1, <1>2, <1>3 DEF Streams
<1>5. IsFiniteSet(rest)
  <2>1. rest \in SUBSET Nat
    BY DEF Ids
  <2>2. \A i \in rest : i <= next
    <3> SUFFICES ASSUME NEW i \in log PROVE i <= next
      OBVIOUS
    <3>1. i \in Nat /\ i < next
      BY DEF Ids
    <3> QED
      BY <3>1
  <2> HIDE DEF rest
  <2> QED
    BY <2>1, <2>2, FS_BoundedSetOfNaturals
<1>6. \A i \in rest : before(i) \in SUBSET rest
  OBVIOUS
<1>7. \A i, j \in rest : j <= i => before(j) \in SUBSET before(i)
  <2>1. rest \subseteq Nat
    BY DEF Ids
  <2> SUFFICES ASSUME NEW i \in rest, NEW j \in rest, j <= i, NEW x \in before(j)
               PROVE  x \in before(i)
    OBVIOUS
  <2>2. x \in rest /\ x < j
    OBVIOUS
  <2>3. x \in Nat /\ j \in Nat /\ i \in Nat
    BY <2>1, <2>2
  <2> QED
    BY <2>2, <2>3
<1>8. \A i \in rest : IsFiniteSet(before(i)) /\ Cardinality(before(i)) <= Cardinality(rest)
  <2> HIDE DEF rest, before
  <2> QED
    BY <1>5, <1>6, FS_Subset
<1>9. \A i, j \in rest : j <= i => Cardinality(before(j)) <= Cardinality(before(i))
  <2> HIDE DEF rest, before
  <2> QED
    BY <1>7, <1>8, FS_Subset
<1>10. Cardinality(rest) \in Nat /\ \A i \in rest : Cardinality(before(i)) \in Nat
  <2> HIDE DEF rest, before
  <2> QED
    BY <1>5, <1>8, FS_CardinalityType
<1>11. Batch \in Nat
  BY StreamAssumption
<1>12. \A i \in page : \A j \in rest : j <= i => j \in page
  <2> HIDE DEF rest, before
  <2> QED
    BY <1>9, <1>10, <1>11
<1>13. ~more => page = rest
  <2> HIDE DEF rest, before
  <2> QED
    BY <1>8, <1>10, <1>11
<1>14. PageIsFront(e, log, next)
  <2> SUFFICES ASSUME NEW i \in page
               PROVE  /\ k.last < i /\ i < next
                      /\ \A j \in log : k.last < j /\ j <= i => j \in page
    BY <1>4 DEF PageIsFront
  <2>1. i \in rest /\ i \in log /\ i \in Nat
    BY DEF Ids
  <2>2. k.last < i /\ i < next
    BY <1>1, <2>1
  <2>3. \A j \in log : k.last < j => j \in rest
    BY <1>1 DEF Ids
  <2> HIDE DEF rest, page
  <2> QED
    BY <1>12, <2>2, <2>3
<1>15. Replaying(e, cur, log, next)
  <2>1. cur <= k.last /\ \A m \in 1..Len(k.pipe) : k.pipe[m] <= k.last
    BY <1>1 DEF Replaying, Behind
  <2>2. Behind(e, cur) /\ \A m \in 1..Len(e.pipe) : Behind(e, e.pipe[m])
    BY <1>4, <2>1 DEF Behind
  <2>3. ~e.more => \A i \in log : i > e.last => i \in e.page
    <3>1. SUFFICES ASSUME ~more PROVE \A i \in log : i > k.last => i \in page
      BY <1>4
    <3>2. \A i \in log : i > k.last => i \in rest
      OBVIOUS
    <3> HIDE DEF rest, page, more
    <3> QED
      BY <1>13, <3>1, <3>2
  <2> HIDE DEF rest, page, more
  <2> QED
    BY <1>1, <1>4, <1>14, <2>2, <2>3 DEF Replaying, InPipe, Unbroken
<1>16. Ordered(e, cur, next) /\ Covers(e, cur, log)
  BY <1>4 DEF Good, Ordered, Covers, Unbroken
<1>17. Good(e, cur, log, next)
  BY <1>4, <1>15, <1>16 DEF Good
<1>18. PageRead(k, log) = [k EXCEPT !.page = page, !.more = more]
  BY DEF PageRead
<1> HIDE DEF page, more
<1> QED
  BY <1>3, <1>17, <1>18

(* Replay is over: everything beyond the cursor is on its way. *)
LEMMA WentLiveGood ==
    ASSUME NEW k, NEW cur \in Nat, NEW log \in SUBSET Nat, NEW next \in Nat,
           Good(k, cur, log, next), k.phase = "replay",
           k.page = {}, ~k.more, k.buffered = {}
    PROVE  Good([k EXCEPT !.phase = "live"], cur, log, next)
<1>1. k \in Streams /\ Replaying(k, cur, log, next) /\ k.last \in Nat
  BY DEF Good, Streams
<1>2. PICK e \in Streams : e = [k EXCEPT !.phase = "live"]
  BY <1>1 DEF Streams
<1>3. /\ e.pipe = k.pipe /\ e.phase = "live" /\ e.pulled = k.pulled
      /\ e.lagging = k.lagging
  BY <1>1, <1>2 DEF Streams
<1>4. \A i \in log : i > cur => InPipe(k, i)
  <2> SUFFICES ASSUME NEW i \in log, i > cur PROVE InPipe(k, i)
    OBVIOUS
  <2>1. i \in Nat
    OBVIOUS
  <2>2. CASE i <= k.last
    BY <1>1, <2>2 DEF Replaying
  <2>3. CASE i > k.last
    BY <1>1, <2>3 DEF Replaying
  <2> QED
    BY <1>1, <2>1, <2>2, <2>3
<1>5. Tailing(e, cur, log)
  BY <1>1, <1>3, <1>4 DEF Replaying, Tailing, InPipe
<1>6. Ordered(e, cur, next) /\ Covers(e, cur, log)
  BY <1>3 DEF Good, Ordered, Covers, Unbroken
<1>7. Good(e, cur, log, next)
  BY <1>3, <1>5, <1>6 DEF Good
<1> QED
  BY <1>2, <1>7

(* A frame leaves the controller's queue. *)
LEMMA PulledGood ==
    ASSUME NEW k, NEW cur \in Nat, NEW log \in SUBSET Nat, NEW next \in Nat,
           Good(k, cur, log, next), Queued(k) > 0
    PROVE  Good([k EXCEPT !.pulled = @ + 1], cur, log, next)
<1>1. k \in Streams /\ k.pulled \in Nat /\ Len(k.pipe) \in Nat
  BY DEF Good, Streams
<1>2. PICK e \in Streams : e = [k EXCEPT !.pulled = @ + 1]
  <2>1. k.pulled + 1 \in Nat
    BY <1>1
  <2>2. [k EXCEPT !.pulled = k.pulled + 1] \in Streams
    BY <1>1, <2>1 DEF Streams
  <2> QED
    BY <2>2
<1>3. /\ e.pipe = k.pipe /\ e.page = k.page /\ e.last = k.last
      /\ e.phase = k.phase /\ e.more = k.more /\ e.buffered = k.buffered
      /\ e.pulled = k.pulled + 1 /\ e.lagging = k.lagging
  BY <1>1, <1>2 DEF Streams
<1>4. e.pulled <= Len(e.pipe)
  BY <1>1, <1>3 DEF Queued
<1>5. Ordered(e, cur, next) /\ Covers(e, cur, log)
  BY <1>3, SMTT(30) DEF Good, Ordered, Covers, Unbroken
<1>6. k.phase = "replay" => Replaying(e, cur, log, next)
  BY <1>3 DEF Good, Replaying, Unbroken, Behind, InPipe, PageIsFront
<1>7. k.phase = "live" => Tailing(e, cur, log)
  BY <1>3 DEF Good, Tailing, Unbroken, InPipe
<1>8. Good(e, cur, log, next)
  BY <1>3, <1>4, <1>5, <1>6, <1>7 DEF Good
<1> QED
  BY <1>2, <1>8

LEMMA BufferedFacts ==
    ASSUME NEW k \in Streams, NEW id \in Ids
    PROVE  LET e == [k EXCEPT !.buffered = @ \cup {id}] IN
           /\ e \in Streams
           /\ e.pipe = k.pipe /\ e.page = k.page /\ e.last = k.last
           /\ e.phase = k.phase /\ e.more = k.more /\ e.buffered = k.buffered \cup {id}
           /\ e.pulled = k.pulled /\ e.lagging = k.lagging
  BY DEF Streams

(* An append during replay is held back. *)
LEMMA BufferingGood ==
    ASSUME NEW k, NEW cur \in Nat, NEW log \in SUBSET Nat, NEW next \in Ids,
           Good(k, cur, log, next), k.phase = "replay"
    PROVE  Good(Notified(k, next), cur, log \cup {next}, next + 1)
<1>1. k \in Streams /\ Replaying(k, cur, log, next) /\ k.last \in Nat /\ next \in Nat
  BY DEF Good, Streams, Ids
<1>2. PICK e \in Streams : e = [k EXCEPT !.buffered = @ \cup {next}]
  BY <1>1, BufferedFacts
<1>3. /\ e.pipe = k.pipe /\ e.page = k.page /\ e.last = k.last
      /\ e.phase = k.phase /\ e.more = k.more /\ e.buffered = k.buffered \cup {next}
      /\ e.pulled = k.pulled /\ e.lagging = k.lagging
  BY <1>1, <1>2, BufferedFacts
<1>4. Ordered(k, cur, next + 1) /\ Covers(k, cur, log \cup {next})
  BY <1>1, FramesAfterCommit DEF Good
<1>5. Ordered(e, cur, next + 1) /\ Covers(e, cur, log \cup {next})
  BY <1>3, <1>4 DEF Ordered, Covers, Unbroken
<1>6. Len(k.pipe) \in Nat /\ \A m \in 1..Len(k.pipe) : k.pipe[m] \in Nat
  BY <1>1 DEF Streams
<1>7. \A x \in Nat : x < next /\ Behind(k, x) => Behind(e, x)
  BY <1>3 DEF Behind
<1>8. \A m \in 1..Len(k.pipe) : k.pipe[m] < next
  <2> SUFFICES ASSUME NEW m \in 1..Len(k.pipe) PROVE k.pipe[m] < next
    OBVIOUS
  <2>1. Unbroken(k, m)
    BY <1>1, <1>6 DEF Replaying, Unbroken
  <2> QED
    BY <2>1 DEF Good, Ordered
<1>9. Replaying(e, cur, log \cup {next}, next + 1)
  <2>1. Behind(e, cur) /\ \A m \in 1..Len(e.pipe) : Behind(e, e.pipe[m])
    BY <1>1, <1>3, <1>6, <1>7, <1>8 DEF Replaying, Good
  <2>2. \A i \in log \cup {next} : cur < i /\ i <= e.last => InPipe(e, i)
    <3> SUFFICES ASSUME NEW i \in log \cup {next}, cur < i, i <= k.last
                 PROVE  InPipe(k, i)
      BY <1>3 DEF InPipe
    <3>1. i # next
      BY <1>1 DEF Replaying
    <3> QED
      BY <1>1, <3>1 DEF Replaying
  <2>3. PageIsFront(e, log \cup {next}, next + 1)
    <3> SUFFICES ASSUME NEW i \in k.page
                 PROVE  /\ k.last < i /\ i < next + 1
                        /\ \A j \in log \cup {next} : k.last < j /\ j <= i => j \in k.page
      BY <1>3 DEF PageIsFront
    <3>1. i \in Nat /\ k.last < i /\ i < next
      BY <1>1 DEF Streams, Ids, Replaying, PageIsFront
    <3>2. \A j \in log : k.last < j /\ j <= i => j \in k.page
      BY <1>1 DEF Replaying, PageIsFront
    <3> QED
      BY <1>1, <3>1, <3>2
  <2>4. \A i \in e.buffered : i < next + 1
    <3>1. \A i \in k.buffered : i \in Nat /\ i < next
      BY <1>1 DEF Replaying, Streams, Ids
    <3> QED
      BY <1>1, <1>3, <3>1
  <2>5. ~e.more => \A i \in log \cup {next} : i > e.last /\ i > cur =>
                       i \in e.page \/ i \in e.buffered \/ InPipe(e, i)
    BY <1>1, <1>3 DEF Replaying, InPipe
  <2>6. e.last < next + 1 /\ ~e.lagging /\ Unbroken(e, Len(e.pipe))
    BY <1>1, <1>3 DEF Replaying, Unbroken
  <2> QED
    BY <2>1, <2>2, <2>3, <2>4, <2>5, <2>6 DEF Replaying
<1>10. cur < next + 1 /\ e.pulled <= Len(e.pipe) /\ e.phase = "replay"
  BY <1>1, <1>3 DEF Good
<1>11. Good(e, cur, log \cup {next}, next + 1)
  BY <1>5, <1>9, <1>10 DEF Good
<1>12. Notified(k, next) = [k EXCEPT !.buffered = @ \cup {next}]
  BY DEF Notified
<1> QED
  BY <1>2, <1>11, <1>12

LEMMA TailEmitFacts ==
    ASSUME NEW k \in Streams, NEW x \in Nat
    PROVE  LET e == [Emit(k, x) EXCEPT !.last = x, !.lagging = FALSE] IN
           /\ e \in Streams
           /\ e.pipe = Append(k.pipe, x) /\ e.phase = k.phase /\ e.pulled = k.pulled
           /\ ~e.lagging
<1>1. PICK f \in Streams : f = Emit(k, x)
  BY EmitIsStream
<1>2. f.pipe = Append(k.pipe, x) /\ f.phase = k.phase /\ f.pulled = k.pulled
  BY <1>1, EmitIsStream
<1>3. [f EXCEPT !.last = x, !.lagging = FALSE] \in Streams
  BY DEF Streams
<1>4. LET e == [f EXCEPT !.last = x, !.lagging = FALSE] IN
      e.pipe = f.pipe /\ e.phase = f.phase /\ e.pulled = f.pulled /\ ~e.lagging
  BY DEF Streams
<1> QED
  BY <1>1, <1>2, <1>3, <1>4

LEMMA MarkFacts ==
    ASSUME NEW k \in Streams
    PROVE  LET e == [Emit(k, Lagged) EXCEPT !.lagging = TRUE] IN
           /\ e \in Streams
           /\ e.pipe = Append(k.pipe, Lagged) /\ e.phase = k.phase /\ e.pulled = k.pulled
           /\ e.lagging
<1>0. Lagged \in Nat
  BY DEF Lagged
<1>1. PICK f \in Streams : f = Emit(k, Lagged)
  BY <1>0, EmitIsStream
<1>2. f.pipe = Append(k.pipe, Lagged) /\ f.phase = k.phase /\ f.pulled = k.pulled
  BY <1>0, <1>1, EmitIsStream
<1>3. [f EXCEPT !.lagging = TRUE] \in Streams
  BY DEF Streams
<1>4. LET e == [f EXCEPT !.lagging = TRUE] IN
      e.pipe = f.pipe /\ e.phase = f.phase /\ e.pulled = f.pulled /\ e.lagging
  BY DEF Streams
<1> QED
  BY <1>1, <1>2, <1>3, <1>4

(* An append to a live stream: the frame itself, a lagged frame in its     *)
(* place, or nothing behind a lagged frame that is already there.          *)
LEMMA TailingGood ==
    ASSUME NEW k, NEW cur \in Nat, NEW log \in SUBSET Nat, NEW next \in Ids,
           Good(k, cur, log, next), k.phase = "live"
    PROVE  Good(Notified(k, next), cur, log \cup {next}, next + 1)
<1>1. /\ k \in Streams /\ Tailing(k, cur, log) /\ next \in Nat /\ next # Lagged
      /\ cur < next /\ k.pulled \in Nat /\ k.pulled <= Len(k.pipe)
  BY DEF Good, Streams, Ids, Lagged
<1>2. Ordered(k, cur, next + 1) /\ Covers(k, cur, log \cup {next})
  BY <1>1, FramesAfterCommit DEF Good
<1>3. Len(k.pipe) \in Nat /\ \A m \in 1..Len(k.pipe) : k.pipe[m] \in Nat
  BY <1>1 DEF Streams
<1>4. DesiredSize(k) \in Int
  BY <1>1, <1>3, StreamAssumption DEF DesiredSize, Queued
<1>5. CASE DesiredSize(k) > 0
  <2>1. Notified(k, next) = [Emit(k, next) EXCEPT !.last = next, !.lagging = FALSE]
    BY <1>4, <1>5 DEF Notified
  <2>2. PICK e \in Streams : e = Notified(k, next)
    BY <1>1, <2>1, TailEmitFacts
  <2>3. /\ e.pipe = Append(k.pipe, next) /\ e.phase = "live" /\ e.pulled = k.pulled
        /\ ~e.lagging
    BY <1>1, <2>1, <2>2, TailEmitFacts, ZenonT(30)
  <2>4. /\ Len(e.pipe) = Len(k.pipe) + 1
        /\ InPipe(e, next)
        /\ \A i : InPipe(k, i) => InPipe(e, i)
        /\ ~Unbroken(k, Len(k.pipe)) => ~Unbroken(e, Len(e.pipe))
    BY <1>1, <2>2, <2>3, AppendFacts
  <2>5. Unbroken(k, Len(k.pipe)) =>
          /\ \A m \in 1..Len(k.pipe) : k.pipe[m] < next
          /\ \A i \in log \cup {next} : cur < i => i = next \/ InPipe(k, i)
    <3> SUFFICES ASSUME Unbroken(k, Len(k.pipe))
                 PROVE  /\ \A m \in 1..Len(k.pipe) : k.pipe[m] < next
                        /\ \A i \in log \cup {next} : cur < i => i = next \/ InPipe(k, i)
      OBVIOUS
    <3>1. \A m \in 1..Len(k.pipe) : Unbroken(k, m)
      BY <1>3 DEF Unbroken
    <3>2. \A m \in 1..Len(k.pipe) : k.pipe[m] < next
      BY <3>1 DEF Good, Ordered
    <3>3. \A i \in log : i > cur => InPipe(k, i)
      BY <1>1 DEF Tailing
    <3> QED
      BY <3>2, <3>3
  <2>6. Ordered(e, cur, next + 1) /\ Covers(e, cur, log \cup {next})
    BY <1>1, <1>2, <2>2, <2>3, <2>5, AppendedFrames, SMTT(30)
  <2>7. Tailing(e, cur, log \cup {next})
    <3> SUFFICES ASSUME Unbroken(e, Len(e.pipe)), NEW i \in log \cup {next}, i > cur
                 PROVE  InPipe(e, i)
      BY <2>3 DEF Tailing
    <3> QED
      BY <2>4, <2>5
  <2>8. Good(e, cur, log \cup {next}, next + 1)
    BY <1>1, <1>3, <2>2, <2>3, <2>4, <2>6, <2>7 DEF Good
  <2> QED
    BY <2>2, <2>8
<1>6. CASE DesiredSize(k) <= 0 /\ ~k.lagging
  <2>1. Notified(k, next) = [Emit(k, Lagged) EXCEPT !.lagging = TRUE]
    BY <1>4, <1>6 DEF Notified
  <2>2. PICK e \in Streams : e = Notified(k, next)
    BY <1>1, <2>1, MarkFacts
  <2>3. /\ e.pipe = Append(k.pipe, Lagged) /\ e.phase = "live" /\ e.pulled = k.pulled
    BY <1>1, <2>1, <2>2, MarkFacts
  <2>4. Len(e.pipe) = Len(k.pipe) + 1 /\ ~Unbroken(e, Len(e.pipe))
    BY <1>1, <2>2, <2>3, AppendFacts DEF Lagged
  <2>5. Ordered(e, cur, next + 1) /\ Covers(e, cur, log \cup {next})
    <3>1. Lagged \in Nat /\ next + 1 \in Nat /\ log \cup {next} \in SUBSET Nat
      BY <1>1 DEF Lagged
    <3> QED
      BY <1>1, <1>2, <2>2, <2>3, <3>1, AppendedFrames
  <2>6. Good(e, cur, log \cup {next}, next + 1)
    BY <1>1, <1>3, <2>2, <2>3, <2>4, <2>5 DEF Good, Tailing
  <2> QED
    BY <2>2, <2>6
<1>7. CASE DesiredSize(k) <= 0 /\ k.lagging
  <2>1. Notified(k, next) = k
    BY <1>4, <1>7 DEF Notified
  <2>2. ~Unbroken(k, Len(k.pipe))
    BY <1>1, <1>7 DEF Tailing
  <2>3. Good(k, cur, log \cup {next}, next + 1)
    BY <1>1, <1>2, <2>2 DEF Good, Tailing
  <2> QED
    BY <2>1, <2>3
<1> QED
  BY <1>4, <1>5, <1>6, <1>7

LEMMA NotifiedGood ==
    ASSUME NEW k, NEW cur \in Nat, NEW log \in SUBSET Nat, NEW next \in Ids,
           Good(k, cur, log, next)
    PROVE  Good(Notified(k, next), cur, log \cup {next}, next + 1)
<1>1. k \in Streams /\ k.phase \in {"none", "replay", "live"}
  BY DEF Good, Streams
<1>2. CASE k.phase = "none"
  <2>1. Notified(k, next) = k
    BY <1>2 DEF Notified
  <2>2. Ordered(k, cur, next + 1) /\ Covers(k, cur, log \cup {next})
    BY <1>1, FramesAfterCommit DEF Good, Ids
  <2> QED
    BY <1>2, <2>1, <2>2 DEF Good, Ids
<1> QED
  BY <1>1, <1>2, BufferingGood, TailingGood

(* The frame a tab is handed is the next retained id, and what is left of  *)
(* the stream is good for the cursor the tab then has.                     *)
LEMMA ServedGood ==
    ASSUME NEW k, NEW cur \in Nat, NEW log \in SUBSET Nat, NEW next \in Nat,
           Good(k, cur, log, next), k.pulled > 0, Head(k.pipe) # Lagged
    PROVE  /\ Head(k.pipe) \in Ids
           /\ cur < Head(k.pipe) /\ Head(k.pipe) < next
           /\ \A i \in log : cur < i => Head(k.pipe) <= i
           /\ Good(Served(k), Head(k.pipe), log, next)
<1>1. /\ k \in Streams /\ k.pipe \in Seq(Nat) /\ k.pulled \in Nat
      /\ k.pulled <= Len(k.pipe)
  BY DEF Good, Streams
<1>2. Len(k.pipe) \in Nat /\ Len(k.pipe) >= 1 /\ k.pipe # <<>>
  BY <1>1
<1>3. PICK h \in Nat : h = Head(k.pipe) /\ h = k.pipe[1] /\ h # Lagged
  BY <1>1, <1>2
<1>4. PICK e \in Streams : e = Served(k)
  <2>1. Tail(k.pipe) \in Seq(Nat) /\ k.pulled - 1 \in Nat
    BY <1>1, <1>2
  <2>2. [k EXCEPT !.pipe = Tail(k.pipe), !.pulled = k.pulled - 1] \in Streams
    BY <1>1, <2>1 DEF Streams
  <2> QED
    BY <2>2 DEF Served
<1>5. /\ e.pipe = Tail(k.pipe) /\ e.page = k.page /\ e.last = k.last
      /\ e.phase = k.phase /\ e.more = k.more /\ e.buffered = k.buffered
      /\ e.pulled = k.pulled - 1 /\ e.lagging = k.lagging
  BY <1>1, <1>4 DEF Served, Streams
<1>6. /\ Len(e.pipe) = Len(k.pipe) - 1
      /\ \A m \in 1..Len(e.pipe) : e.pipe[m] = k.pipe[m + 1]
  BY <1>1, <1>2, <1>5
<1>7. \A m \in 1..Len(k.pipe) : k.pipe[m] \in Nat
  BY <1>1
<1>8. Unbroken(k, 1)
  BY <1>3 DEF Unbroken
<1>9. cur < h /\ h < next
  BY <1>2, <1>3, <1>8 DEF Good, Ordered
<1>10. \A i \in log : cur < i => h <= i
  <2> SUFFICES ASSUME NEW i \in log, cur < i, i < h PROVE FALSE
    <3>1. \A i \in log : i \in Nat
      OBVIOUS
    <3> QED
      BY <3>1
  <2>0. i \in Nat
    OBVIOUS
  <2>1. i <= k.pipe[1]
    BY <1>3, <2>0
  <2>2. \E m \in 1..1 : k.pipe[m] = i
    BY <1>2, <1>8, <2>1 DEF Good, Covers
  <2> QED
    BY <1>3, <2>0, <2>2
<1>11. h \in Ids
  BY <1>9 DEF Ids
<1>12. \A n \in 1..Len(e.pipe) : Unbroken(e, n) => Unbroken(k, n + 1)
  <2> SUFFICES ASSUME NEW n \in 1..Len(e.pipe), Unbroken(e, n), NEW m \in 1..(n + 1)
               PROVE  k.pipe[m] # Lagged
    BY DEF Unbroken
  <2>1. CASE m = 1
    BY <1>3, <2>1
  <2>2. CASE m # 1
    <3>1. m - 1 \in 1..n /\ m - 1 \in 1..Len(e.pipe) /\ (m - 1) + 1 = m
      BY <1>2, <1>6, <2>2
    <3>2. e.pipe[m - 1] = k.pipe[m]
      BY <1>6, <3>1
    <3> QED
      BY <3>1, <3>2 DEF Unbroken
  <2> QED
    BY <2>1, <2>2
<1>13. Unbroken(k, Len(k.pipe)) <=> Unbroken(e, Len(e.pipe))
  <2>1. CASE Len(e.pipe) = 0
    BY <1>2, <1>3, <1>6, <2>1 DEF Unbroken
  <2>2. CASE Len(e.pipe) # 0
    <3>0. Len(e.pipe) \in Nat
      BY <1>2, <1>6
    <3>1. Len(e.pipe) + 1 = Len(k.pipe) /\ Len(e.pipe) \in 1..Len(e.pipe)
      <4>1. Len(e.pipe) = Len(k.pipe) - 1
        BY <1>6
      <4>2. Len(e.pipe) >= 1
        BY <2>2, <3>0
      <4> QED
        BY <1>2, <3>0, <4>1, <4>2
    <3>2. Unbroken(e, Len(e.pipe)) => Unbroken(k, Len(k.pipe))
      BY <1>12, <3>1
    <3>3. Unbroken(k, Len(k.pipe)) => Unbroken(e, Len(e.pipe))
      BY <1>2, <1>6, SMTT(30) DEF Unbroken
    <3> QED
      BY <3>2, <3>3
  <2> QED
    BY <2>1, <2>2
<1>14. \A i : InPipe(k, i) /\ i # h => InPipe(e, i)
  <2> SUFFICES ASSUME NEW m \in 1..Len(k.pipe), k.pipe[m] # h
               PROVE  \E n \in 1..Len(e.pipe) : e.pipe[n] = k.pipe[m]
    BY DEF InPipe
  <2>1. m - 1 \in 1..Len(e.pipe) /\ (m - 1) + 1 = m
    BY <1>2, <1>3, <1>6
  <2> QED
    BY <1>6, <2>1
<1>15. ASSUME NEW n \in 1..Len(e.pipe), Unbroken(e, n)
       PROVE  /\ h < e.pipe[n] /\ e.pipe[n] < next
              /\ \A m \in 1..(n - 1) : e.pipe[m] < e.pipe[n]
              /\ \A i \in log : h < i /\ i <= e.pipe[n] => \E m \in 1..n : e.pipe[m] = i
  <2>1. n + 1 \in 1..Len(k.pipe) /\ Unbroken(k, n + 1) /\ e.pipe[n] = k.pipe[n + 1]
    BY <1>2, <1>6, <1>12, <1>15, SMTT(30)
  <2>2. /\ k.pipe[n + 1] < next
        /\ \A m \in 1..n : k.pipe[m] < k.pipe[n + 1]
    BY <2>1 DEF Good, Ordered
  <2>3. h < e.pipe[n] /\ e.pipe[n] < next
    BY <1>3, <2>1, <2>2
  <2>4. \A m \in 1..(n - 1) : e.pipe[m] < e.pipe[n]
    BY <1>6, <2>1, <2>2, SMTT(30)
  <2>5. ASSUME NEW i \in log, h < i, i <= e.pipe[n]
        PROVE  \E m \in 1..n : e.pipe[m] = i
    <3>1. i \in Nat /\ cur < i /\ i <= k.pipe[n + 1]
      BY <1>9, <2>1, <2>5
    <3>2. PICK m \in 1..(n + 1) : k.pipe[m] = i
      BY <2>1, <3>1 DEF Good, Covers
    <3>3. m # 1
      BY <1>3, <2>5, <3>1, <3>2
    <3>4. m - 1 \in 1..n /\ m - 1 \in 1..Len(e.pipe) /\ (m - 1) + 1 = m
      BY <1>6, <3>3
    <3> QED
      BY <1>6, <3>2, <3>4
  <2> QED
    BY <2>3, <2>4, <2>5
<1>16. Ordered(e, h, next) /\ Covers(e, h, log)
  BY <1>15 DEF Ordered, Covers
<1>17. ASSUME k.phase = "replay" PROVE Replaying(e, h, log, next)
  <2>1. Replaying(k, cur, log, next)
    BY <1>17 DEF Good
  <2>2. \A x : Behind(k, x) => Behind(e, x)
    BY <1>5 DEF Behind
  <2>3. Behind(e, h)
    BY <1>2, <1>3, <2>1, <2>2 DEF Replaying
  <2>4. \A m \in 1..Len(e.pipe) : Behind(e, e.pipe[m])
    <3> SUFFICES ASSUME NEW m \in 1..Len(e.pipe) PROVE Behind(e, e.pipe[m])
      OBVIOUS
    <3>1. m + 1 \in 1..Len(k.pipe) /\ e.pipe[m] = k.pipe[m + 1]
      BY <1>2, <1>6
    <3> QED
      BY <2>1, <2>2, <3>1 DEF Replaying
  <2>5. \A i \in log : h < i /\ i <= e.last => InPipe(e, i)
    <3> SUFFICES ASSUME NEW i \in log, h < i, i <= k.last PROVE InPipe(e, i)
      BY <1>5
    <3>1. i \in Nat /\ cur < i /\ i # h
      BY <1>9
    <3> QED
      BY <1>14, <2>1, <3>1 DEF Replaying
  <2>6. ~e.more => \A i \in log : i > e.last /\ i > h =>
                       i \in e.page \/ i \in e.buffered \/ InPipe(e, i)
    <3> SUFFICES ASSUME ~k.more, NEW i \in log, i > k.last, i > h
                 PROVE  i \in k.page \/ i \in k.buffered \/ InPipe(e, i)
      BY <1>5
    <3>1. i \in Nat /\ i > cur /\ i # h
      BY <1>9
    <3> QED
      BY <1>14, <2>1, <3>1 DEF Replaying
  <2> QED
    BY <1>5, <1>13, <2>1, <2>3, <2>4, <2>5, <2>6 DEF Replaying, PageIsFront
<1>18. ASSUME k.phase = "live" PROVE Tailing(e, h, log)
  <2>1. Tailing(k, cur, log)
    BY <1>18 DEF Good
  <2>2. ASSUME Unbroken(e, Len(e.pipe)), NEW i \in log, i > h
        PROVE  InPipe(e, i)
    <3>1. i \in Nat /\ i > cur /\ i # h
      BY <1>9, <2>2
    <3> QED
      BY <1>13, <1>14, <2>1, <2>2, <3>1 DEF Tailing
  <2> QED
    BY <1>5, <1>13, <2>1, <2>2 DEF Tailing
<1>19. e.pulled <= Len(e.pipe)
  BY <1>1, <1>2, <1>5, <1>6
<1>20. Good(e, h, log, next)
  BY <1>5, <1>9, <1>16, <1>17, <1>18, <1>19 DEF Good
<1> QED
  BY <1>3, <1>4, <1>9, <1>10, <1>11, <1>20

-----------------------------------------------------------------------------
(* The steps of the specification.                                         *)

(* What the invariant says of one tab and its stream. *)
LEMMA TabFacts ==
    ASSUME StreamInv, NEW c \in Clients
    PROVE  /\ Good(conn[c], cursor[c], events, nextId)
           /\ conn[c] \in Streams
           /\ cursor[c] \in Nat /\ cursor[c] < nextId
           /\ nextId \in Ids /\ nextId \in Nat
           /\ events \in SUBSET Nat /\ events \in SUBSET Ids
           /\ \A i \in events : i < nextId
<1>1. nextId \in Ids /\ nextId \in Nat /\ events \in SUBSET Nat /\ events \in SUBSET Ids
  BY DEF StreamInv, LogInv, LogTypeOK, Ids
<1>2. \A i \in events : i < nextId
  <2>1. PICK lo \in 1..nextId : events = lo..(nextId - 1)
    BY DEF StreamInv, LogInv, GapFree
  <2> QED
    BY <1>1, <2>1
<1> QED
  BY <1>1, <1>2 DEF StreamInv, StreamTypeOK, Good

(* A step that leaves the log, the cursors and what was seen alone. *)
LEMMA StreamsChange ==
    ASSUME StreamInv, UNCHANGED <<logVars, cursor, seen>>,
           tab' \in [Clients -> {"connecting", "open", "retry", "offline"}],
           conn' \in [Clients -> Streams],
           pings' \in [Clients -> SUBSET Ids],
           faults' \in Nat,
           \A c \in Clients : Good(conn'[c], cursor[c], events, nextId)
    PROVE  StreamInv'
<1>1. LogInv'
  BY DEF StreamInv, logVars, LogInv, LogTypeOK, GapFree, RecentKept, BelowFloorGone,
         NewestKept, TrimsBehindHead, FloorBehindHead, At
<1>2. StreamTypeOK' /\ NoGap' /\ \A c \in Clients : Good(conn[c], cursor[c], events, nextId)'
  BY DEF StreamInv, StreamTypeOK, NoGap, logVars
<1> QED
  BY <1>1, <1>2 DEF StreamInv

(* One stream changes. *)
LEMMA OneStreamChanges ==
    ASSUME StreamInv, NEW c \in Clients, NEW k, UpdateStream(c, k),
           Good(k, cursor[c], events, nextId)
    PROVE  StreamInv'
<1>1. k \in Streams
  BY DEF Good
<1>2. conn' \in [Clients -> Streams] /\ \A d \in Clients : conn'[d] = IF d = c THEN k ELSE conn[d]
  BY <1>1 DEF UpdateStream, StreamInv, StreamTypeOK
<1>3. \A d \in Clients : Good(conn'[d], cursor[d], events, nextId)
  BY <1>2 DEF StreamInv
<1> QED
  BY <1>2, <1>3, StreamsChange DEF UpdateStream, StreamInv, StreamTypeOK

(* One tab closes its stream. *)
LEMMA OneTabCloses ==
    ASSUME StreamInv, NEW c \in Clients,
           NEW t \in {"connecting", "open", "retry", "offline"},
           tab' = [tab EXCEPT ![c] = t], conn' = [conn EXCEPT ![c] = NoStream],
           pings' \in [Clients -> SUBSET Ids], faults' \in Nat,
           UNCHANGED <<logVars, cursor, seen>>
    PROVE  StreamInv'
<1>1. Good(NoStream, cursor[c], events, nextId)
  BY TabFacts, NoStreamGood
<1>2. conn' \in [Clients -> Streams] /\ \A d \in Clients : conn'[d] = IF d = c THEN NoStream ELSE conn[d]
  BY NoStreamFacts DEF StreamInv, StreamTypeOK
<1>3. \A d \in Clients : Good(conn'[d], cursor[d], events, nextId)
  BY <1>1, <1>2 DEF StreamInv
<1> QED
  BY <1>2, <1>3, StreamsChange DEF StreamInv, StreamTypeOK

(* An event is committed; every stream hears of it, or every stream ends. *)
LEMMA CommitStep ==
    ASSUME StreamInv, Commit, LogInv',
           tab' \in [Clients -> {"connecting", "open", "retry", "offline"}],
           pings' \in [Clients -> SUBSET Ids],
           faults' \in Nat, UNCHANGED <<cursor, seen>>,
           \/ conn' = [c \in Clients |-> Notified(conn[c], nextId)]
           \/ conn' = [c \in Clients |-> NoStream]
    PROVE  StreamInv'
<1>1. events' = events \cup {nextId} /\ nextId' = nextId + 1
  BY DEF Commit
<1>2. ASSUME NEW c \in Clients PROVE Good(conn'[c], cursor[c], events', nextId')
  <2>1. CASE conn' = [d \in Clients |-> Notified(conn[d], nextId)]
    <3>1. Good(Notified(conn[c], nextId), cursor[c], events \cup {nextId}, nextId + 1)
      BY TabFacts, NotifiedGood
    <3> QED
      BY <1>1, <2>1, <3>1
  <2>2. CASE conn' = [d \in Clients |-> NoStream]
    <3>1. Good(NoStream, cursor[c], events', nextId')
      BY <1>1, TabFacts, NoStreamGood
    <3> QED
      BY <2>2, <3>1
  <2> QED
    BY <2>1, <2>2
<1>3. conn' \in [Clients -> Streams]
  <2>1. \A c \in Clients : conn'[c] \in Streams
    BY <1>2 DEF Good
  <2>2. CASE conn' = [d \in Clients |-> Notified(conn[d], nextId)]
    BY <2>1, <2>2
  <2>3. CASE conn' = [d \in Clients |-> NoStream]
    BY <2>1, <2>3
  <2> QED
    BY <2>2, <2>3
<1>4. NoGap'
  <2> SUFFICES ASSUME NEW c \in Clients, NEW i \in events', i <= cursor[c]
               PROVE  i \in seen[c]
    BY DEF NoGap
  <2>1. i # nextId
    BY TabFacts
  <2> QED
    BY <1>1, <2>1 DEF StreamInv, NoGap
<1>5. StreamTypeOK'
  BY <1>3 DEF StreamTypeOK, StreamInv
<1> QED
  BY <1>2, <1>4, <1>5 DEF StreamInv

(* Deleting events owes nobody more than before. *)
LEMMA TrimStep ==
    ASSUME StreamInv, LogInv', events' \subseteq events, nextId' = nextId,
           UNCHANGED streamVars
    PROVE  StreamInv'
<1>1. \A c \in Clients : Good(conn[c], cursor[c], events', nextId)
  BY TrimmedGood DEF StreamInv
<1>2. NoGap' /\ StreamTypeOK'
  BY DEF NoGap, StreamTypeOK, StreamInv, streamVars
<1> QED
  BY <1>1, <1>2 DEF StreamInv, streamVars

(* A tab is handed an event: its cursor moves to the next retained id. *)
LEMMA DeliveryStep ==
    ASSUME StreamInv, NEW c \in Clients, OnMessage(c)
    PROVE  /\ StreamInv'
           /\ F!Receive(c)
<1> DEFINE k == conn[c]
           h == Head(k.pipe)
<1>1. /\ h \in Ids /\ cursor[c] < h /\ h < nextId
      /\ \A i \in events : cursor[c] < i => h <= i
      /\ Good(Served(k), h, events, nextId)
  BY TabFacts, ServedGood DEF OnMessage
<1>2. h \in Nat /\ cursor[c] \in Nat /\ nextId \in Nat
  BY <1>1, TabFacts DEF Ids
<1>3. /\ cursor' = [cursor EXCEPT ![c] = h]
      /\ seen' = [seen EXCEPT ![c] = @ \cup {h}]
      /\ conn' = [conn EXCEPT ![c] = Served(k)]
      /\ UNCHANGED <<logVars, tab, pings, faults>>
  BY <1>1, <1>2 DEF OnMessage
<1> HIDE DEF k, h
<1>4. cursor \in [Clients -> Nat] /\ seen \in [Clients -> SUBSET Ids] /\ conn \in [Clients -> Streams]
  BY DEF StreamInv, StreamTypeOK
<1>5. StreamTypeOK'
  <2>1. Served(k) \in Streams
    BY <1>1 DEF Good
  <2> QED
    BY <1>1, <1>2, <1>3, <1>4, <2>1 DEF StreamInv, StreamTypeOK
<1>6. \A d \in Clients : Good(conn'[d], cursor'[d], events, nextId)
  BY <1>1, <1>3, <1>4 DEF StreamInv
<1>7. NoGap'
  <2> SUFFICES ASSUME NEW d \in Clients, NEW i \in events, i <= cursor'[d]
               PROVE  i \in seen'[d]
    BY <1>3 DEF NoGap, logVars
  <2>1. CASE d # c
    BY <1>3, <1>4, <2>1 DEF StreamInv, NoGap
  <2>2. CASE d = c
    <3>1. i <= h /\ i \in Nat
      BY <1>3, <1>4, <2>2, TabFacts
    <3>2. i <= cursor[c] \/ i = h
      BY <1>1, <1>2, <3>1
    <3>3. i <= cursor[c] => i \in seen[c]
      BY DEF StreamInv, NoGap
    <3> QED
      BY <1>3, <1>4, <2>2, <3>2, <3>3
  <2> QED
    BY <2>1, <2>2
<1>8. LogInv'
  BY <1>3 DEF StreamInv, logVars, LogInv, LogTypeOK, GapFree, RecentKept, BelowFloorGone,
              NewestKept, TrimsBehindHead, FloorBehindHead, At
<1>9. StreamInv'
  BY <1>3, <1>5, <1>6, <1>7, <1>8 DEF StreamInv, logVars
<1>10. F!Receive(c)
  <2>1. h \in 1..(nextId - 1)
    BY <1>1, <1>2 DEF Ids
  <2>2. h > cursor[c] /\ \A j \in events : j > cursor[c] => h <= j
    BY <1>1, <1>2, TabFacts
  <2> QED
    BY <1>3, <2>1, <2>2 DEF F!Receive, logVars
<1> QED
  BY <1>9, <1>10

(* Steps of the worker's half of one stream. *)
LEMMA ServeStep ==
    ASSUME StreamInv, NEW c \in Clients, Serves(c)
    PROVE  StreamInv' /\ UNCHANGED <<events, nextId, seen, cursor>>
<1>0. UNCHANGED <<events, nextId, seen, cursor>>
  BY DEF Serves, Accept, ReadPage, EmitRow, EmitBuffered, GoLive, Pull, UpdateStream, logVars
<1>1. CASE Accept(c)
  <2>1. Good(Opened(cursor[c]), cursor[c], events, nextId)
    BY TabFacts, OpenedGood
  <2> QED
    BY <1>1, <2>1, <1>0, OneStreamChanges DEF Accept
<1>2. CASE ReadPage(c)
  <2>1. Good(PageRead(conn[c], events), cursor[c], events, nextId)
    BY <1>2, TabFacts, PageReadGood DEF ReadPage
  <2> QED
    BY <1>2, <2>1, <1>0, OneStreamChanges DEF ReadPage
<1>3. CASE EmitRow(c)
  <2>1. PICK id \in First(conn[c].page) : UpdateStream(c, RowEmitted(conn[c], id))
    BY <1>3 DEF EmitRow
  <2>2. Good(RowEmitted(conn[c], id), cursor[c], events, nextId)
    BY <1>3, TabFacts, RowEmittedGood DEF EmitRow
  <2> QED
    BY <2>1, <2>2, <1>0, OneStreamChanges
<1>4. CASE EmitBuffered(c)
  <2>1. PICK id \in First(conn[c].buffered) : UpdateStream(c, BufferedEmitted(conn[c], id))
    BY <1>4 DEF EmitBuffered
  <2>2. Good(BufferedEmitted(conn[c], id), cursor[c], events, nextId)
    BY <1>4, TabFacts, BufferedEmittedGood DEF EmitBuffered
  <2> QED
    BY <2>1, <2>2, <1>0, OneStreamChanges
<1>5. CASE GoLive(c)
  <2>1. Good([conn[c] EXCEPT !.phase = "live"], cursor[c], events, nextId)
    BY <1>5, TabFacts, WentLiveGood DEF GoLive
  <2> QED
    BY <1>5, <2>1, <1>0, OneStreamChanges DEF GoLive
<1>6. CASE Pull(c)
  <2>1. Good([conn[c] EXCEPT !.pulled = @ + 1], cursor[c], events, nextId)
    BY <1>6, TabFacts, PulledGood DEF Pull
  <2> QED
    BY <1>6, <2>1, <1>0, OneStreamChanges DEF Pull
<1> QED
  BY <1>0, <1>1, <1>2, <1>3, <1>4, <1>5, <1>6 DEF Serves

(* Steps of one tab that hand it no event. *)
LEMMA TabStep ==
    ASSUME StreamInv, NEW c \in Clients,
           Open(c) \/ OnLagged(c) \/ RetryTimer(c) \/ OnPing(c) \/ Breaks(c)
    PROVE  StreamInv' /\ UNCHANGED <<events, nextId, seen, cursor>>
<1>0. UNCHANGED <<events, nextId, seen, cursor>>
  BY DEF Open, OnLagged, RetryTimer, OnPing, Breaks, StreamDrops, Offline, Resume, logVars
<1>t. /\ tab \in [Clients -> {"connecting", "open", "retry", "offline"}]
      /\ conn \in [Clients -> Streams]
      /\ pings \in [Clients -> SUBSET Ids]
      /\ faults \in Nat
  BY DEF StreamInv, StreamTypeOK
<1>1. CASE Open(c)
  <2>1. tab' \in [Clients -> {"connecting", "open", "retry", "offline"}]
    BY <1>t, <1>1 DEF Open
  <2> QED
    BY <1>t, <1>1, <2>1, <1>0, StreamsChange DEF Open, StreamInv
<1>2. CASE OnLagged(c) \/ RetryTimer(c)
  BY <1>t, <1>2, <1>0, OneTabCloses DEF OnLagged, RetryTimer, Connect
<1>3. CASE OnPing(c)
  <2>1. pings' \in [Clients -> SUBSET Ids] /\ faults' = faults /\ UNCHANGED <<logVars, cursor, seen>>
    BY <1>t, <1>3 DEF OnPing
  <2>2. CASE Connect(c)
    BY <1>t, <2>1, <2>2, <1>0, OneTabCloses DEF Connect
  <2>3. CASE UNCHANGED <<tab, conn>>
    BY <1>t, <2>1, <2>3, <1>0, StreamsChange DEF StreamInv
  <2> QED
    BY <1>3, <2>2, <2>3 DEF OnPing
<1>4. CASE Breaks(c)
  <2>1. faults' \in Nat
    BY <1>t, <1>4 DEF Breaks, StreamDrops, Offline, Resume, Fault
  <2>2. CASE StreamDrops(c)
    BY <1>t, <2>1, <2>2, <1>0, OneTabCloses DEF StreamDrops
  <2>3. CASE Offline(c)
    BY <1>t, <2>1, <2>3, <1>0, OneTabCloses DEF Offline
  <2>4. CASE Resume(c)
    BY <1>t, <2>1, <2>4, <1>0, OneTabCloses DEF Resume, Connect
  <2> QED
    BY <1>4, <2>2, <2>3, <2>4 DEF Breaks
<1> QED
  BY <1>0, <1>1, <1>2, <1>3, <1>4

(* Steps of the log. *)
LEMMA PublishStep ==
    ASSUME StreamInv, NEW w \in Writers, Publish(w)
    PROVE  StreamInv' /\ F!Publish
<1>1. Commit
  BY DEF Publish, Publishes, LogAppend, Retry
<1>2. LogInv'
  <2>1. LogNext
    BY DEF Publish, Publishes, LogNext
  <2> QED
    BY <2>1, LogNextInv DEF StreamInv
<1>3. pings' \in [Clients -> SUBSET Ids]
  BY DEF Publish, StreamInv, StreamTypeOK, LogInv, LogTypeOK
<1>4. StreamInv'
  BY <1>1, <1>2, <1>3, CommitStep DEF Publish, StreamInv, StreamTypeOK
<1> QED
  BY <1>1, <1>4 DEF F!Publish, Commit, Publish

LEMMA InternalStep ==
    ASSUME StreamInv, LogInternal
    PROVE  StreamInv' /\ (F!Forget \/ UNCHANGED <<events, nextId, seen, cursor>>)
<1>1. LogInv'
  <2>1. LogNext
    BY DEF LogInternal, LogNext
  <2> QED
    BY <2>1, LogNextInv DEF StreamInv
<1>2. nextId' = nextId
  BY DEF LogInternal, QuotaHit, NoteFails, RetryFails, Trims, TrimReadsHead,
         TrimHasNothing, TrimCommits, TrimAborts
<1>3. \/ events' = events
      \/ \E n \in 0..nextId : events' = {i \in events : i > n}
  <2>1. ASSUME NEW p \in Callers, TrimCommits(p)
        PROVE  \E n \in 0..nextId : events' = {i \in events : i > n}
    <3>1. trimTo[p] \in Nat /\ trimTo[p] < nextId - PanicRetention /\ nextId \in Nat
      BY <2>1 DEF StreamInv, LogInv, TrimsBehindHead, TrimCommits, LogTypeOK, Ids
    <3>2. trimTo[p] \in 0..nextId
      BY <3>1, LogAssumption
    <3> QED
      BY <2>1, <3>2 DEF TrimCommits
  <2> QED
    BY <2>1 DEF LogInternal, QuotaHit, NoteFails, RetryFails, Trims, TrimReadsHead,
                TrimHasNothing, TrimAborts
<1>4. StreamInv'
  BY <1>1, <1>2, <1>3, TrimStep DEF LogInternal
<1> QED
  BY <1>2, <1>3, <1>4 DEF LogInternal, F!Forget, streamVars

(* Steps of the worker's end. *)
LEMMA DeathStep ==
    ASSUME StreamInv, WorkerDies \/ WorkerDiesAfterCommit
    PROVE  StreamInv' /\ (F!Publish \/ UNCHANGED <<events, nextId, seen, cursor>>)
<1>1. /\ tab' \in [Clients -> {"connecting", "open", "retry", "offline"}]
      /\ faults' \in Nat /\ pings' = pings /\ UNCHANGED <<cursor, seen>>
      /\ conn' = [c \in Clients |-> NoStream]
  BY DEF WorkerDies, WorkerDiesAfterCommit, AllStreamsDrop, Fault, StreamInv, StreamTypeOK
<1>2. CASE WorkerDies
  <2>1. LogInv'
    <3>1. LogNext
      BY <1>2 DEF WorkerDies, LogNext
    <3> QED
      BY <3>1, LogNextInv DEF StreamInv
  <2>2. UNCHANGED <<events, nextId>>
    BY <1>2 DEF WorkerDies, WorkerKilled
  <2>3. \A c \in Clients : Good(conn'[c], cursor[c], events, nextId)
    BY <1>1, TabFacts, NoStreamGood
  <2>4. StreamTypeOK' /\ NoGap'
    BY <1>1, <2>2, NoStreamFacts DEF StreamInv, StreamTypeOK, NoGap
  <2> QED
    BY <1>1, <2>1, <2>2, <2>3, <2>4 DEF StreamInv
<1>3. CASE WorkerDiesAfterCommit
  <2>1. Commit /\ pc' = [p \in Callers |-> "idle"]
    BY <1>3 DEF WorkerDiesAfterCommit
  <2>2. LogInv'
    BY <2>1, CommitKeepsInv DEF StreamInv, Positions
  <2>3. StreamInv'
    BY <1>1, <2>1, <2>2, CommitStep DEF StreamInv, StreamTypeOK
  <2> QED
    BY <1>1, <2>1, <2>3 DEF Commit, F!Publish
<1> QED
  BY <1>2, <1>3

LEMMA StreamInitInv == StreamInit => StreamInv
<1> SUFFICES ASSUME StreamInit PROVE StreamInv
  OBVIOUS
<1>1. LogInv
  BY LogInitInv DEF StreamInit
<1>2. StreamTypeOK /\ NoGap
  BY NoStreamFacts DEF StreamInit, LogInit, StreamTypeOK, NoGap
<1>3. \A c \in Clients : Good(conn[c], cursor[c], events, nextId)
  BY NoStreamGood DEF StreamInit, LogInit
<1> QED
  BY <1>1, <1>2, <1>3 DEF StreamInv

(* Every step keeps the invariant and is a step of the feed or a stutter. *)
LEMMA StreamNextInv ==
    ASSUME StreamInv, [StreamNext]_vars
    PROVE  StreamInv' /\ [F!FeedNext]_(F!feedVars)
<1> USE DEF F!FeedNext, F!feedVars
<1>1. ASSUME NEW w \in Writers, Publish(w)
      PROVE  StreamInv' /\ [F!FeedNext]_(F!feedVars)
  BY <1>1, PublishStep
<1>2. CASE LogInternal
  BY <1>2, InternalStep
<1>3. ASSUME NEW c \in Clients, Serves(c)
      PROVE  StreamInv' /\ [F!FeedNext]_(F!feedVars)
  BY <1>3, ServeStep
<1>4. ASSUME NEW c \in Clients, Consumes(c)
      PROVE  StreamInv' /\ [F!FeedNext]_(F!feedVars)
  <2>1. CASE OnMessage(c)
    BY <2>1, DeliveryStep
  <2>2. CASE Open(c) \/ OnLagged(c) \/ RetryTimer(c) \/ OnPing(c)
    BY <2>2, TabStep
  <2> QED
    BY <1>4, <2>1, <2>2 DEF Consumes
<1>5. ASSUME NEW c \in Clients, Breaks(c)
      PROVE  StreamInv' /\ [F!FeedNext]_(F!feedVars)
  BY <1>5, TabStep
<1>6. CASE WorkerDies \/ WorkerDiesAfterCommit
  BY <1>6, DeathStep
<1>7. CASE UNCHANGED vars
  <2>1. StreamInv'
    BY <1>7, StreamsChange DEF vars, streamVars, StreamInv, StreamTypeOK
  <2> QED
    BY <1>7, <2>1 DEF vars, streamVars, logVars
<1> QED
  BY <1>1, <1>2, <1>3, <1>4, <1>5, <1>6, <1>7 DEF StreamNext

-----------------------------------------------------------------------------
(* The inductive invariant of the control plane. *)
THEOREM StreamInvariant == StreamSpec => []StreamInv
<1>1. StreamInv /\ [StreamNext]_vars => StreamInv'
  BY StreamNextInv
<1> QED
  BY <1>1, StreamInitInv, PTL DEF StreamSpec

(* Type correctness of tabs, streams and broadcasts. *)
THEOREM StreamTypeCorrect == StreamSpec => []StreamTypeOK
<1>1. StreamInv => StreamTypeOK
  BY DEF StreamInv
<1> QED
  BY <1>1, StreamInvariant, PTL

(* A tab's cursor never passes a retained event it was not handed: lag,    *)
(* reconnection, replay and concurrent trims lose nothing (handler.js      *)
(* 53-123, app.js 166-207).                                                *)
THEOREM StreamNeverSkips == StreamSpec => []NoGap
<1>1. StreamInv => NoGap
  BY DEF StreamInv
<1> QED
  BY <1>1, StreamInvariant, PTL

(* Replay and live tail meet without repeating or swapping an event. *)
THEOREM StreamIsOrdered == StreamSpec => []PipeOrdered
<1>1. StreamInv => PipeOrdered
  BY DEF StreamInv, Good, Ordered, PipeOrdered
<1> QED
  BY <1>1, StreamInvariant, PTL

(* The control plane implements the feed a tab was promised. *)
THEOREM StreamImplementsFeed == StreamSpec => ImplementsFeed
<1>1. StreamInit => F!FeedInit
  BY DEF StreamInit, LogInit, F!FeedInit
<1>2. StreamInv /\ [StreamNext]_vars => [F!FeedNext]_(F!feedVars)
  BY StreamNextInv
<1> QED
  BY <1>1, <1>2, StreamInvariant, PTL DEF StreamSpec, ImplementsFeed, F!FeedSpec

-----------------------------------------------------------------------------
(***************************************************************************)
(* A live queue's bound.  A lagged frame may still be on its way to the    *)
(* tab when the queue has drained and the next event clears `lagging`: a   *)
(* second mark is then possible, but only from a queue that was below the  *)
(* high water mark since.                                                  *)
(***************************************************************************)
Drained(k) ==
    k.phase = "live" => k.lagging \/ Unbroken(k, Len(k.pipe)) \/ Queued(k) <= HighWater

AllDrained == \A c \in Clients : Drained(conn[c])

QueueGrows(k, e) ==
    k.phase = "live" /\ Queued(e) > Queued(k) =>
        \/ Queued(e) <= HighWater + 1
        \/ /\ Unbroken(k, Len(k.pipe))
           /\ e = [Emit(k, Lagged) EXCEPT !.lagging = TRUE]

(* An append leaves room, marks, or changes nothing. *)
LEMMA NotifiedQueue ==
    ASSUME NEW k \in Streams, Drained(k), NEW id \in Nat
    PROVE  Drained(Notified(k, id)) /\ QueueGrows(k, Notified(k, id))
<1>1. /\ k.pulled \in Nat /\ Len(k.pipe) \in Nat /\ k.pipe \in Seq(Nat) /\ Lagged \in Nat
      /\ k.phase \in {"none", "replay", "live"}
  BY DEF Streams, Lagged
<1>2. Queued(k) \in Int /\ DesiredSize(k) = HighWater - Queued(k) /\ HighWater \in Nat
  BY <1>1, StreamAssumption DEF DesiredSize, Queued
<1>3. CASE k.phase = "none"
  <2>1. Notified(k, id) = k
    BY <1>3 DEF Notified
  <2>2. QED
    BY <1>3, <2>1 DEF Drained, QueueGrows
<1>4. CASE k.phase = "replay"
  <2>1. Notified(k, id).phase = "replay"
    BY <1>4 DEF Notified, Streams
  <2>2. QED
    BY <1>4, <2>1 DEF Drained, QueueGrows
<1>5. CASE k.phase = "live" /\ DesiredSize(k) > 0
  <2>1. Notified(k, id) = [Emit(k, id) EXCEPT !.last = id, !.lagging = FALSE]
    BY <1>2, <1>5 DEF Notified
  <2>2. PICK e \in Streams : e = Notified(k, id)
    BY <2>1, TailEmitFacts
  <2>3. e.pipe = Append(k.pipe, id) /\ e.pulled = k.pulled
    BY <2>1, <2>2, TailEmitFacts, ZenonT(30)
  <2>4. Len(e.pipe) = Len(k.pipe) + 1
    BY <1>1, <2>3
  <2>5. Queued(e) <= HighWater
    BY <1>1, <1>2, <1>5, <2>3, <2>4 DEF Queued
  <2>6. Queued(e) \in Int
    BY <1>1, <2>3, <2>4 DEF Queued
  <2>7. QED
    BY <1>2, <2>2, <2>5, <2>6 DEF Drained, QueueGrows
<1>6. CASE k.phase = "live" /\ DesiredSize(k) <= 0 /\ ~k.lagging
  <2>1. Notified(k, id) = [Emit(k, Lagged) EXCEPT !.lagging = TRUE]
    BY <1>2, <1>6 DEF Notified
  <2>2. PICK e \in Streams : e = Notified(k, id)
    BY <2>1, MarkFacts
  <2>3. e.pipe = Append(k.pipe, Lagged) /\ e.pulled = k.pulled /\ e.lagging
    BY <2>1, <2>2, MarkFacts, ZenonT(30)
  <2>4. Queued(e) = Queued(k) + 1
    BY <1>1, <2>3 DEF Queued
  <2>5. Unbroken(k, Len(k.pipe)) \/ Queued(k) <= HighWater
    BY <1>6 DEF Drained
  <2>6. Drained(e)
    BY <2>3 DEF Drained
  <2>7. QueueGrows(k, e)
    BY <1>2, <2>1, <2>2, <2>4, <2>5 DEF QueueGrows
  <2>8. QED
    BY <2>2, <2>6, <2>7
<1>7. CASE k.phase = "live" /\ DesiredSize(k) <= 0 /\ k.lagging
  <2>1. Notified(k, id) = k
    BY <1>2, <1>7 DEF Notified
  <2>2. QED
    BY <1>2, <1>7, <2>1 DEF Drained, QueueGrows
<1>8. QED
  BY <1>1, <1>2, <1>3, <1>4, <1>5, <1>6, <1>7

(* A frame that leaves the queue, or is delivered, makes it no longer. *)
LEMMA MovedQueue ==
    ASSUME NEW k \in Streams, k.pulled <= Len(k.pipe), Drained(k)
    PROVE  /\ Queued(k) > 0 => Drained([k EXCEPT !.pulled = @ + 1]) /\ QueueGrows(k, [k EXCEPT !.pulled = @ + 1])
           /\ k.pulled > 0 => Drained(Served(k)) /\ QueueGrows(k, Served(k))
<1>1. k.pulled \in Nat /\ Len(k.pipe) \in Nat /\ k.pipe \in Seq(Nat) /\ HighWater \in Nat
  BY StreamAssumption DEF Streams
<1>2. ASSUME Queued(k) > 0, NEW e, e = [k EXCEPT !.pulled = @ + 1] PROVE Drained(e) /\ QueueGrows(k, e)
  <2>1. e.pipe = k.pipe /\ e.phase = k.phase /\ e.lagging = k.lagging /\ e.pulled = k.pulled + 1
    BY <1>2 DEF Streams
  <2>2. Queued(e) = Queued(k) - 1 /\ Queued(k) \in Int
    BY <1>1, <2>1 DEF Queued
  <2>3. QED
    BY <1>1, <2>1, <2>2 DEF Drained, QueueGrows, Unbroken
<1>3. ASSUME k.pulled > 0, NEW e, e = Served(k) PROVE Drained(e) /\ QueueGrows(k, e)
  <2>1. e.pipe = Tail(k.pipe) /\ e.phase = k.phase /\ e.lagging = k.lagging /\ e.pulled = k.pulled - 1
    BY <1>3 DEF Served, Streams
  <2>2. k.pipe # <<>>
    BY <1>1, <1>3
  <2>3. Len(e.pipe) = Len(k.pipe) - 1 /\ \A m \in 1..(Len(k.pipe) - 1) : e.pipe[m] = k.pipe[m + 1]
    BY <1>1, <2>1, <2>2
  <2>4. Queued(e) = Queued(k) /\ Queued(k) \in Int
    BY <1>1, <2>1, <2>3 DEF Queued
  <2>5. Unbroken(k, Len(k.pipe)) => Unbroken(e, Len(e.pipe))
    BY <1>1, <2>3 DEF Unbroken
  <2>6. QED
    BY <1>1, <2>1, <2>4, <2>5 DEF Drained, QueueGrows
<1>4. QED
  BY <1>2, <1>3

(* Going live, a stream has met no lagged frame; it is not live before. *)
LEMMA ServeQueue ==
    ASSUME StreamInv, AllDrained, NEW c \in Clients, Serves(c)
    PROVE  Drained(conn'[c]) /\ QueueGrows(conn[c], conn'[c])
<1> DEFINE k == conn[c]
<1>1. conn \in [Clients -> Streams] /\ k \in Streams /\ Good(k, cursor[c], events, nextId) /\ Drained(k)
  BY TabFacts DEF AllDrained, StreamInv, StreamTypeOK
<1>2. CASE Accept(c)
  <2>1. conn'[c] = Opened(cursor[c]) /\ k.phase = "none"
    BY <1>1, <1>2 DEF Accept, UpdateStream
  <2>2. QED
    BY <2>1 DEF Drained, QueueGrows, Opened
<1>3. CASE ReadPage(c)
  <2>1. conn'[c] = PageRead(k, events) /\ k.phase = "replay"
    BY <1>1, <1>3 DEF ReadPage, UpdateStream
  <2>2. conn'[c].phase = "replay"
    BY <1>1, <2>1 DEF PageRead, Streams
  <2>3. QED
    BY <2>1, <2>2 DEF Drained, QueueGrows
<1>4. CASE EmitRow(c)
  <2>1. PICK id : conn'[c] = RowEmitted(k, id) /\ k.phase = "replay"
    BY <1>1, <1>4 DEF EmitRow, UpdateStream
  <2>2. conn'[c].phase = "replay"
    BY <1>1, <2>1 DEF RowEmitted, Emit, Streams
  <2>3. QED
    BY <2>1, <2>2 DEF Drained, QueueGrows
<1>5. CASE EmitBuffered(c)
  <2>1. PICK id : conn'[c] = BufferedEmitted(k, id) /\ k.phase = "replay"
    BY <1>1, <1>5 DEF EmitBuffered, UpdateStream
  <2>2. conn'[c].phase = "replay"
    BY <1>1, <2>1 DEF BufferedEmitted, Emit, Streams
  <2>3. QED
    BY <2>1, <2>2 DEF Drained, QueueGrows
<1>6. CASE GoLive(c)
  <2>1. conn'[c] = [k EXCEPT !.phase = "live"] /\ k.phase = "replay"
    BY <1>1, <1>6 DEF GoLive, UpdateStream
  <2>2. Unbroken(k, Len(k.pipe))
    BY <1>1, <2>1 DEF Good, Replaying
  <2>3. conn'[c].pipe = k.pipe
    BY <1>1, <2>1 DEF Streams
  <2>4. QED
    BY <2>1, <2>2, <2>3 DEF Drained, QueueGrows, Unbroken
<1>7. CASE Pull(c)
  <2>1. conn'[c] = [k EXCEPT !.pulled = @ + 1] /\ Queued(k) > 0
    BY <1>1, <1>7 DEF Pull, UpdateStream
  <2>2. k.pulled <= Len(k.pipe)
    BY <1>1 DEF Good
  <2>3. QED
    BY <1>1, <2>1, <2>2, MovedQueue
<1>8. QED
  BY <1>2, <1>3, <1>4, <1>5, <1>6, <1>7 DEF Serves

(* Whatever the step, every stream keeps its bound: the one that is served *)
(* or consumed, those that hear of an append, and the rest, untouched.     *)
LEMMA StepQueue ==
    ASSUME StreamInv, AllDrained, [StreamNext]_vars, NEW c \in Clients
    PROVE  Drained(conn'[c]) /\ QueueGrows(conn[c], conn'[c])
<1> DEFINE k == conn[c]
           bounded == Drained(conn'[c]) /\ QueueGrows(conn[c], conn'[c])
<1>0. conn \in [Clients -> Streams] /\ k \in Streams /\ Drained(k) /\ k.pulled <= Len(k.pipe)
      /\ nextId \in Nat
  BY TabFacts DEF AllDrained, StreamInv, StreamTypeOK, Good
<1>1. ASSUME conn'[c] = k PROVE bounded
  <2>1. ~(Queued(k) > Queued(k))
    BY <1>0 DEF Queued, Streams
  <2>2. QED
    BY <1>0, <1>1, <2>1 DEF QueueGrows
<1>2. ASSUME conn'[c] = NoStream PROVE bounded
  <2>1. NoStream.phase # "live" /\ Queued(NoStream) = 0 /\ HighWater \in Nat
    BY StreamAssumption DEF NoStream, Queued
  <2>2. QED
    BY <1>2, <2>1 DEF Drained, QueueGrows
<1>3. ASSUME NEW w \in Writers, Publish(w) PROVE bounded
  <2>1. conn'[c] = Notified(k, nextId)
    BY <1>3 DEF Publish
  <2>2. QED
    BY <1>0, <2>1, NotifiedQueue
<1>4. CASE LogInternal \/ UNCHANGED vars
  BY <1>1, <1>4 DEF LogInternal, vars, streamVars
<1>5. ASSUME NEW d \in Clients, Serves(d) PROVE bounded
  <2>1. d # c => conn'[c] = k
    BY <1>0, <1>5 DEF Serves, Accept, ReadPage, EmitRow, EmitBuffered, GoLive, Pull, UpdateStream
  <2>2. QED
    BY <1>1, <1>5, <2>1, ServeQueue
<1>6. ASSUME NEW d \in Clients, Consumes(d) \/ Breaks(d) PROVE bounded
  <2>1. CASE OnMessage(d)
    <3>1. conn' = [conn EXCEPT ![d] = Served(@)] /\ conn[d].pulled > 0
      BY <2>1 DEF OnMessage
    <3>2. CASE d = c
      BY <1>0, <3>1, <3>2, MovedQueue
    <3>3. CASE d # c
      BY <1>0, <1>1, <3>1, <3>3
    <3>4. QED
      BY <3>2, <3>3
  <2>2. CASE ~OnMessage(d)
    <3>1. conn' = conn \/ conn' = [conn EXCEPT ![d] = NoStream]
      BY <1>6, <2>2 DEF Consumes, Breaks, Open, OnLagged, RetryTimer, OnPing, Connect, StreamDrops, Offline, Resume
    <3>2. conn'[c] = k \/ conn'[c] = NoStream
      BY <1>0, <3>1
    <3>3. QED
      BY <1>1, <1>2, <3>2
  <2>3. QED
    BY <2>1, <2>2
<1>7. CASE WorkerDies \/ WorkerDiesAfterCommit
  <2>1. conn'[c] = NoStream
    BY <1>7 DEF WorkerDies, WorkerDiesAfterCommit, AllStreamsDrop
  <2>2. QED
    BY <1>2, <2>1
<1>8. QED
  BY <1>3, <1>4, <1>5, <1>6, <1>7 DEF StreamNext

LEMMA InitDrained == StreamInit => AllDrained
BY DEF StreamInit, AllDrained, Drained, NoStream

(* Past the high water mark a live stream's queue takes one lagged frame   *)
(* and nothing more (handler.js 60-79), whatever replay had left in it and *)
(* however often the reader falls behind.                                  *)
THEOREM LiveQueueIsBounded == StreamSpec => LiveQueueBounded
<1>1. StreamInv /\ AllDrained /\ [StreamNext]_vars => AllDrained'
  BY StepQueue DEF AllDrained
<1>2. StreamInv /\ AllDrained /\ [StreamNext]_vars =>
        [\A c \in Clients :
           conn[c].phase = "live" /\ Queued(conn[c])' > Queued(conn[c]) =>
             \/ Queued(conn[c])' <= HighWater + 1
             \/ /\ Unbroken(conn[c], Len(conn[c].pipe))
                /\ conn'[c] = [Emit(conn[c], Lagged) EXCEPT !.lagging = TRUE]]_vars
  BY StepQueue DEF QueueGrows, Queued
<1>3. QED
  BY <1>1, <1>2, InitDrained, StreamInvariant, PTL DEF StreamSpec, LiveQueueBounded
=============================================================================
