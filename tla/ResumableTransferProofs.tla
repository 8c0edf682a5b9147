----------------------- MODULE ResumableTransferProofs ----------------------
(***************************************************************************)
(* Proofs about ResumableTransfer, for payloads of any length and any      *)
(* number of attempts and faults: what lies under a content address, what  *)
(* a resume record may be trusted for, and what is announced.              *)
(***************************************************************************)
EXTENDS ResumableTransfer, FiniteSetTheorems, SequenceTheorems, TLAPS

\* What is written never goes on behind a piece of a block.
AllWhole(s) == \A i \in 1..Len(s) : Whole(s[i])

Shaped(s) == \A i \in 1..(Len(s) - 1) : Whole(s[i])

SameShape(a, b) == Len(a) = Len(b) /\ \A i \in 1..Len(a) : Whole(a[i]) <=> Whole(b[i])

\* A beginning of the payload; of its last block it may be a piece.
Begins(s, full) ==
    /\ Len(s) <= Len(full)
    /\ \A i \in 1..Len(s) :
         s[i] = full[i] \/ (i = Len(s) /\ Whole(full[i]) /\ s[i] = -full[i])

\* A point counts what its hash state absorbed, and unless a prefix was
\* dropped that was the beginning of the payload.
PointHolds(p, full, lost) ==
    /\ Len(p.hash) = p.blocks
    /\ p.blocks <= Len(full)
    /\ AllWhole(p.hash)
    /\ ~lost => Begins(p.hash, full)

FileHolds == staged # Absent => Shaped(staged) /\ (~dropped => Begins(staged, payload))

PointsHold ==
    /\ PointHolds(meta.resume, payload, dropped)
    /\ PointHolds(att.from, payload, dropped)
    /\ PointHolds(att.progress, payload, dropped)

\* What the attempt wrote and what it hashed.
DataHolds ==
    /\ Shaped(att.data)
    /\ SameShape(att.hashed, att.data)
    /\ ~dropped => att.hashed = att.data /\ Begins(att.data, payload)

StreamHolds ==
    /\ AllWhole(att.data)
    /\ Len(att.data) < att.next
    /\ att.next <= Len(payload) + 1
    /\ ~dropped => Len(att.data) = att.next - 1

\* An object has the announced size, or a copy into it broke off.
ObjectsHold == \A o \in objects : Bytes(o.bytes) = Size \/ o.bytes = <<>>

StoredHolds ==
    /\ AtRest(att.hashed) \/ Hollow(att.hashed)
    /\ ~dropped => att.hashed = payload

AttemptHolds ==
    /\ att.pc = "open" => att.next = att.from.blocks + 1
    /\ att.pc = "streaming" => StreamHolds
    /\ att.pc \in {"streaming", "closed", "promote"} => DataHolds
    /\ att.pc \in {"closed", "promote"} => staged \in {att.data, Absent}
    /\ att.pc = "promote" => Bytes(att.data) = Size
    /\ att.pc \in {"stored", "recorded"} => StoredHolds

TransferInv ==
    /\ TransferTypeOK
    /\ FileHolds
    /\ PointsHold
    /\ AttemptHolds
    /\ ObjectsHold
    /\ AddressTrue
    /\ LoggedIsStored
    /\ RightUnlessDropped

-----------------------------------------------------------------------------
(* Bytes. *)

LEMMA ValuesAreIntegers ==
    /\ BlockValues \subseteq Int /\ MaxBlocks \in Nat
    /\ Stub = MaxBlocks + 1 /\ Absent \notin Seq(BlockValues)
<1>1. BlockValues \subseteq Int /\ Stub = MaxBlocks + 1 /\ MaxBlocks \in Nat
  BY TransferAssumption DEF BlockValues, Stub
<1>2. ASSUME Absent \in Seq(BlockValues) PROVE FALSE
  <2>1. Absent[1] \in BlockValues
    <3>1. Len(Absent) = 1
      BY DEF Absent
    <3>2. QED
      BY <1>2, <3>1, ElementOfSeq
  <2>2. QED
    BY <1>1, <2>1 DEF Absent, BlockValues
<1>3. QED
  BY <1>1, <1>2

\* What a sequence weighs whose blocks but the last are whole.
LEMMA BytesOfShaped ==
    ASSUME NEW s \in Seq(BlockValues), Shaped(s)
    PROVE  Bytes(s) = IF Len(s) = 0 THEN 0 ELSE 2 * Len(s) - (IF Whole(s[Len(s)]) THEN 0 ELSE 1)
<1> DEFINE wholes == {i \in 1..Len(s) : Whole(s[i])}
<1>0. Len(s) \in Nat
  OBVIOUS
<1>1. Bytes(s) = Len(s) + Cardinality(wholes)
  BY DEF Bytes
<1>2. Cardinality(1..Len(s)) = Len(s) /\ Cardinality(1..(Len(s) - 1)) = IF Len(s) = 0 THEN 0 ELSE Len(s) - 1
  <2>1. Cardinality(1..Len(s)) = IF 1 > Len(s) THEN 0 ELSE Len(s) - 1 + 1
    <3>1. 1 \in Int /\ Len(s) \in Int
      BY <1>0
    <3>2. QED
      BY <3>1, FS_Interval, SMTT(30)
  <2>2. Cardinality(1..(Len(s) - 1)) = IF 1 > Len(s) - 1 THEN 0 ELSE Len(s) - 1 - 1 + 1
    <3>1. 1 \in Int /\ Len(s) - 1 \in Int
      BY <1>0
    <3>2. QED
      BY <3>1, FS_Interval, SMTT(30)
  <2>3. QED
    BY <1>0, <2>1, <2>2
<1>3. Len(s) = 0 => wholes = 1..Len(s)
  OBVIOUS
<1>4. Len(s) # 0 /\ Whole(s[Len(s)]) => wholes = 1..Len(s)
  BY <1>0 DEF Shaped
<1>5. Len(s) # 0 /\ ~Whole(s[Len(s)]) => wholes = 1..(Len(s) - 1)
  BY <1>0 DEF Shaped
<1> HIDE DEF wholes
<1>6. QED
  BY <1>0, <1>1, <1>2, <1>3, <1>4, <1>5

\* A file long enough for n blocks has n whole ones.
LEMMA EnoughBytes ==
    ASSUME NEW s \in Seq(BlockValues), Shaped(s), NEW n \in Nat, Bytes(s) >= BlockBytes(n)
    PROVE  n <= Len(s) /\ \A i \in 1..n : Whole(s[i])
<1>1. Len(s) \in Nat
  OBVIOUS
<1>2. n <= Len(s)
  BY <1>1, BytesOfShaped DEF BlockBytes
<1>3. n = Len(s) /\ n # 0 => Whole(s[n])
  BY <1>1, BytesOfShaped DEF BlockBytes
<1>4. QED
  BY <1>1, <1>2, <1>3 DEF Shaped

LEMMA PayloadShape ==
    ASSUME payload \in Payloads
    PROVE  /\ payload \in Seq(BlockValues)
           /\ Len(payload) \in 1..(MaxBlocks + 1)
           /\ Shaped(payload)
           /\ \A i \in 1..Len(payload) : payload[i] \in {i, Stub}
           /\ \A i \in 1..Len(payload) : payload[i] # Stub => i <= MaxBlocks
<1> USE ValuesAreIntegers DEF FullBlocks, BlockValues, Shaped, Whole
<1>1. CASE \E n \in 1..MaxBlocks : payload = FullBlocks(n)
  BY <1>1
<1>2. CASE \E n \in 0..MaxBlocks : payload = Append(FullBlocks(n), Stub)
  <2>1. PICK n \in 0..MaxBlocks : payload = Append(FullBlocks(n), Stub)
    BY <1>2
  <2>2. FullBlocks(n) \in Seq(BlockValues) /\ Len(FullBlocks(n)) = n /\ \A i \in 1..n : FullBlocks(n)[i] = i
    BY <2>1
  <2>3. Stub \in BlockValues
    OBVIOUS
  <2>4. /\ payload \in Seq(BlockValues) /\ Len(payload) = n + 1
        /\ \A i \in 1..n : payload[i] = i
        /\ payload[n + 1] = Stub
    <3> HIDE DEF FullBlocks, BlockValues
    <3>1. QED
      BY <2>1, <2>2, <2>3, AppendProperties
  <2>5. QED
    BY <2>4
<1>3. QED
  BY <1>1, <1>2 DEF Payloads

\* Whoever has a beginning of the payload and all its bytes has the payload.
LEMMA BeginsIsShaped ==
    ASSUME payload \in Payloads, NEW s \in Seq(BlockValues), Begins(s, payload)
    PROVE  Shaped(s)
<1>1. Shaped(payload) /\ Len(payload) \in Nat
  BY PayloadShape
<1>2. QED
  BY <1>1 DEF Shaped, Begins

LEMMA EqualSizeIsWhole ==
    ASSUME payload \in Payloads, NEW s \in Seq(BlockValues), Begins(s, payload), Bytes(s) = Size
    PROVE  s = payload
<1>1. /\ payload \in Seq(BlockValues) /\ Shaped(payload) /\ Shaped(s)
      /\ Len(payload) \in Nat \ {0} /\ Len(s) \in Nat
      /\ \A i \in 1..Len(payload) : payload[i] \in {i, Stub}
  BY PayloadShape, BeginsIsShaped, ValuesAreIntegers
<1>2. /\ Bytes(s) = IF Len(s) = 0 THEN 0 ELSE 2 * Len(s) - (IF Whole(s[Len(s)]) THEN 0 ELSE 1)
      /\ Bytes(payload) = 2 * Len(payload) - (IF Whole(payload[Len(payload)]) THEN 0 ELSE 1)
  BY <1>1, BytesOfShaped
<1> DEFINE n == Len(s) m == Len(payload) ws == Whole(s[n]) wp == Whole(payload[m])
<1>3. n = m /\ (ws <=> wp)
  <2>1. n \in Nat /\ m \in Nat \ {0} /\ n <= m
    BY <1>1 DEF Begins
  <2>2. (IF n = 0 THEN 0 ELSE 2 * n - (IF ws THEN 0 ELSE 1)) = 2 * m - (IF wp THEN 0 ELSE 1)
    BY <1>2 DEF Size
  <2> HIDE DEF n, m, ws, wp
  <2>3. QED
    BY <2>1, <2>2
<1>4. s[n] = payload[n]
  <2>1. SUFFICES ASSUME Whole(payload[n]), s[n] = -payload[n] PROVE FALSE
    BY <1>1, <1>3 DEF Begins
  <2>2. Whole(s[n])
    BY <1>3, <2>1
  <2>3. payload[n] = n \/ payload[n] = Stub
    BY <1>1, <1>3
  <2>4. QED
    BY <1>1, <1>3, <2>1, <2>2, <2>3, ValuesAreIntegers DEF Whole
<1>5. \A i \in 1..Len(s) : s[i] = payload[i]
  BY <1>1, <1>3, <1>4 DEF Begins
<1>6. QED
  BY <1>1, <1>3, <1>5, SeqEqual

\* The whole blocks of a beginning are the payload's.
LEMMA WholeIsPayloads ==
    ASSUME payload \in Payloads, NEW s \in Seq(BlockValues), Begins(s, payload),
           NEW i \in 1..Len(s), Whole(s[i])
    PROVE  s[i] = payload[i]
<1>1. payload[i] \in {i, Stub}
  BY PayloadShape DEF Begins
<1>2. i \in Nat \ {0} /\ Stub \in Nat \ {0}
  BY ValuesAreIntegers
<1>3. QED
  BY <1>1, <1>2 DEF Begins, Whole

\* What the store reads back before a resume point it can believe.
LEMMA PrefixIsBlocks ==
    ASSUME NEW s \in Seq(BlockValues), Shaped(s), NEW n \in Nat, Bytes(s) >= BlockBytes(n)
    PROVE  /\ Prefix(s, n) \in Seq(BlockValues)
           /\ Len(Prefix(s, n)) = n
           /\ AllWhole(Prefix(s, n))
           /\ \A i \in 1..n : Prefix(s, n)[i] = s[i]
           /\ payload \in Payloads /\ Begins(s, payload) => Begins(Prefix(s, n), payload)
<1>1. n <= Len(s) /\ \A i \in 1..n : Whole(s[i])
  BY EnoughBytes
<1>2. \A i \in 1..n : Prefix(s, n)[i] = s[i] /\ s[i] \in BlockValues
  BY <1>1, ElementOfSeq DEF Prefix
<1>3. Prefix(s, n) \in [1..n -> BlockValues]
  BY <1>1, <1>2 DEF Prefix
<1>4. Prefix(s, n) \in Seq(BlockValues) /\ Len(Prefix(s, n)) = n
  BY <1>3
<1>5. ASSUME payload \in Payloads, Begins(s, payload) PROVE Begins(Prefix(s, n), payload)
  <2>1. \A i \in 1..n : i \in 1..Len(s)
    BY <1>1
  <2>2. \A i \in 1..n : Prefix(s, n)[i] = payload[i]
    BY <1>1, <1>2, <1>5, <2>1, WholeIsPayloads
  <2>3. n <= Len(payload)
    BY <1>1, <1>5, PayloadShape DEF Begins
  <2>4. QED
    BY <1>4, <2>2, <2>3 DEF Begins
<1>6. QED
  BY <1>1, <1>2, <1>4, <1>5 DEF AllWhole

LEMMA PrefixIsPoint ==
    ASSUME payload \in Payloads,
           NEW s \in Seq(BlockValues), Begins(s, payload),
           NEW p \in Points, PointHolds(p, payload, FALSE), Bytes(s) >= BlockBytes(p.blocks)
    PROVE  Prefix(s, p.blocks) = p.hash
<1>1. p.hash \in Seq(BlockValues) /\ p.blocks \in Nat /\ Len(p.hash) = p.blocks /\ Shaped(s)
  BY BeginsIsShaped, ValuesAreIntegers DEF Points, PointHolds
<1>2. Begins(p.hash, payload) /\ AllWhole(p.hash)
  BY DEF PointHolds
<1>3. \A i \in 1..p.blocks : p.hash[i] = payload[i]
  BY <1>1, <1>2, WholeIsPayloads DEF AllWhole
<1> DEFINE q == Prefix(s, p.blocks)
<1>4. /\ q \in Seq(BlockValues) /\ Len(q) = p.blocks /\ AllWhole(q) /\ Begins(q, payload)
  BY <1>1, PrefixIsBlocks
<1> HIDE DEF q
<1>5. \A i \in 1..p.blocks : q[i] = payload[i]
  BY <1>4, WholeIsPayloads DEF AllWhole
<1>6. q = p.hash
  BY <1>1, <1>3, <1>4, <1>5, SeqEqual
<1>7. QED
  BY <1>6 DEF q

(* The record of an interrupted transfer may be believed.                  *)
LEMMA InvImpliesResumePoint == TransferInv => ResumePointTrue
<1> SUFFICES ASSUME TransferInv, staged # Absent, ~dropped, Bytes(staged) >= BlockBytes(meta.resume.blocks)
             PROVE  Prefix(staged, meta.resume.blocks) = meta.resume.hash
  BY DEF ResumePointTrue
<1>1. /\ payload \in Payloads /\ staged \in Seq(BlockValues) /\ meta.resume \in Points
      /\ Begins(staged, payload) /\ PointHolds(meta.resume, payload, FALSE)
  BY DEF TransferInv, TransferTypeOK, FileHolds, PointsHold, PointHolds
<1>2. QED
  BY <1>1, PrefixIsPoint

-----------------------------------------------------------------------------
(* Types. *)

Attempts ==
    [pc : Phases, from : Points, next : 0..(MaxBlocks + 2), data : Seq(BlockValues),
     hashed : Seq(BlockValues), progress : Points]

LEMMA IdleIsAttempt ==
    /\ NoPoint \in Points /\ Idle \in Attempts /\ NoMeta.resume = NoPoint
    /\ NoMeta \in [kind : {"none", "partial", "final"}, resume : Points, sha256 : Seq(BlockValues)]
    /\ Idle.pc = "idle" /\ Idle.from = NoPoint /\ Idle.progress = NoPoint
    /\ payload \in Payloads => PointHolds(NoPoint, payload, dropped)
<1>1. NoPoint \in Points /\ NoPoint.blocks = 0 /\ NoPoint.hash = <<>>
  BY ValuesAreIntegers DEF NoPoint, Points
<1>2. Idle \in Attempts /\ Idle.pc = "idle" /\ Idle.from = NoPoint /\ Idle.progress = NoPoint
  BY <1>1, ValuesAreIntegers DEF Idle, Attempts, Phases
<1>3. NoMeta \in [kind : {"none", "partial", "final"}, resume : Points, sha256 : Seq(BlockValues)] /\ NoMeta.resume = NoPoint
  BY <1>1 DEF NoMeta
<1>4. ASSUME payload \in Payloads PROVE PointHolds(NoPoint, payload, dropped)
  <2>1. Len(payload) \in Nat
    BY <1>4, PayloadShape
  <2>2. QED
    BY <1>1, <2>1 DEF PointHolds, AllWhole, Begins
<1>5. QED
  BY <1>1, <1>2, <1>3, <1>4

LEMMA FaultIsCounted == ASSUME faults \in 0..MaxFaults, Fault PROVE faults' \in 0..MaxFaults
BY TransferAssumption DEF Fault

\* Most steps only move the attempt on.
LEMMA AttemptMoves ==
    ASSUME TransferInv, UNCHANGED <<payload, staged, objects, meta, log, dropped>>,
           att' \in Attempts, faults' \in 0..MaxFaults,
           PointHolds(att'.from, payload, dropped), PointHolds(att'.progress, payload, dropped),
           AttemptHolds'
    PROVE  TransferInv'
<1>1. TransferTypeOK'
  BY DEF TransferInv, TransferTypeOK, Attempts
<1>2. FileHolds' /\ PointsHold'
  BY DEF TransferInv, FileHolds, PointsHold
<1>3. (ObjectsHold /\ AddressTrue /\ LoggedIsStored /\ RightUnlessDropped)'
  BY DEF TransferInv, ObjectsHold, AddressTrue, LoggedIsStored, RightUnlessDropped, AtRest, Hollow, Size
<1>4. QED
  BY <1>1, <1>2, <1>3 DEF TransferInv

LEMMA InvFacts ==
    ASSUME TransferInv
    PROVE  /\ payload \in Payloads /\ att \in Attempts /\ faults \in 0..MaxFaults
           /\ meta.resume \in Points /\ dropped \in BOOLEAN
           /\ staged # Absent => staged \in Seq(BlockValues)
           /\ PointHolds(meta.resume, payload, dropped)
           /\ PointHolds(att.from, payload, dropped)
           /\ PointHolds(att.progress, payload, dropped)
           /\ Len(payload) \in 1..(MaxBlocks + 1) /\ payload \in Seq(BlockValues) /\ Shaped(payload)
           /\ BlockValues \subseteq Int /\ MaxBlocks \in Nat
BY PayloadShape, ValuesAreIntegers DEF TransferInv, TransferTypeOK, PointsHold, Attempts

LEMMA TransferInitInv == TransferInit => TransferInv
<1> SUFFICES ASSUME TransferInit PROVE TransferInv
  OBVIOUS
<1>1. /\ payload \in Payloads /\ staged = Absent /\ objects = {} /\ meta = NoMeta
      /\ log = {} /\ att = Idle /\ dropped = FALSE /\ faults = 0
  BY DEF TransferInit
<1>2. TransferTypeOK
  <2>1. att \in Attempts /\ meta \in [kind : {"none", "partial", "final"}, resume : Points, sha256 : Seq(BlockValues)]
    BY <1>1, IdleIsAttempt
  <2>2. dropped \in BOOLEAN
    BY <1>1
  <2>3. faults \in 0..MaxFaults
    <3>1. 0 \in 0..MaxFaults
      BY TransferAssumption
    <3>2. QED
      BY <1>1, <3>1
  <2>4. staged \in Seq(BlockValues) \cup {Absent} /\ log \subseteq Seq(BlockValues)
    BY <1>1
  <2>5. objects \subseteq [name : Seq(BlockValues), bytes : Seq(BlockValues)] /\ payload \in Payloads
    BY <1>1
  <2>6. QED
    BY <2>1, <2>2, <2>3, <2>4, <2>5 DEF TransferTypeOK, Attempts
<1>3. PointsHold
  BY <1>1, IdleIsAttempt DEF PointsHold
<1>4. AttemptHolds
  BY <1>1, IdleIsAttempt DEF AttemptHolds
<1>5. QED
  BY <1>1, <1>2, <1>3, <1>4 DEF TransferInv, FileHolds, ObjectsHold, AddressTrue, LoggedIsStored, RightUnlessDropped

-----------------------------------------------------------------------------
(* The announcement and the request. *)

LEMMA AnnouncementsKeepInv == ASSUME TransferInv, Pushed \/ Referenced PROVE TransferInv'
<1>1. UNCHANGED <<payload, staged, objects, meta, log, dropped, faults>>
  BY DEF Pushed, Referenced, Announced
<1>2. CASE Pushed
  <2>1. att' = [Idle EXCEPT !.pc = "open", !.next = 1]
    BY <1>2 DEF Pushed
  <2>2. att' \in Attempts /\ att'.pc = "open" /\ att'.next = 1 /\ att'.from = NoPoint /\ att'.progress = NoPoint
    <3>1. 1 \in 0..(MaxBlocks + 2) /\ "open" \in Phases
      BY ValuesAreIntegers DEF Phases
    <3>2. QED
      BY <2>1, <3>1, IdleIsAttempt DEF Attempts
  <2>3. AttemptHolds'
    BY <2>2 DEF AttemptHolds, NoPoint
  <2>4. QED
    BY <1>1, <2>2, <2>3, AttemptMoves, IdleIsAttempt, InvFacts
<1>3. CASE Referenced
  <2>1. PICK p \in {meta.resume, NoPoint} : att' = [Idle EXCEPT !.pc = "request", !.from = p]
    BY <1>3 DEF Referenced
  <2>2. p \in Points /\ PointHolds(p, payload, dropped)
    BY IdleIsAttempt, InvFacts
  <2>3. att' \in Attempts /\ att'.pc = "request" /\ att'.from = p /\ att'.progress = NoPoint
    BY <2>1, <2>2, IdleIsAttempt DEF Attempts, Phases, Idle
  <2>4. AttemptHolds'
    BY <2>3 DEF AttemptHolds
  <2>5. QED
    BY <1>1, <2>2, <2>3, <2>4, AttemptMoves, IdleIsAttempt, InvFacts
<1>4. QED
  BY <1>2, <1>3

LEMMA GivingUpKeepsInv == ASSUME TransferInv, GiveUp, faults' \in 0..MaxFaults PROVE TransferInv'
<1>1. UNCHANGED <<payload, staged, objects, meta, log, dropped>> /\ att' = Idle
  BY DEF GiveUp
<1>2. AttemptHolds'
  BY <1>1, IdleIsAttempt DEF AttemptHolds
<1>3. QED
  BY <1>1, <1>2, AttemptMoves, IdleIsAttempt, InvFacts

LEMMA AnswersKeepInv ==
    ASSUME TransferInv, att.pc = "request", faults' \in 0..MaxFaults,
           NEW from \in {NoPoint, att.from}, NEW next \in Int, next = from.blocks + 1, Answered(next, from)
    PROVE  TransferInv'
<1>1. UNCHANGED <<payload, staged, objects, meta, log, dropped>>
      /\ att' = [att EXCEPT !.pc = "open", !.next = next, !.from = from]
  BY DEF Answered
<1>2. from \in Points /\ PointHolds(from, payload, dropped) /\ att \in Attempts
  BY IdleIsAttempt, InvFacts DEF Attempts
<1>3. next \in 0..(MaxBlocks + 2)
  BY <1>2, InvFacts DEF Points
<1>4. att' \in Attempts /\ att'.pc = "open" /\ att'.next = next /\ att'.from = from /\ att'.progress = att.progress
  BY <1>1, <1>2, <1>3 DEF Attempts, Phases
<1>5. AttemptHolds'
  BY <1>4 DEF AttemptHolds
<1>6. QED
  BY <1>1, <1>2, <1>4, <1>5, AttemptMoves, InvFacts

LEMMA FetchesKeepInv == ASSUME TransferInv, Fetches \/ RequestFails PROVE TransferInv'
<1>1. faults' \in 0..MaxFaults
  BY InvFacts, FaultIsCounted DEF Fetches, RespondsWhole, RespondsRest, RespondsUnsatisfiable, RequestFails
<1>2. CASE RespondsWhole
  BY <1>1, <1>2, AnswersKeepInv DEF RespondsWhole, NoPoint
<1>3. CASE RespondsRest
  <2>1. att.from.blocks + 1 \in Int
    BY InvFacts DEF Attempts, Points
  <2>2. QED
    BY <1>1, <1>3, <2>1, AnswersKeepInv DEF RespondsRest
<1>4. CASE RespondsUnsatisfiable \/ RequestFails
  BY <1>1, <1>4, GivingUpKeepsInv DEF RespondsUnsatisfiable, RequestFails
<1>5. QED
  BY <1>2, <1>3, <1>4 DEF Fetches

-----------------------------------------------------------------------------
(* put: the open, the body, the check of the length. *)

\* These steps change the attempt, the staged file and what was dropped.
LEMMA FileMoves ==
    ASSUME TransferInv, UNCHANGED <<payload, objects, meta, log>>,
           att' \in Attempts, faults' \in 0..MaxFaults,
           staged' = Absent \/ staged' \in Seq(BlockValues), FileHolds',
           dropped' \in BOOLEAN, dropped => dropped',
           PointHolds(att'.from, payload, dropped'), PointHolds(att'.progress, payload, dropped'),
           AttemptHolds'
    PROVE  TransferInv'
<1>1. TransferTypeOK'
  BY DEF TransferInv, TransferTypeOK, Attempts
<1>2. PointHolds(meta.resume, payload, dropped')
  BY InvFacts DEF PointHolds
<1>3. PointsHold'
  BY <1>2 DEF PointsHold
<1>4. (ObjectsHold /\ AddressTrue /\ LoggedIsStored /\ RightUnlessDropped)'
  BY DEF TransferInv, ObjectsHold, AddressTrue, LoggedIsStored, RightUnlessDropped, AtRest, Hollow, Size
<1>5. QED
  BY <1>1, <1>3, <1>4 DEF TransferInv

LEMMA ContinueKeepsInv ==
    ASSUME TransferInv, NEW p \in {NoPoint, att.from}, Continue(p),
           dropped' \in BOOLEAN, dropped => dropped',
           Prefix(Created, p.blocks) \in Seq(BlockValues),
           Len(Prefix(Created, p.blocks)) = p.blocks, AllWhole(Prefix(Created, p.blocks)),
           ~dropped' => /\ p.hash = Prefix(Created, p.blocks)
                        /\ Begins(p.hash, payload)
                        /\ p.blocks = att.next - 1
    PROVE  TransferInv'
<1> DEFINE q == Prefix(Created, p.blocks)
<1>1. /\ att.pc = "open" /\ staged' = Created /\ UNCHANGED <<payload, objects, meta, log, faults>>
      /\ att' = [att EXCEPT !.pc = "streaming", !.data = q, !.hashed = p.hash]
  BY DEF Continue
<1>2. /\ p \in Points /\ PointHolds(p, payload, dropped)
      /\ p.blocks \in Nat /\ p.hash \in Seq(BlockValues)
  <2>1. p \in Points /\ PointHolds(p, payload, dropped)
    <3>1. CASE p = NoPoint
      BY <3>1, IdleIsAttempt, InvFacts
    <3>2. CASE p = att.from
      BY <3>2, InvFacts DEF Attempts
    <3>3. QED
      BY <3>1, <3>2
  <2>2. QED
    BY <2>1, ValuesAreIntegers DEF Points
<1>3. att.next = att.from.blocks + 1 /\ att.from.blocks \in Nat /\ p.blocks <= att.from.blocks
  <2>1. att.next = att.from.blocks + 1
    BY <1>1 DEF TransferInv, AttemptHolds
  <2>2. att.from.blocks \in Nat /\ NoPoint.blocks = 0
    BY InvFacts DEF Attempts, Points, NoPoint
  <2>3. QED
    BY <2>1, <2>2
<1>4. Created \in Seq(BlockValues) /\ Created # Absent /\ FileHolds'
  <2>1. CASE staged = Absent
    <3>1. <<>> \in Seq(BlockValues) /\ Shaped(<<>>) /\ Begins(<<>>, payload)
      BY InvFacts DEF Shaped, Begins
    <3>2. QED
      BY <1>1, <2>1, <3>1, ValuesAreIntegers DEF Created, FileHolds
  <2>2. CASE staged # Absent
    BY <1>1, <2>2, InvFacts DEF Created, FileHolds, TransferInv
  <2>3. QED
    BY <2>1, <2>2
<1>5. q \in Seq(BlockValues) /\ Len(q) = p.blocks /\ AllWhole(q)
  OBVIOUS
<1>6. ~dropped' => p.hash = q /\ Begins(p.hash, payload) /\ p.blocks = att.next - 1
  OBVIOUS
<1> HIDE DEF q
<1>7. /\ att' \in Attempts /\ att'.pc = "streaming" /\ att'.data = q /\ att'.hashed = p.hash
      /\ att'.next = att.next /\ att'.from = att.from /\ att'.progress = att.progress
  BY <1>1, <1>2, <1>5, InvFacts DEF Attempts, Phases
<1>8. StreamHolds'
  <2>1. att.next <= Len(payload) + 1
    BY <1>3, InvFacts DEF PointHolds
  <2>2. QED
    BY <1>1, <1>2, <1>3, <1>5, <1>6, <1>7, <2>1 DEF StreamHolds
<1>9. DataHolds'
  <2>1. Shaped(q) /\ SameShape(p.hash, q)
    BY <1>2, <1>5 DEF AllWhole, Shaped, SameShape, PointHolds
  <2>2. QED
    BY <1>1, <1>6, <1>7, <2>1 DEF DataHolds
<1>10. AttemptHolds'
  BY <1>7, <1>8, <1>9 DEF AttemptHolds
<1>11. PointHolds(att.from, payload, dropped') /\ PointHolds(att.progress, payload, dropped')
  BY InvFacts DEF PointHolds
<1>12. QED
  BY <1>1, <1>4, <1>7, <1>10, <1>11, InvFacts, FileMoves

LEMMA OpeningsKeepInv == ASSUME TransferInv, Resumes \/ Starts PROVE TransferInv'
<1>1. CASE Resumes
  <2>1. /\ staged # Absent /\ Bytes(staged) >= BlockBytes(att.from.blocks)
        /\ Created = staged /\ Continue(att.from) /\ dropped' = dropped /\ att.pc = "open"
    BY <1>1 DEF Resumes, PrefixThere, Created, Continue
  <2>2. /\ att.from \in Points /\ att.from.blocks \in Nat /\ staged \in Seq(BlockValues)
        /\ att.next = att.from.blocks + 1 /\ dropped \in BOOLEAN
    BY <2>1, InvFacts DEF TransferInv, AttemptHolds, Attempts, Points
  <2>3. Shaped(staged) /\ (~dropped => Begins(staged, payload))
    BY <2>1 DEF TransferInv, FileHolds
  <2>4. /\ Prefix(Created, att.from.blocks) \in Seq(BlockValues)
        /\ Len(Prefix(Created, att.from.blocks)) = att.from.blocks
        /\ AllWhole(Prefix(Created, att.from.blocks))
    BY <2>1, <2>2, <2>3, PrefixIsBlocks
  <2>5. ASSUME ~dropped
        PROVE  att.from.hash = Prefix(Created, att.from.blocks) /\ Begins(att.from.hash, payload)
    <3>1. PointHolds(att.from, payload, FALSE) /\ Begins(att.from.hash, payload)
      BY <2>5, InvFacts DEF PointHolds
    <3>2. QED
      BY <2>1, <2>2, <2>3, <2>5, <3>1, InvFacts, PrefixIsPoint
  <2>6. att.from.blocks = att.next - 1
    BY <2>2
  <2>7. QED
    BY <2>1, <2>2, <2>4, <2>5, <2>6, ContinueKeepsInv
<1>2. CASE Starts
  <2>1. Continue(NoPoint) /\ dropped' = (dropped \/ att.next > 1) /\ att.pc = "open"
    BY <1>2 DEF Starts, Continue
  <2>2. Prefix(Created, NoPoint.blocks) = <<>> /\ NoPoint.hash = <<>> /\ NoPoint.blocks = 0
    BY DEF Prefix, NoPoint
  <2>3. <<>> \in Seq(BlockValues) /\ Len(<<>>) = 0 /\ AllWhole(<<>>) /\ Begins(<<>>, payload)
    BY InvFacts DEF AllWhole, Begins
  <2>4. att.next = att.from.blocks + 1 /\ att.from.blocks \in Nat
    BY <2>1, InvFacts DEF TransferInv, AttemptHolds, Attempts, Points
  <2>5. dropped' \in BOOLEAN /\ (dropped => dropped') /\ (~dropped' => ~(att.next > 1))
    BY <2>1, Zenon
  <2>6. ~dropped' => 0 = att.next - 1
    BY <2>4, <2>5
  <2>7. QED
    BY <2>1, <2>2, <2>3, <2>5, <2>6, ContinueKeepsInv
<1>3. QED
  BY <1>1, <1>2

\* A block, or a piece of one, goes into the hash and into the file.
LEMMA EmitsHolds ==
    ASSUME TransferInv, att.pc = "streaming", att.next <= Len(payload), NEW b \in Int,
           b = payload[att.next] \/ (Whole(payload[att.next]) /\ b = -payload[att.next])
    PROVE  /\ Emits(b) \in Attempts /\ Emits(b).from = att.from /\ Emits(b).pc = "streaming"
           /\ Emits(b).next = att.next + 1
           /\ Emits(b).data = Append(att.data, b) /\ Emits(b).hashed = Append(att.hashed, b)
           /\ PointHolds(Emits(b).progress, payload, dropped)
           /\ Shaped(Append(att.data, b)) /\ SameShape(Append(att.hashed, b), Append(att.data, b))
           /\ ~dropped => /\ Append(att.hashed, b) = Append(att.data, b)
                          /\ Begins(Append(att.data, b), payload)
           /\ Whole(b) => AllWhole(Append(att.data, b))
<1> DEFINE d == Append(att.data, b) h == Append(att.hashed, b) n == Len(att.data)
           point == [blocks |-> n + 1, hash |-> h]
<1>1. /\ att.data \in Seq(BlockValues) /\ att.hashed \in Seq(BlockValues) /\ att.next \in Nat
      /\ att \in Attempts /\ att.progress \in Points
  BY InvFacts DEF Attempts
<1>2. /\ AllWhole(att.data) /\ n < att.next /\ (~dropped => n = att.next - 1)
      /\ SameShape(att.hashed, att.data)
      /\ ~dropped => att.hashed = att.data /\ Begins(att.data, payload)
  BY DEF TransferInv, AttemptHolds, StreamHolds, DataHolds
<1>3. n \in Nat /\ Len(att.hashed) = n
  BY <1>1, <1>2, SMTT(30) DEF SameShape
<1>4. att.next \in 1..Len(payload) /\ payload[att.next] \in {att.next, Stub} /\ payload[att.next] \in BlockValues
  <2>1. att.next \in 1..Len(payload) /\ payload \in Payloads /\ payload \in Seq(BlockValues)
    BY <1>1, <1>2, <1>3, InvFacts, SMTT(30)
  <2>2. payload[att.next] \in BlockValues
    BY <2>1, ElementOfSeq
  <2>3. QED
    BY <2>1, <2>2, PayloadShape
<1>5. b \in BlockValues
  BY <1>4, ValuesAreIntegers DEF Whole, BlockValues
<1>6. Whole(b) => b = payload[att.next] /\ att.next <= MaxBlocks
  BY <1>4, ValuesAreIntegers DEF Whole
<1>7. /\ d \in Seq(BlockValues) /\ Len(d) = n + 1 /\ d[n + 1] = b /\ \A i \in 1..n : d[i] = att.data[i]
      /\ h \in Seq(BlockValues) /\ Len(h) = n + 1 /\ h[n + 1] = b /\ \A i \in 1..n : h[i] = att.hashed[i]
  BY <1>1, <1>3, <1>5, AppendProperties
<1>8. ~dropped => h = d
  BY <1>2
<1> HIDE DEF d, h, n, point
<1>9. Shaped(d)
  BY <1>2, <1>3, <1>7 DEF Shaped, AllWhole, n
<1>10. SameShape(h, d)
  BY <1>2, <1>3, <1>7 DEF SameShape, n
<1>11. Whole(b) => AllWhole(d) /\ AllWhole(h)
  <2>1. Whole(b) => AllWhole(d)
    BY <1>2, <1>3, <1>7 DEF AllWhole, n
  <2>2. AllWhole(d) => AllWhole(h)
    BY <1>7, <1>10 DEF AllWhole, SameShape
  <2>3. QED
    BY <2>1, <2>2
<1>12. ASSUME ~dropped PROVE Begins(d, payload)
  <2>1. n + 1 = att.next /\ \A i \in 1..n : att.data[i] = payload[i]
    <3>1. \A i \in 1..n : att.data[i] = payload[i]
      BY <1>1, <1>2, <1>12, WholeIsPayloads, InvFacts DEF AllWhole, n
    <3>2. QED
      BY <1>2, <1>3, <1>12, <3>1, <1>1
  <2>2. QED
    BY <1>3, <1>4, <1>7, <2>1 DEF Begins
<1>13. ASSUME Whole(b) PROVE point \in Points /\ PointHolds(point, payload, dropped)
  <2>1. n + 1 <= att.next /\ n + 1 <= MaxBlocks /\ n + 1 <= Len(payload)
    BY <1>1, <1>2, <1>3, <1>4, <1>6, <1>13, InvFacts
  <2>2. point \in Points
    BY <1>3, <1>7, <2>1, InvFacts DEF Points, point
  <2>3. QED
    <3>1. point.blocks = n + 1 /\ point.hash = h /\ Len(h) = n + 1 /\ AllWhole(h)
      BY <1>7, <1>11, <1>13 DEF point
    <3>2. ~dropped => Begins(point.hash, payload)
      BY <1>8, <1>12, <3>1
    <3>3. Len(point.hash) = point.blocks /\ point.blocks <= Len(payload) /\ AllWhole(point.hash)
      BY <2>1, <3>1
    <3>4. QED
      BY <2>2, <3>2, <3>3 DEF PointHolds
<1>14. /\ Emits(b).from = att.from /\ Emits(b).pc = "streaming" /\ Emits(b).next = att.next + 1
       /\ Emits(b).data = d /\ Emits(b).hashed = h
       /\ Emits(b).progress = IF Whole(b) /\ Resumable THEN point ELSE att.progress
  BY <1>1 DEF Emits, Absorbs, Attempts, d, h, n, point
<1>15. Emits(b).progress \in Points /\ PointHolds(Emits(b).progress, payload, dropped)
  BY <1>1, <1>13, <1>14, InvFacts
<1>16. Emits(b) \in Attempts
  <2>1. att.next + 1 \in 0..(MaxBlocks + 2)
    BY <1>4, InvFacts, SMTT(30)
  <2>2. /\ DOMAIN Emits(b) = DOMAIN att
        /\ Emits(b) = [att EXCEPT !.data = d, !.hashed = h, !.next = att.next + 1,
                                  !.progress = IF Whole(b) /\ Resumable THEN point ELSE att.progress]
    BY <1>1 DEF Emits, Absorbs, Attempts, d, h, n, point
  <2>3. (IF Whole(b) /\ Resumable THEN point ELSE att.progress) \in Points
    BY <1>14, <1>15
  <2>4. QED
    BY <1>1, <1>7, <2>1, <2>2, <2>3 DEF Attempts
<1>17. QED
  BY <1>8, <1>9, <1>10, <1>11, <1>12, <1>14, <1>15, <1>16 DEF d, h

LEMMA BlockArrivesKeepsInv == ASSUME TransferInv, BlockArrives PROVE TransferInv'
<1> DEFINE b == payload[att.next]
<1>1. /\ att.pc = "streaming" /\ att.next <= Len(payload) /\ Whole(b) /\ att' = Emits(b)
      /\ UNCHANGED <<payload, staged, objects, meta, log, dropped, faults>>
  BY DEF BlockArrives, Streaming
<1>2. b \in Int
  BY <1>1, ValuesAreIntegers DEF Whole
<1>3. att.next \in Nat /\ Len(att.data) \in Nat /\ (~dropped => Len(att.data) = att.next - 1) /\ Len(att.data) < att.next
  BY <1>1, InvFacts DEF Attempts, TransferInv, AttemptHolds, StreamHolds
<1>4. /\ att' \in Attempts /\ att'.from = att.from /\ att'.pc = "streaming"
      /\ att'.next = att.next + 1
      /\ att'.data = Append(att.data, b) /\ att'.hashed = Append(att.hashed, b)
      /\ PointHolds(att'.progress, payload, dropped)
      /\ Shaped(att'.data) /\ SameShape(att'.hashed, att'.data)
      /\ ~dropped => att'.hashed = att'.data /\ Begins(att'.data, payload)
      /\ AllWhole(att'.data)
  BY <1>1, <1>2, EmitsHolds
<1>5. Len(att'.data) = Len(att.data) + 1
  BY <1>2, <1>4, InvFacts DEF Attempts
<1>6. StreamHolds' /\ DataHolds'
  <2>1. Len(att'.data) < att'.next /\ (~dropped => Len(att'.data) = att'.next - 1)
    BY <1>3, <1>4, <1>5
  <2>2. att.next + 1 <= Len(payload) + 1
    BY <1>1, <1>3, InvFacts
  <2>3. QED
    BY <1>1, <1>4, <2>1, <2>2 DEF StreamHolds, DataHolds
<1>7. AttemptHolds'
  BY <1>4, <1>6 DEF AttemptHolds
<1>8. QED
  BY <1>1, <1>4, <1>7, InvFacts, AttemptMoves

LEMMA ClosesKeepsInv ==
    ASSUME TransferInv, UNCHANGED <<payload, objects, meta, log, dropped>>, faults' \in 0..MaxFaults,
           NEW attempt \in Attempts, Closes(attempt),
           attempt.from = att.from, PointHolds(attempt.progress, payload, dropped),
           Shaped(attempt.data), SameShape(attempt.hashed, attempt.data),
           ~dropped => attempt.hashed = attempt.data /\ Begins(attempt.data, payload)
    PROVE  TransferInv'
<1>1. /\ staged' = attempt.data /\ staged' \in Seq(BlockValues) /\ "closed" \in Phases
      /\ att' = [attempt EXCEPT !.pc = "closed"]
  BY DEF Closes, Attempts, Phases
<1>2. /\ att' \in Attempts /\ att'.pc = "closed" /\ att'.data = attempt.data /\ att'.hashed = attempt.hashed
      /\ att'.from = attempt.from /\ att'.progress = attempt.progress
  BY <1>1 DEF Attempts
<1>3. FileHolds' /\ DataHolds'
  BY <1>1, <1>2 DEF FileHolds, DataHolds
<1>4. AttemptHolds'
  BY <1>1, <1>2, <1>3 DEF AttemptHolds
<1>5. QED
  BY <1>1, <1>2, <1>3, <1>4, InvFacts, FileMoves

\* Either way a body ends without an error: between blocks, or with a piece.
LEMMA EndingsKeepInv == ASSUME TransferInv, BodyEnds \/ BodyEndsEarly PROVE TransferInv'
<1>1. /\ att.pc = "streaming" /\ UNCHANGED <<payload, objects, meta, log, dropped>>
      /\ faults' \in 0..MaxFaults
  BY InvFacts, FaultIsCounted DEF BodyEnds, BodyEndsEarly, Streaming
<1>2. CASE Closes(att)
  BY <1>1, <1>2, InvFacts, ClosesKeepsInv DEF TransferInv, AttemptHolds, DataHolds
<1>3. ASSUME NEW b \in Int, Closes(Emits(b)), att.next <= Len(payload),
             b = payload[att.next] \/ (Whole(payload[att.next]) /\ b = -payload[att.next])
      PROVE  TransferInv'
  BY <1>1, <1>3, EmitsHolds, ClosesKeepsInv
<1>4. Len(payload) \in Nat /\ Stub \in Int /\ att.next \in Nat
  BY InvFacts, ValuesAreIntegers DEF Attempts
<1>5. CASE BodyEnds
  BY <1>2, <1>3, <1>4, <1>5 DEF BodyEnds
<1>6. CASE BodyEndsEarly
  <2>1. Whole(payload[att.next]) => -payload[att.next] \in Int
    BY ValuesAreIntegers DEF Whole
  <2>2. QED
    BY <1>2, <1>3, <1>6, <2>1 DEF BodyEndsEarly
<1>7. QED
  BY <1>5, <1>6

LEMMA BodyBreaksKeepInv == ASSUME TransferInv, BodyDies \/ DiskFails PROVE TransferInv'
<1>1. /\ att.pc = "streaming" /\ UNCHANGED <<payload, objects, meta, log, dropped>>
      /\ faults' \in 0..MaxFaults /\ att' = [att EXCEPT !.pc = "failed"]
      /\ staged' \in {att.data, staged, Absent}
  BY InvFacts, FaultIsCounted DEF BodyDies, DiskFails, Streaming
<1>2. /\ att' \in Attempts /\ att'.pc = "failed" /\ att'.from = att.from /\ att'.progress = att.progress
  BY <1>1, InvFacts DEF Attempts, Phases
<1>3. FileHolds' /\ (staged' = Absent \/ staged' \in Seq(BlockValues))
  <2>1. att.data \in Seq(BlockValues) /\ Shaped(att.data) /\ (~dropped => Begins(att.data, payload))
    BY <1>1, InvFacts DEF Attempts, TransferInv, AttemptHolds, DataHolds
  <2>2. QED
    BY <1>1, <2>1, InvFacts DEF TransferInv, FileHolds
<1>4. AttemptHolds'
  BY <1>2 DEF AttemptHolds
<1>5. QED
  BY <1>1, <1>2, <1>3, <1>4, InvFacts, FileMoves

LEMMA ChecksSizeKeepsInv == ASSUME TransferInv, ChecksSize PROVE TransferInv'
<1>1. /\ att.pc = "closed" /\ UNCHANGED <<payload, staged, objects, meta, log, dropped, faults>>
      /\ att' = [att EXCEPT !.pc = IF Bytes(att.data) = Size THEN "promote" ELSE "failed"]
  BY DEF ChecksSize, Moves
<1>2. /\ att' \in Attempts /\ att'.data = att.data /\ att'.hashed = att.hashed
      /\ att'.from = att.from /\ att'.progress = att.progress
      /\ att'.pc \in {"promote", "failed"} /\ (att'.pc = "promote" => Bytes(att.data) = Size)
  BY <1>1, InvFacts DEF Attempts, Phases
<1>3. DataHolds /\ staged \in {att.data, Absent}
  BY <1>1 DEF TransferInv, AttemptHolds
<1>4. DataHolds' /\ staged' \in {att'.data, Absent} /\ (att'.pc = "promote" => Bytes(att'.data) = Size')
  BY <1>1, <1>2, <1>3 DEF DataHolds, Size
<1>5. AttemptHolds'
  BY <1>2, <1>4 DEF AttemptHolds
<1>6. QED
  BY <1>1, <1>2, <1>5, InvFacts, AttemptMoves

-----------------------------------------------------------------------------
(* The promotion, and what receiveBlobExclusive does after put. *)

\* A transfer is promoted at the announced length, and its bytes are the
\* payload's unless a prefix was dropped.
LEMMA PromotedIsWhole ==
    ASSUME TransferInv, att.pc = "promote"
    PROVE  /\ Bytes(att.data) = Size
           /\ staged \in {att.data, Absent}
           /\ ~dropped => att.hashed = payload /\ att.data = payload
<1>1. DataHolds /\ Bytes(att.data) = Size /\ staged \in {att.data, Absent}
  BY DEF TransferInv, AttemptHolds
<1>2. /\ att.data \in Seq(BlockValues) /\ att.hashed \in Seq(BlockValues) /\ payload \in Payloads
  BY InvFacts DEF Attempts
<1>3. ~dropped => att.hashed = payload /\ att.data = payload
  BY <1>1, <1>2, EqualSizeIsWhole DEF DataHolds
<1>4. QED
  BY <1>1, <1>3

\* Objects are only added.
LEMMA ObjectsAreKept ==
    ASSUME TransferInv, UNCHANGED <<payload, log, dropped>>, objects \subseteq objects'
    PROVE  (LoggedIsStored /\ RightUnlessDropped)'
BY DEF TransferInv, LoggedIsStored, RightUnlessDropped, AtRest, Hollow, Size

LEMMA PromotionsKeepInv == ASSUME TransferInv, Adopts \/ Promotes \/ PromoteFails PROVE TransferInv'
<1>1. /\ att.pc = "promote" /\ UNCHANGED <<payload, meta, log, dropped>>
      /\ staged' \in {staged, Absent} /\ faults' \in 0..MaxFaults
  BY InvFacts, FaultIsCounted DEF Adopts, Promotes, PromoteFails
<1>2. PICK to \in {"stored", "failed"} :
        /\ att' = [att EXCEPT !.pc = to]
        /\ to = "stored" => Adopts \/ Promotes
  BY DEF Adopts, Promotes, PromoteFails, Moves
<1>3. /\ att' \in Attempts /\ att'.pc = to /\ att'.hashed = att.hashed
      /\ att'.from = att.from /\ att'.progress = att.progress
  BY <1>2, InvFacts DEF Attempts, Phases
<1>4. \/ UNCHANGED objects
      \/ \E bytes \in {staged, <<>>} :
           /\ staged # Absent
           /\ objects' = objects \cup {[name |-> att.hashed, bytes |-> bytes]}
  BY DEF Adopts, Promotes, PromoteFails
<1>5. /\ att.hashed \in Seq(BlockValues) /\ <<>> \in Seq(BlockValues)
      /\ staged # Absent => staged \in Seq(BlockValues)
  BY InvFacts DEF Attempts
<1>6. /\ objects \subseteq objects' /\ (ObjectsHold /\ AddressTrue)'
      /\ objects' \subseteq [name : Seq(BlockValues), bytes : Seq(BlockValues)]
  <2>1. CASE UNCHANGED objects
    BY <1>1, <2>1 DEF TransferInv, TransferTypeOK, ObjectsHold, AddressTrue, Size
  <2>2. ASSUME NEW bytes \in {staged, <<>>}, staged # Absent,
               objects' = objects \cup {[name |-> att.hashed, bytes |-> bytes]}
        PROVE  /\ objects \subseteq objects' /\ (ObjectsHold /\ AddressTrue)'
               /\ objects' \subseteq [name : Seq(BlockValues), bytes : Seq(BlockValues)]
    <3>1. bytes \in Seq(BlockValues)
      BY <1>5, <2>2
    <3>2. bytes \in {att.hashed, <<>>} \/ dropped
      BY <1>1, <2>2, PromotedIsWhole
    <3>3. AddressTrue' /\ objects' \subseteq [name : Seq(BlockValues), bytes : Seq(BlockValues)]
      BY <1>1, <1>5, <2>2, <3>1, <3>2 DEF TransferInv, TransferTypeOK, AddressTrue
    <3>4. Bytes(bytes) = Size \/ bytes = <<>>
      BY <1>1, <2>2, PromotedIsWhole
    <3>5. ObjectsHold'
      BY <1>1, <2>2, <3>4 DEF TransferInv, ObjectsHold, Size
    <3>6. QED
      BY <2>2, <3>3, <3>5
  <2>3. QED
    BY <1>4, <2>1, <2>2
<1>7. to = "stored" => (AtRest(att.hashed) \/ Hollow(att.hashed))'
  <2>1. ASSUME NEW o \in objects', o.name = att.hashed
        PROVE  (AtRest(att.hashed) \/ Hollow(att.hashed))'
    <3>1. Bytes(o.bytes) = Size' \/ o.bytes = <<>>
      BY <1>6, <2>1 DEF ObjectsHold
    <3>2. o = [name |-> o.name, bytes |-> o.bytes]
      BY <1>6, <2>1
    <3>3. QED
      BY <1>3, <2>1, <3>1, <3>2 DEF AtRest, Hollow
  <2>2. CASE Adopts
    BY <1>6, <2>1, <2>2 DEF Adopts, Resolves
  <2>3. CASE Promotes
    <3>1. [name |-> att.hashed, bytes |-> staged] \in objects'
      BY <2>3 DEF Promotes
    <3>2. QED
      BY <2>1, <3>1
  <2>4. QED
    BY <1>2, <2>2, <2>3
<1>8. AttemptHolds'
  <2>1. to = "stored" => StoredHolds'
    BY <1>1, <1>3, <1>7, PromotedIsWhole DEF StoredHolds
  <2>2. QED
    BY <1>3, <2>1 DEF AttemptHolds
<1>9. FileHolds' /\ PointsHold'
  BY <1>1, <1>3 DEF TransferInv, FileHolds, PointsHold
<1>10. TransferTypeOK'
  <2>1. staged' \in Seq(BlockValues) \cup {Absent}
    BY <1>1, InvFacts
  <2>2. att' \in Attempts
    BY <1>3
  <2>3. QED
    BY <1>1, <1>6, <2>1, <2>2 DEF TransferInv, TransferTypeOK, Attempts
<1>11. QED
  BY <1>1, <1>6, <1>8, <1>9, <1>10, ObjectsAreKept DEF TransferInv

LEMMA SettlesKeepInv == ASSUME TransferInv, Settles PROVE TransferInv'
<1>1. CASE KeepsPrefix
  <2>1. /\ UNCHANGED <<payload, staged, objects, log, dropped, faults>> /\ att' = Idle
        /\ meta' = [kind |-> "partial", resume |-> att.progress, sha256 |-> <<>>]
    BY <1>1 DEF KeepsPrefix
  <2>2. /\ meta' \in [kind : {"none", "partial", "final"}, resume : Points, sha256 : Seq(BlockValues)]
        /\ meta'.resume = att.progress
    BY <2>1, InvFacts DEF Attempts
  <2>3. TransferTypeOK'
    BY <2>1, <2>2, IdleIsAttempt DEF TransferInv, TransferTypeOK, Attempts
  <2>4. PointsHold' /\ AttemptHolds'
    BY <2>1, <2>2, IdleIsAttempt, InvFacts DEF PointsHold, AttemptHolds
  <2>5. QED
    BY <2>1, <2>3, <2>4, ObjectsAreKept DEF TransferInv, FileHolds, ObjectsHold, AddressTrue, Size
<1>2. CASE Discards
  <2>1. UNCHANGED <<payload, objects, meta, log, dropped, faults>> /\ att' = Idle /\ staged' = Absent
    BY <1>2 DEF Discards
  <2>2. AttemptHolds' /\ FileHolds'
    BY <2>1, IdleIsAttempt DEF AttemptHolds, FileHolds
  <2>3. QED
    BY <2>1, <2>2, IdleIsAttempt, InvFacts, FileMoves
<1>3. CASE RecordsMeta
  <2>1. /\ UNCHANGED <<payload, staged, objects, log, dropped, faults>>
        /\ att.pc = "stored" /\ att' = [att EXCEPT !.pc = "recorded"]
        /\ meta' = [kind |-> "final", resume |-> NoPoint, sha256 |-> att.hashed]
    BY <1>3 DEF RecordsMeta, Moves
  <2>2. /\ meta' \in [kind : {"none", "partial", "final"}, resume : Points, sha256 : Seq(BlockValues)]
        /\ meta'.resume = NoPoint
    BY <2>1, IdleIsAttempt, InvFacts DEF Attempts
  <2>3. /\ att' \in Attempts /\ att'.pc = "recorded" /\ att'.hashed = att.hashed
        /\ att'.from = att.from /\ att'.progress = att.progress
    BY <2>1, InvFacts DEF Attempts, Phases
  <2>4. StoredHolds'
    BY <2>1, <2>3 DEF TransferInv, AttemptHolds, StoredHolds, AtRest, Hollow, Size
  <2>5. TransferTypeOK'
    BY <2>1, <2>2, <2>3 DEF TransferInv, TransferTypeOK, Attempts
  <2>6. PointsHold' /\ AttemptHolds'
    BY <2>1, <2>2, <2>3, <2>4, IdleIsAttempt, InvFacts DEF PointsHold, AttemptHolds
  <2>7. QED
    BY <2>1, <2>5, <2>6, ObjectsAreKept DEF TransferInv, FileHolds, ObjectsHold, AddressTrue, Size
<1>4. CASE AppendsEvent
  <2>1. /\ UNCHANGED <<payload, staged, objects, meta, dropped, faults>> /\ att' = Idle
        /\ att.pc = "recorded" /\ log' = log \cup {att.hashed}
    BY <1>4 DEF AppendsEvent
  <2>2. StoredHolds /\ att.hashed \in Seq(BlockValues)
    BY <2>1, InvFacts DEF TransferInv, AttemptHolds, Attempts
  <2>3. (LoggedIsStored /\ RightUnlessDropped)'
    BY <2>1, <2>2 DEF TransferInv, StoredHolds, LoggedIsStored, RightUnlessDropped, AtRest, Hollow, Size
  <2>4. TransferTypeOK'
    BY <2>1, <2>2, IdleIsAttempt DEF TransferInv, TransferTypeOK, Attempts
  <2>5. PointsHold' /\ AttemptHolds'
    BY <2>1, IdleIsAttempt, InvFacts DEF PointsHold, AttemptHolds
  <2>6. QED
    BY <2>1, <2>3, <2>4, <2>5 DEF TransferInv, FileHolds, ObjectsHold, AddressTrue, Size
<1>5. QED
  BY <1>1, <1>2, <1>3, <1>4 DEF Settles

\* The maintenance pass takes a record or a file away.
LEMMA MaintenanceKeepsInv == ASSUME TransferInv, PruneMeta \/ SweepStaging PROVE TransferInv'
<1>1. CASE PruneMeta
  <2>1. /\ UNCHANGED <<payload, staged, objects, log, att, dropped>> /\ meta' = NoMeta
        /\ faults' \in 0..MaxFaults
    BY <1>1, InvFacts, FaultIsCounted DEF PruneMeta
  <2>2. TransferTypeOK'
    BY <2>1, IdleIsAttempt DEF TransferInv, TransferTypeOK
  <2>3. PointsHold'
    BY <2>1, IdleIsAttempt, InvFacts DEF PointsHold
  <2>4. AttemptHolds'
    BY <2>1 DEF TransferInv, AttemptHolds, StreamHolds, DataHolds, StoredHolds, AtRest, Hollow, Size
  <2>5. QED
    BY <2>1, <2>2, <2>3, <2>4, ObjectsAreKept DEF TransferInv, FileHolds, ObjectsHold, AddressTrue, Size
<1>2. CASE SweepStaging
  <2>1. /\ UNCHANGED <<payload, objects, meta, log, att, dropped>> /\ staged' = Absent
        /\ faults' \in 0..MaxFaults
    BY <1>2, InvFacts, FaultIsCounted DEF SweepStaging
  <2>2. AttemptHolds'
    BY <2>1 DEF TransferInv, AttemptHolds, StreamHolds, DataHolds, StoredHolds, AtRest, Hollow, Size
  <2>3. FileHolds'
    BY <2>1 DEF FileHolds
  <2>4. QED
    BY <2>1, <2>2, <2>3, InvFacts, FileMoves
<1>3. QED
  BY <1>1, <1>2

-----------------------------------------------------------------------------
(* The theorems. *)

LEMMA TransferStepInv == TransferInv /\ [TransferNext]_transferVars => TransferInv'
<1> SUFFICES ASSUME TransferInv, [TransferNext]_transferVars PROVE TransferInv'
  OBVIOUS
<1>1. CASE Pushed \/ Referenced
  BY <1>1, AnnouncementsKeepInv
<1>2. CASE Fetches \/ RequestFails
  BY <1>2, FetchesKeepInv
<1>3. CASE Puts
  BY <1>3, OpeningsKeepInv, BlockArrivesKeepsInv, EndingsKeepInv, ChecksSizeKeepsInv, PromotionsKeepInv
     DEF Puts
<1>4. CASE Settles
  BY <1>4, SettlesKeepInv
<1>5. CASE Breaks
  <2>1. CASE Interrupted
    BY <2>1, GivingUpKeepsInv, InvFacts, FaultIsCounted DEF Interrupted
  <2>2. QED
    BY <1>5, <2>1, FetchesKeepInv, EndingsKeepInv, BodyBreaksKeepInv, PromotionsKeepInv,
       MaintenanceKeepsInv DEF Breaks
<1>6. CASE UNCHANGED transferVars
  <2>1. UNCHANGED <<payload, staged, objects, meta, log, att, dropped, faults>>
    BY <1>6 DEF transferVars
  <2>2. AttemptHolds'
    BY <2>1 DEF TransferInv, AttemptHolds, StreamHolds, DataHolds, StoredHolds, AtRest, Hollow, Size
  <2>3. QED
    BY <2>1, <2>2, InvFacts, AttemptMoves
<1>7. QED
  BY <1>1, <1>2, <1>3, <1>4, <1>5, <1>6 DEF TransferNext

(* Every value the state takes is of its type, and what carries the proofs *)
(* below holds in every state.                                             *)
THEOREM TransferIsInvariant == TransferSpec => []TransferInv
<1>1. TransferInit => TransferInv
  BY TransferInitInv
<1>2. TransferInv /\ [TransferNext]_transferVars => TransferInv'
  BY TransferStepInv
<1>3. QED
  BY <1>1, <1>2, PTL DEF TransferSpec

(* The types of the transfer's state. *)
THEOREM TransferTypes == TransferSpec => []TransferTypeOK
<1>1. TransferInv => TransferTypeOK
  BY DEF TransferInv
<1>2. QED
  BY <1>1, TransferIsInvariant, PTL

(* A content address is true: put names an object by the hash it took of   *)
(* the very bytes it promotes, through any number of resumed attempts.     *)
THEOREM AddressesAreTrue == TransferSpec => []AddressTrue
<1>1. TransferInv => AddressTrue
  BY DEF TransferInv
<1>2. QED
  BY <1>1, TransferIsInvariant, PTL

(* The record of an interrupted transfer can be believed whenever the      *)
(* worker dies: a staged file of that length begins with what the saved    *)
(* hash state absorbed.                                                    *)
THEOREM ResumePointsAreTrue == TransferSpec => []ResumePointTrue
<1>1. TransferInv => ResumePointTrue
  BY InvImpliesResumePoint
<1>2. QED
  BY <1>1, TransferIsInvariant, PTL

(* What an announced hash leads to is an object of the announced size, or  *)
(* the empty target of a copy that broke off, which an attempt adopted.    *)
THEOREM LoggedAreStored == TransferSpec => []LoggedIsStored
<1>1. TransferInv => LoggedIsStored
  BY DEF TransferInv
<1>2. QED
  BY <1>1, TransferIsInvariant, PTL

(* What is announced is the payload, whole and unmixed, unless put was     *)
(* sent the rest of a payload whose beginning it had lost.                 *)
THEOREM AnnouncedAreRight == TransferSpec => []RightUnlessDropped
<1>1. TransferInv => RightUnlessDropped
  BY DEF TransferInv
<1>2. QED
  BY <1>1, TransferIsInvariant, PTL

=============================================================================
