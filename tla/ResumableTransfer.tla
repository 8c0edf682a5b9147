------------------------- MODULE ResumableTransfer -------------------------
(***************************************************************************)
(* One payload arriving from the upstream: receiveBlobExclusive of         *)
(* upstream.js around put of blobs.js.  The Web Lock of receiveBlob makes  *)
(* attempts for one key exclusive, so there is one attempt at a time and   *)
(* as many as announcements of the key.                                    *)
(*                                                                         *)
(* A byte string is a sequence of blocks, because put emits blocks and a   *)
(* resume point is always a whole number of them.  A hash is the sequence  *)
(* that was hashed (no collisions), so a hash state is what it has         *)
(* absorbed so far.  The payload is stored raw (encoding null).            *)
(***************************************************************************)
EXTENDS Integers, Sequences, FiniteSets

CONSTANTS
    MaxBlocks,   \* bound: full blocks of a payload
    MaxFaults    \* bound: failures of the network, the disk and the worker

ASSUME TransferAssumption ==
    /\ MaxBlocks \in Nat
    /\ MaxFaults \in Nat

VARIABLES
    payload,   \* what the upstream announces under the key
    staged,    \* staging/<key>: its bytes, or Absent
    objects,   \* objects/: files by the name they were given
    meta,      \* the key's metadata record
    log,       \* hashes the log announced for the key ("blob" events)
    att,       \* the attempt in progress
    dropped,   \* history: put dropped a prefix whose rest was on its way
    faults     \* failures so far, for the bound

transferVars == <<payload, staged, objects, meta, log, att, dropped, faults>>

-----------------------------------------------------------------------------
(* Bytes.  Block i of a payload is i, the short one at its end Stub.  -i   *)
(* is a piece of block i, cut off by an early end; Nul is a block of       *)
(* zeroes.  A full block weighs 2, anything shorter 1.                     *)

Nul == 0

Stub == MaxBlocks + 1

BlockValues == (-MaxBlocks)..Stub

Absent == <<-Stub>>

Whole(b) == b \in 0..MaxBlocks

Bytes(s) == Len(s) + Cardinality({i \in 1..Len(s) : Whole(s[i])})

BlockBytes(n) == 2 * n

FullBlocks(n) == [i \in 1..n |-> i]

Payloads ==
    {FullBlocks(n) : n \in 1..MaxBlocks} \cup {Append(FullBlocks(n), Stub) : n \in 0..MaxBlocks}

Size == Bytes(payload)

\* At least RESUMABLE_ABOVE, which is BLOCK_SIZE.
Resumable == Size >= BlockBytes(1)

(* A resume point: how many complete blocks, and the hash state there. *)
NoPoint == [blocks |-> 0, hash |-> <<>>]

NoMeta == [kind |-> "none", resume |-> NoPoint, sha256 |-> <<>>]

Idle ==
    [pc |-> "idle", from |-> NoPoint, next |-> 0, data |-> <<>>, hashed |-> <<>>,
     progress |-> NoPoint]

Phases ==
    {"idle", "request", "open", "streaming", "closed", "promote", "failed", "stored", "recorded"}

Points == [blocks : 0..MaxBlocks, hash : Seq(BlockValues)]

TransferTypeOK ==
    /\ payload \in Payloads
    /\ staged \in Seq(BlockValues) \cup {Absent}
    /\ objects \subseteq [name : Seq(BlockValues), bytes : Seq(BlockValues)]
    /\ meta \in [kind : {"none", "partial", "final"}, resume : Points, sha256 : Seq(BlockValues)]
    /\ log \subseteq Seq(BlockValues)
    /\ att \in [pc : Phases, from : Points, next : 0..(MaxBlocks + 2), data : Seq(BlockValues),
                hashed : Seq(BlockValues), progress : Points]
    /\ dropped \in BOOLEAN
    /\ faults \in 0..MaxFaults

TransferInit ==
    /\ payload \in Payloads
    /\ staged = Absent
    /\ objects = {}
    /\ meta = NoMeta
    /\ log = {}
    /\ att = Idle
    /\ dropped = FALSE
    /\ faults = 0

Fault ==
    /\ faults < MaxFaults
    /\ faults' = faults + 1

Resolves(hash) == \E o \in objects : o.name = hash

\* What a file holds before byte position 2n; past its end it reads as NULs.
Prefix(file, n) == [i \in 1..n |-> IF i <= Len(file) THEN file[i] ELSE Nul]

-----------------------------------------------------------------------------
(* The announcement: a delivered payload is not fetched again.  Pushed     *)
(* bytes come with the frame and start at zero; otherwise the frame holds  *)
(* a reference.                                                            *)
Known == meta.kind = "final" /\ Resolves(meta.sha256)

Announced ==
    /\ att.pc = "idle"
    /\ ~Known
    /\ UNCHANGED <<payload, staged, objects, meta, log, dropped, faults>>

Pushed ==
    /\ Announced
    /\ att' = [Idle EXCEPT !.pc = "open", !.next = 1]

Referenced ==
    /\ Announced
    /\ att' = [Idle EXCEPT !.pc = "request",
                           !.from = IF Resumable THEN meta.resume ELSE NoPoint]

Answered(next, from) ==
    /\ att' = [att EXCEPT !.pc = "open", !.next = next, !.from = from]
    /\ UNCHANGED <<payload, staged, objects, meta, log, dropped>>

\* Fault: a resent payload is taken for the remainder.
WholeTakenAsRest ==
    /\ att.pc = "request"
    /\ att.from # NoPoint => Fault
    /\ att.from = NoPoint => UNCHANGED faults
    /\ Answered(1, att.from)

(* 200: everything is on its way, asked for or not. *)
RespondsWhole ==
    /\ att.pc = "request"
    /\ att.from # NoPoint => Fault
    /\ att.from = NoPoint => UNCHANGED faults
    /\ Answered(1, NoPoint)

(* 206: the rest is on its way. *)
RespondsRest ==
    /\ att.pc = "request"
    /\ att.from # NoPoint
    /\ BlockBytes(att.from.blocks) < Size
    /\ Answered(att.from.blocks + 1, att.from)
    /\ UNCHANGED faults

GiveUp ==
    /\ att' = Idle
    /\ UNCHANGED <<payload, staged, objects, meta, log, dropped>>

(* 416: nothing is left beyond the range; the attempt throws. *)
RespondsUnsatisfiable ==
    /\ att.pc = "request"
    /\ BlockBytes(att.from.blocks) >= Size
    /\ GiveUp
    /\ UNCHANGED faults

RequestFails ==
    /\ att.pc = "request"
    /\ Fault
    /\ GiveUp

-----------------------------------------------------------------------------
(* put: the log says where the last attempt stopped, the file whether      *)
(* those bytes are still there.  A prefix that is not there is dropped,    *)
(* and what arrives is written from the start of the file.                 *)
Created == IF staged = Absent THEN <<>> ELSE staged

Continue(prefix) ==
    /\ att.pc = "open"
    /\ att' = [att EXCEPT !.pc = "streaming",
                          !.data = Prefix(Created, prefix.blocks),
                          !.hashed = prefix.hash]
    /\ staged' = Created
    /\ UNCHANGED <<payload, objects, meta, log, faults>>

PrefixThere ==
    /\ att.from # NoPoint
    /\ staged # Absent
    /\ Bytes(staged) >= BlockBytes(att.from.blocks)

\* Fault: the log is believed, and the seek pads the file.
ResumesUnchecked ==
    /\ att.from # NoPoint
    /\ Continue(att.from)
    /\ UNCHANGED dropped

Resumes ==
    /\ PrefixThere
    /\ Continue(att.from)
    /\ UNCHANGED dropped

Starts ==
    /\ ~PrefixThere
    /\ Continue(NoPoint)
    /\ dropped' = (dropped \/ att.next > 1)

Absorbs(b, point) ==
    [att EXCEPT !.data = Append(@, b), !.hashed = Append(@, b), !.next = @ + 1,
                !.progress = IF Whole(b) /\ Resumable THEN point ELSE @]

\* Fault: the hash state is recorded before the block went into it.
EmitsLateHash(b) == Absorbs(b, [blocks |-> Len(att.data) + 1, hash |-> att.hashed])

(* emit: hash, write, and after a full block a new resume point. *)
Emits(b) == Absorbs(b, [blocks |-> Len(att.data) + 1, hash |-> Append(att.hashed, b)])

Streaming ==
    /\ att.pc = "streaming"
    /\ UNCHANGED <<payload, objects, meta, log, dropped>>

BlockArrives ==
    /\ Streaming
    /\ att.next <= Len(payload)
    /\ Whole(payload[att.next])
    /\ att' = Emits(payload[att.next])
    /\ UNCHANGED <<payload, staged, faults>>

(* Nothing reaches the file before writer.close. *)
Closes(attempt) ==
    /\ att' = [attempt EXCEPT !.pc = "closed"]
    /\ staged' = attempt.data

BodyEnds ==
    /\ Streaming
    /\ \/ att.next = Len(payload) + 1 /\ Closes(att)
       \/ att.next = Len(payload) /\ payload[att.next] = Stub /\ Closes(Emits(Stub))
    /\ UNCHANGED faults

(* The body ends early without an error, between blocks or inside one.     *)
BodyEndsEarly ==
    /\ Streaming
    /\ att.next <= Len(payload)
    /\ \/ Closes(att)
       \/ Whole(payload[att.next]) /\ Closes(Emits(-payload[att.next]))
    /\ Fault

(* The body fails: what was written is closed, not thrown away. *)
BodyDies ==
    /\ Streaming
    /\ att' = [att EXCEPT !.pc = "failed"]
    /\ staged' = IF Resumable THEN att.data ELSE Absent
    /\ Fault

(* The file fails: close rejects too and none of it lands. *)
DiskFails ==
    /\ Streaming
    /\ att' = [att EXCEPT !.pc = "failed"]
    /\ staged' = IF Resumable THEN staged ELSE Absent
    /\ Fault

-----------------------------------------------------------------------------
Moves(to) == att' = [att EXCEPT !.pc = to]

\* Fault: the announced length is not looked at.
AcceptsAnySize ==
    /\ att.pc = "closed"
    /\ Moves("promote")
    /\ UNCHANGED <<payload, staged, objects, meta, log, dropped, faults>>

\* Fault: off by one, a transfer of the right size is refused.
RequiresMore ==
    /\ att.pc = "closed"
    /\ Moves(IF Bytes(att.data) > Size THEN "promote" ELSE "failed")
    /\ UNCHANGED <<payload, staged, objects, meta, log, dropped, faults>>

(* The announced length is the only independent statement of the bytes.    *)
ChecksSize ==
    /\ att.pc = "closed"
    /\ Moves(IF Bytes(att.data) = Size THEN "promote" ELSE "failed")
    /\ UNCHANGED <<payload, staged, objects, meta, log, dropped, faults>>

(* Same content already at rest: adopt it and drop the staged copy. *)
Adopts ==
    /\ att.pc = "promote"
    /\ Resolves(att.hashed)
    /\ staged' = Absent
    /\ Moves("stored")
    /\ UNCHANGED <<payload, objects, meta, log, dropped, faults>>

Promotes ==
    /\ att.pc = "promote"
    /\ ~Resolves(att.hashed)
    /\ staged # Absent
    /\ objects' = objects \cup {[name |-> att.hashed, bytes |-> staged]}
    /\ staged' = Absent
    /\ Moves("stored")
    /\ UNCHANGED <<payload, meta, log, dropped, faults>>

(* move() fails and so does the copy, before or after it made its target;  *)
(* a swept staging file makes both fail.  An empty target resolves: the    *)
(* next attempt adopts it.                                                 *)
PromoteFails ==
    /\ att.pc = "promote"
    /\ ~Resolves(att.hashed)
    /\ IF staged = Absent THEN UNCHANGED faults ELSE Fault
    /\ \/ UNCHANGED objects
       \/ /\ staged # Absent
          /\ objects' = objects \cup {[name |-> att.hashed, bytes |-> <<>>]}
    /\ Moves("failed")
    /\ UNCHANGED <<payload, staged, meta, log, dropped>>

-----------------------------------------------------------------------------
(* receiveBlobExclusive after put: the prefix of a failed attempt is kept  *)
(* if the attempt completed a block, and discarded otherwise.              *)
KeepsPrefix ==
    /\ att.pc = "failed"
    /\ att.progress # NoPoint
    /\ meta' = [kind |-> "partial", resume |-> att.progress, sha256 |-> <<>>]
    /\ att' = Idle
    /\ UNCHANGED <<payload, staged, objects, log, dropped, faults>>

Discards ==
    /\ att.pc = "failed"
    /\ att.progress = NoPoint
    /\ staged' = Absent
    /\ att' = Idle
    /\ UNCHANGED <<payload, objects, meta, log, dropped, faults>>

RecordsMeta ==
    /\ att.pc = "stored"
    /\ meta' = [kind |-> "final", resume |-> NoPoint, sha256 |-> att.hashed]
    /\ Moves("recorded")
    /\ UNCHANGED <<payload, staged, objects, log, dropped, faults>>

AppendsEvent ==
    /\ att.pc = "recorded"
    /\ log' = log \cup {att.hashed}
    /\ att' = Idle
    /\ UNCHANGED <<payload, staged, objects, meta, dropped, faults>>

-----------------------------------------------------------------------------
(* The worker is killed, or a log transaction fails: the attempt is gone,  *)
(* with whatever its writable held.                                        *)
Interrupted ==
    /\ att.pc # "idle"
    /\ Fault
    /\ GiveUp

(* The maintenance pass, from a live set that lacks the key: metadata      *)
(* first, then the staged file, unless a writer holds it.                  *)
PruneMeta ==
    /\ meta # NoMeta
    /\ meta' = NoMeta
    /\ Fault
    /\ UNCHANGED <<payload, staged, objects, log, att, dropped>>

SweepStaging ==
    /\ staged # Absent
    /\ att.pc # "streaming"
    /\ staged' = Absent
    /\ Fault
    /\ UNCHANGED <<payload, objects, meta, log, att, dropped>>

-----------------------------------------------------------------------------
Fetches == RespondsWhole \/ RespondsRest \/ RespondsUnsatisfiable

Puts ==
    \/ Resumes \/ Starts
    \/ BlockArrives \/ BodyEnds
    \/ ChecksSize \/ Adopts \/ Promotes

Settles == KeepsPrefix \/ Discards \/ RecordsMeta \/ AppendsEvent

Breaks ==
    \/ RequestFails \/ BodyEndsEarly \/ BodyDies \/ DiskFails
    \/ PromoteFails
    \/ Interrupted \/ PruneMeta \/ SweepStaging

TransferNext == Pushed \/ Referenced \/ Fetches \/ Puts \/ Settles \/ Breaks

TransferSpec == TransferInit /\ [][TransferNext]_transferVars

(* The upstream announces again until the key is delivered, its server     *)
(* answers, and an attempt that is not broken runs to its end.             *)
TransferFairness ==
    /\ WF_transferVars(Referenced)
    /\ WF_transferVars(Fetches)
    /\ WF_transferVars(Puts \/ Settles \/ (PromoteFails /\ staged = Absent))

TransferFairSpec == TransferSpec /\ TransferFairness

-----------------------------------------------------------------------------
(* What follows holds as long as put was never sent the rest of a payload  *)
(* whose beginning it no longer had; ResumableTransferRight.cfg shows what *)
(* happens after that.                                                     *)

(* A content address is true: an object holds the bytes its name is the    *)
(* hash of, through any number of resumed attempts, or is the empty target *)
(* of a copy that never finished.                                          *)
AddressTrue == \A o \in objects : o.bytes \in {o.name, <<>>} \/ dropped

(* The record of an interrupted transfer can be believed at any moment a   *)
(* worker may die: a staged file as long as the recorded prefix begins     *)
(* with exactly the bytes the saved hash state has absorbed.               *)
ResumePointTrue ==
    meta.kind = "partial" /\ staged # Absent
        /\ Bytes(staged) >= BlockBytes(meta.resume.blocks)
    => Prefix(staged, meta.resume.blocks) = meta.resume.hash \/ dropped

AtRest(hash) == \E o \in objects : o.name = hash /\ Bytes(o.bytes) = Size

\* A copy broke off when it had made this target and put nothing into it.
Hollow(hash) == [name |-> hash, bytes |-> <<>>] \in objects

(* "A logged event with no bytes is a broken promise" (upstream.js:202):   *)
(* the object an announced hash leads to has the announced size, dropped   *)
(* or not.  The code breaks its promise where a copy broke off: the next   *)
(* attempt adopts the empty target, throws its own bytes away and logs it. *)
LoggedIsStored == \A hash \in log : AtRest(hash) \/ Hollow(hash)

(* What is announced is the payload: no mixture of two attempts of the     *)
(* right size.                                                             *)
RightUnlessDropped == \A hash \in log : hash = payload \/ dropped

(* A transfer that keeps being announced is delivered once faults stop,    *)
(* unless a prefix was dropped on the way or an attempt failed after its   *)
(* last block (Finishes, below).                                           *)
FinishesUnlessCornered ==
    <>(meta.kind = "final" \/ dropped \/ BlockBytes(meta.resume.blocks) = Size)

(* The README's promise without the exception: a resumed transfer arrives  *)
(* "at the standard hash of the whole payload".  It fails: the rest of a   *)
(* payload, stored from the start of the file, becomes a resume point of   *)
(* its own, and the next attempt completes it to the announced size.       *)
Right == \A hash \in log : hash = payload

(* The promise of upstream.js: "the next announcement of this key picks up *)
(* from there instead of starting at zero".  It fails once every block has *)
(* been recorded: the next request asks for the bytes after the last one.  *)
Finishes == <>(meta.kind = "final")
=============================================================================
