----------------------------- MODULE HashStream -----------------------------
(***************************************************************************)
(* sha256.js but for its arithmetic: hashingStream's choice of path, and   *)
(* the buffering, padding and snapshots of sha256Stream.  compress is kept *)
(* as what it absorbed, so two digests are equal when the same padded      *)
(* message went in.  A byte is its position in the payload.                *)
(***************************************************************************)
EXTENDS Integers, Sequences, SequencesExt

CONSTANTS
    BLOCK,          \* bytes compress takes: 64
    LENGTH,         \* bytes of the length at the end: 8
    NATIVE_LIMIT,
    MaxBytes        \* bound: length of the payload

ASSUME HashAssumption ==
    /\ LENGTH \in 1..(BLOCK - 1) /\ BLOCK \in Nat
    /\ {NATIVE_LIMIT, MaxBytes} \subseteq Nat

VARIABLES
    path,       \* "native", "streaming" or, after digest, "done"
    resumable,
    held,       \* bytes kept for the native digest
    hash,       \* sha256Stream: what was absorbed, what waits, how much came
    saved,      \* the last snapshot, of a hash in the same state
    digest

hashVars == <<path, resumable, held, hash, saved, digest>>

NewHash == [absorbed |-> <<>>, buffer |-> <<>>, length |-> 0]

HashInit ==
    /\ resumable \in BOOLEAN
    /\ path = IF resumable THEN "streaming" ELSE "native"
    /\ held = <<>> /\ hash = NewHash /\ saved = NewHash /\ digest = <<>>

(* sha256Stream.update: the buffer filled up, whole blocks, the remainder. *)
Absorb(h, bytes) ==
    LET filled == h.buffer \o bytes
        whole == Len(filled) - (Len(filled) % BLOCK)
    IN  [absorbed |-> h.absorbed \o SubSeq(filled, 1, whole),
         buffer |-> SubSeq(filled, whole + 1, Len(filled)),
         length |-> h.length + Len(bytes)]

One == -1
Zero == -2
LengthWord(n) == -3 - n

TailSize(buffered) == IF buffered < BLOCK - LENGTH THEN BLOCK ELSE 2 * BLOCK

Digest(h) ==
    LET n == Len(h.buffer)
        size == TailSize(n)
    IN  h.absorbed \o [k \in 1..size |-> CASE k <= n -> h.buffer[k]
                                           [] k = n + 1 -> One
                                           [] k = size -> LengthWord(h.length)
                                           [] OTHER -> Zero]

Standard(bytes) ==
    LET used == (Len(bytes) + 1 + LENGTH) % BLOCK
        zeros == (IF used = 0 THEN 0 ELSE BLOCK - used) + LENGTH - 1
    IN  bytes \o <<One>> \o [k \in 1..zeros |-> Zero] \o <<LengthWord(Len(bytes))>>

-----------------------------------------------------------------------------
Fed == IF path = "native" THEN Len(held) ELSE hash.length

Payload(from, to) == [k \in 1..(to - from) |-> from + k - 1]

(* hashingStream.update; past the limit what was held is replayed. *)
Update ==
    \E to \in (Fed + 1)..MaxBytes :
        LET chunk == Payload(Fed, to)
        IN  \/ /\ path = "streaming"
               /\ hash' = Absorb(hash, chunk)
               /\ UNCHANGED <<path, held>>
            \/ /\ path = "native" /\ to <= NATIVE_LIMIT
               /\ held' = held \o chunk
               /\ UNCHANGED <<path, hash>>
            \/ /\ path = "native" /\ to > NATIVE_LIMIT
               /\ path' = "streaming"
               /\ hash' = Absorb(Absorb(NewHash, held), chunk)
               /\ held' = <<>>
    /\ UNCHANGED <<resumable, saved, digest>>

\* Fault: the remainder is not looked at.
AnyMoment == path = "streaming"

Between == path = "streaming" /\ hash.buffer = <<>>

(* snapshot is null inside a block: state and length are all it keeps. *)
Snapshot ==
    /\ resumable
    /\ Between
    /\ saved' = [hash EXCEPT !.buffer = <<>>]
    /\ UNCHANGED <<path, resumable, held, hash, digest>>

(* The attempt is gone; another one goes on from the snapshot. *)
Resume ==
    /\ resumable
    /\ path = "streaming"
    /\ hash' = saved
    /\ UNCHANGED <<path, resumable, held, saved, digest>>

Digests ==
    /\ path # "done"
    /\ path' = "done"
    /\ digest' = IF path = "native" THEN Standard(held) ELSE Digest(hash)
    /\ hash' = [hash EXCEPT !.length = Fed]
    /\ UNCHANGED <<resumable, held, saved>>

HashNext == Update \/ Snapshot \/ Resume \/ Digests

HashSpec == HashInit /\ [][HashNext]_hashVars

-----------------------------------------------------------------------------
(* "Either path produces the same standard digest" (sha256.js:147): however *)
(* the payload was cut into chunks, wherever the native limit was passed,   *)
(* and however often it was resumed from a snapshot, the digest is that of  *)
(* the padded payload.                                                      *)
DigestIsStandard == path = "done" => digest = Standard(Payload(0, hash.length))
=============================================================================
