--------------------------- MODULE BlockContainer ---------------------------
(***************************************************************************)
(* A payload at rest and a request for part of it: the trailer blobs.js    *)
(* put writes and blocks.js readTrailer reads, resolve, handler.js         *)
(* parseRange and getBlob, and the pulls of readBlocks.                    *)
(*                                                                         *)
(* A file is a sequence of plaintext bytes, or of member bytes followed by *)
(* words of the trailer.  How long a compressed block is, the data decides.*)
(***************************************************************************)
EXTENDS Integers, Sequences, FiniteSets, SequencesExt

CONSTANTS
    BLOCK_SIZE,
    MaxSize,     \* bound: plaintext bytes of the payload
    MaxMember    \* bound: bytes of a compressed block

ASSUME BlockAssumption ==
    /\ BLOCK_SIZE \in Nat \ {0}
    /\ MaxSize \in Nat
    /\ MaxMember \in Nat \ {0}

VARIABLES
    size,       \* history: plaintext bytes of the payload, 0..size-1
    members,    \* lengths of the compressed blocks
    encoding,   \* "gzip" or "raw"
    torn,       \* promotion broke off in the copy: the object is empty
    status,     \* of the request: "idle", "reading", how the body ended, or no body
    header,     \* the Range header
    range,      \* what parseRange made of it
    block,      \* readBlocks' next block
    body        \* bytes the response has delivered

blockVars == <<size, members, encoding, torn, status, header, range, block, body>>

Least(a, b) == IF a < b THEN a ELSE b
Greatest(a, b) == IF a > b THEN a ELSE b

-----------------------------------------------------------------------------
(* The file. *)

Blocks(n) == (n + BLOCK_SIZE - 1) \div BLOCK_SIZE

Plain(from, to) == [k \in 1..Greatest(0, to - from + 1) |-> from + k - 1]

BlockPlain(i) == Plain(i * BLOCK_SIZE, Least(size, (i + 1) * BLOCK_SIZE) - 1)

Member(i) == [k \in 1..members[i + 1] |-> [block |-> i, byte |-> k]]

\* Fault: what is left over is the last block, also when nothing is.
BytesLeftOver == size % BLOCK_SIZE

(* held || BLOCK_SIZE *)
LastBlockSize == IF size % BLOCK_SIZE = 0 THEN BLOCK_SIZE ELSE size % BLOCK_SIZE

Words(numbers) == [k \in DOMAIN numbers |-> [word |-> numbers[k]]]

MAGIC == -1

EncodeTrailer == Words(members \o <<BLOCK_SIZE, LastBlockSize, Len(members), MAGIC>>)

File ==
    IF torn THEN <<>>
    ELSE IF encoding = "raw" THEN Plain(0, size - 1)
    ELSE FlattenSeq([i \in DOMAIN members |-> Member(i - 1)]) \o EncodeTrailer

FOOTER == 4

(* The index, none if the file is not one of our containers or is torn. *)
ReadTrailer ==
    LET word(k) == File[k].word
        footAt == Len(File) - FOOTER
        count == word(footAt + 3)
        tableAt == footAt - count
        offsets[i \in 0..count] == IF i = 0 THEN 0 ELSE offsets[i - 1] + word(tableAt + i)
    IN  IF \/ Len(File) < FOOTER
           \/ word(Len(File)) # MAGIC
           \/ tableAt < 0
           \/ offsets[count] # tableAt
        THEN {}
        ELSE {[offsets |-> offsets,
               blockSize |-> word(footAt + 1),
               size |-> IF count = 0 THEN 0 ELSE (count - 1) * word(footAt + 1) + word(footAt + 2)]}

Index == CHOOSE index \in ReadTrailer : TRUE

ObjectSize == IF encoding = "gzip" THEN Index.size ELSE Len(File)

Resolves == encoding = "raw" \/ ReadTrailer # {}

(* Only a whole member decodes, and to its own block; nothing else does. *)
Gunzip(bytes) ==
    LET is == {i \in 0..(Len(members) - 1) : Member(i) = bytes}
    IN  IF is = {} THEN <<>> ELSE BlockPlain(CHOOSE i \in is : TRUE)

-----------------------------------------------------------------------------
(* The request. *)

Blank == -1
NoHeader == [kind |-> "none"]
Unusable == [kind |-> "unusable"]

Headers ==
    [kind : {"bytes"}, first : {Blank} \cup 0..(MaxSize + 1), last : {Blank} \cup 0..(MaxSize + 1)]
        \cup {NoHeader, Unusable}

ParseRange(h, n) ==
    LET start == IF h.first # Blank THEN h.first
                 ELSE IF h.last = Blank THEN n ELSE Greatest(0, n - h.last)
        end == IF h.first = Blank \/ h.last = Blank THEN n - 1 ELSE Least(n - 1, h.last)
    IN  IF h.kind # "bytes" \/ start > end THEN {} ELSE {[start |-> start, end |-> end]}

BlockInit ==
    /\ size \in 0..MaxSize
    /\ encoding \in {"gzip", "raw"}
    /\ members \in IF encoding = "raw" THEN {<<>>} ELSE [1..Blocks(size) -> 1..MaxMember]
    /\ torn \in BOOLEAN
    /\ status = "idle"
    /\ header = NoHeader
    /\ range = [start |-> 0, end |-> -1]
    /\ block = 0
    /\ body = <<>>

(* getBlob.  The body is the range, or without a header all of it. *)
GetBlob(h) ==
    /\ status = "idle"
    /\ header' = h
    /\ IF ~Resolves
       THEN status' = "absent" /\ UNCHANGED <<range, block>>
       ELSE LET asked == IF h = NoHeader THEN {[start |-> 0, end |-> ObjectSize - 1]}
                         ELSE ParseRange(h, ObjectSize)
            IN  \/ /\ asked = {}
                   /\ status' = "unsatisfiable"
                   /\ UNCHANGED <<range, block>>
                \/ /\ range' \in asked
                   /\ status' = "reading"
                   /\ block' = range'.start \div BLOCK_SIZE
    /\ UNCHANGED <<size, members, encoding, torn, body>>

ReadsRaw ==
    /\ status = "reading"
    /\ encoding = "raw"
    /\ body' = SubSeq(File, range.start + 1, range.end + 1)
    /\ status' = "closed"
    /\ UNCHANGED <<size, members, encoding, torn, header, range, block>>

TailOf(plain) == Least(Len(plain), range.end - block * Index.blockSize + 1)

(* readBlocks' pull.  A pull that enqueues nothing is not repeated: the    *)
(* reader waits for ever.                                                  *)
Pull ==
    /\ status = "reading"
    /\ encoding = "gzip"
    /\ IF block > range.end \div Index.blockSize
       THEN status' = "closed" /\ UNCHANGED <<block, body>>
       ELSE LET plain == Gunzip(SubSeq(File, Index.offsets[block] + 1, Index.offsets[block + 1]))
                head == Greatest(0, range.start - block * Index.blockSize)
            IN  /\ block' = block + 1
                /\ body' = body \o SubSeq(plain, head + 1, TailOf(plain))
                /\ status' = IF TailOf(plain) > head THEN "reading" ELSE "starved"
    /\ UNCHANGED <<size, members, encoding, torn, header, range>>

BlockNext == (\E h \in Headers : GetBlob(h)) \/ ReadsRaw \/ Pull

BlockSpec == BlockInit /\ [][BlockNext]_blockVars

-----------------------------------------------------------------------------
Requested ==
    IF header = NoHeader THEN 0..(size - 1)
    ELSE {p \in 0..(size - 1) :
             /\ header # Unusable
             /\ IF header.first = Blank THEN header.last # Blank /\ p >= size - header.last
                ELSE p >= header.first /\ (header.last = Blank \/ p <= header.last)}

(* Whatever the payload's size - none, whole blocks, a short last one - and *)
(* whatever its blocks compress to, the response delivers the bytes asked   *)
(* for, in order, none missing and none of the blocks around them; it ends; *)
(* and it is 416 exactly when there is nothing to deliver.  A container     *)
(* whose promotion broke off is not there ("treated as absent", blobs.js    *)
(* 275-276); a raw object torn that way cannot be told from an empty one.   *)
RangeIsExact ==
    status # "idle" =>
        IF torn THEN encoding = "gzip" => status = "absent"
        ELSE /\ status \in {"reading", "closed", "unsatisfiable"}
             /\ \A i, j \in DOMAIN body : i < j => body[i] < body[j]
             /\ Range(body) \subseteq Requested
             /\ \A p \in Requested \ Range(body) :
                    status # "closed" /\ \A q \in Range(body) : q < p
             /\ (status = "unsatisfiable") <=> (header # NoHeader /\ Requested = {})
=============================================================================
