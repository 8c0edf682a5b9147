------------------------------ MODULE MCCodecs ------------------------------
(* Instance of SseCodec, BlockContainer and HashStream for TLC.  They have *)
(* nothing to do with each other: a behaviour is one of one of the three.  *)
EXTENDS SseCodec, BlockContainer, HashStream

SseIdle == wire = <<>>
BlockIdle == size = 0 /\ encoding = "raw" /\ torn /\ status = "idle"
HashIdle == path = "native" /\ held = <<>>

CodecInit ==
    /\ SseInit /\ BlockInit /\ HashInit
    /\ SseIdle \/ (BlockIdle /\ HashIdle)
    /\ BlockIdle \/ HashIdle

CodecNext ==
    \/ Transform /\ UNCHANGED <<blockVars, hashVars>>
    \/ BlockNext /\ SseIdle /\ HashIdle /\ UNCHANGED <<sseVars, hashVars>>
    \/ HashNext /\ SseIdle /\ BlockIdle /\ UNCHANGED <<sseVars, blockVars>>

CodecSpec == CodecInit /\ [][CodecNext]_<<sseVars, blockVars, hashVars>>
=============================================================================
