--------------------------- MODULE MCPayloadStore ---------------------------
(* Instance of PayloadStore for TLC.                                       *)
EXTENDS PayloadStore

=============================================================================
