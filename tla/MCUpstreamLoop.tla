--------------------------- MODULE MCUpstreamLoop ---------------------------
(* Instance of UpstreamLoop for TLC.                                       *)
EXTENDS UpstreamLoop

=============================================================================
