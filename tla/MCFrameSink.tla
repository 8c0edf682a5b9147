----------------------------- MODULE MCFrameSink ----------------------------
(* Instance of FrameSink for TLC.                                          *)
EXTENDS FrameSink

=============================================================================
