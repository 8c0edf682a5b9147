---------------------------- MODULE MCReadModel ----------------------------
(* Instance of ReadModel for TLC.                                          *)
EXTENDS ReadModel

=============================================================================
