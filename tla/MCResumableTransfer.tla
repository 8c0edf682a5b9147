------------------------ MODULE MCResumableTransfer ------------------------
(* Instance of ResumableTransfer for TLC.                                  *)
EXTENDS ResumableTransfer

=============================================================================
