-------------------------- MODULE MCBackgroundFetch --------------------------
(* Instance of BackgroundFetch for TLC.                                    *)
EXTENDS BackgroundFetch

=============================================================================
