---------------------------- MODULE MCLifecycle -----------------------------
(* Instances of Lifecycle for TLC.                                         *)
EXTENDS Lifecycle

\* The daemon with and without the legacy-RFC marker file.
BothModes == {TRUE, FALSE}
============================================================================
