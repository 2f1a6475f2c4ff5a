---------------------------- MODULE MCWatchdogDaemon ----------------------------
(* WatchdogDaemon for TLC.                                                      *)
EXTENDS WatchdogDaemon, TLC
Symmetry == Permutations(Processes) \cup Permutations(Workers)
=============================================================================
