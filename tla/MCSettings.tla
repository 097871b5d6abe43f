------------------------------ MODULE MCSettings ------------------------------
(* The instance of SettingsFile for TLC.  Processes and builds are            *)
(* interchangeable, and the properties are invariants.                        *)
EXTENDS SettingsFile, TLC

Interchangeable == Permutations(Procs) \cup Permutations(Builds)
=============================================================================
