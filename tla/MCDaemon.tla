------------------------------ MODULE MCDaemon ------------------------------
(* Daemon for TLC: session ids are interchangeable. *)
EXTENDS Daemon, TLC

SessionSymmetry == Permutations(Sessions)
=============================================================================
