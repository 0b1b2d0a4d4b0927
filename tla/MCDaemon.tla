------------------------------ MODULE MCDaemon ------------------------------
(* Daemon for TLC.  The clients are interchangeable model values.           *)
EXTENDS Daemon, TLC

Symmetric == Permutations(Clients)
=============================================================================
