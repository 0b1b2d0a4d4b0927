--------------------------- MODULE MCProxyServer ---------------------------
(* Small instances of ProxyServer for TLC.                                  *)
EXTENDS ProxyServer, TLC

(* Connections are interchangeable: no action or invariant names one.       *)
(* Used by the safety runs only.                                            *)
Symmetric == Permutations(Conns)
=============================================================================
