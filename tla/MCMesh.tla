------------------------------- MODULE MCMesh -------------------------------
(* Mesh for TLC: peers, connections and dialers are model values.  Peers are *)
(* interchangeable, for the liveness properties, too: these and the fairness *)
(* speak of single connections, but of no single peer.                       *)
EXTENDS Mesh, TLC

PeerSymmetry == Permutations(Peers)
=============================================================================
