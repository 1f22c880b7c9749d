---------------------------- MODULE MCPeerManager ---------------------------
(* Model checking of PeerManager: this node is between its peers.          *)
EXTENDS PeerManager
=============================================================================
