----------------------------- MODULE MCBootstrap -----------------------------
(* Bootstrap with three peers, of which any may be down when another is up. *)
EXTENDS Bootstrap
CONSTANTS p1, p2, p3
MCPeers == <<p1, p2, p3>>
=============================================================================
