------------------------------- MODULE MCNode -------------------------------
(* Combinations of the options of msuite.go that change what is built.      *)
(* "uds" has the constructor signature of "tcp" and "static" needs only the   *)
(* configuration, so they are combined with fewer of the others.             *)
EXTENDS Node

MCOptionSets ==
  SUBSET {"tcp", "p2pgrpc", "p2p", "http", "auth", "locker", "files", "prom",
          "tracing", "bootstrap"}
    \cup {o \cup {"uds", "static"} :
             o \in SUBSET {"tcp", "p2pgrpc", "p2p", "http", "prom"}}
=============================================================================
