------------------------------- MODULE Mesher -------------------------------
(***************************************************************************)
(* How nodes that share a bootstrap host find each other:                   *)
(* modules/node/internal/mesher/mesher.go.                                  *)
(*                                                                         *)
(* Actors that interleave, on each node: the ConnectedF callbacks (one per  *)
(* connection, blocked on an unbuffered channel), the worker task that      *)
(* takes from the channel and sends, and the stream handlers that connect   *)
(* to the peers of a request.  A request is one SendMsg of Protocols: it    *)
(* gives up at its deadline, and the handler may go on.                     *)
(*                                                                         *)
(* External, libp2p: a new connection calls ConnectedF on both nodes; Connect*)
(* returns, and the streams of the connection are handled, when the node's  *)
(* own callback has returned; the address of a peer that connected becomes  *)
(* known later, by identify.  Two nodes have at most one connection, and    *)
(* connections are not lost.                                                *)
(***************************************************************************)
EXTENDS Naturals, FiniteSets

CONSTANTS
  Node,
  Hub,        \* the bootstrap host
  MayStop     \* nodes that may stop

ASSUME MesherAssumption == Hub \in Node /\ MayStop \in SUBSET Node

VARIABLES
  conn,     \* the pairs of connected nodes
  addrs,    \* peers whose addresses are in a node's peerstore
  pend,     \* callbacks of a node that are blocked on newPeerChan, by peer
  worker,   \* the peer whose answer the worker waits for; itself: none
  req,      \* req[p][n], the handler on p of n's request: pc and peers to try
  stop,     \* nodes whose task manager has stopped
  stopped,  \* nodes whose worker has returned
  missed    \* history: pairs an address, a dial or a request was missing for

vars == <<conn, addrs, pend, worker, req, stop, stopped, missed>>

Pair(a, b) == {a, b}
Connected(a, b) == Pair(a, b) \in conn
Peers(n) == {p \in Node : Connected(n, p) /\ p # n}
NoReq == [pc |-> "no", todo |-> {}, dial |-> Hub]

Init ==
  /\ conn = {} /\ addrs = [n \in Node |-> {Hub}]
  /\ pend = [n \in Node |-> {}] /\ worker = [n \in Node |-> n]
  /\ req = [p \in Node |-> [n \in Node |-> NoReq]]
  /\ stop = {} /\ stopped = {} /\ missed = {}

-----------------------------------------------------------------------------
(* libp2p *)

\* a dials b and knows b's address; b learns a's by Identify, at once or later.
NewConn(a, b) ==
  /\ conn' = conn \cup {Pair(a, b)}
  /\ pend' = [pend EXCEPT ![a] = @ \cup {b}, ![b] = @ \cup {a}]
  /\ addrs' = [addrs EXCEPT ![a] = @ \cup {b}]

\* A node connects to the bootstrap host.
Join(a) ==
  /\ a # Hub /\ ~Connected(a, Hub) /\ NewConn(a, Hub)
  /\ UNCHANGED <<worker, req, stop, stopped, missed>>

Identify(n, p) ==
  /\ Connected(n, p) /\ p \notin addrs[n]
  /\ addrs' = [addrs EXCEPT ![n] = @ \cup {p}]
  /\ UNCHANGED <<conn, pend, worker, req, stop, stopped, missed>>

-----------------------------------------------------------------------------
(* The worker *)

\* getPeersFor: the connected peers but pr, as far as their addresses are known.
getPeersFor(n, pr) == (Peers(n) \ {pr}) \cap addrs[n]

\* Mutation of Take: the worker returns when there is nothing to send.
TakeReturns(n, p) ==
  /\ worker[n] = n /\ n \notin stopped /\ p \in pend[n]
  /\ pend' = [pend EXCEPT ![n] = @ \ {p}]
  /\ LET peers == getPeersFor(n, p)
     IN IF peers = {} THEN stopped' = stopped \cup {n} /\ UNCHANGED <<worker, req>>
        ELSE /\ worker' = [worker EXCEPT ![n] = p]
             /\ req' = [req EXCEPT ![p][n] = [pc |-> "sent", todo |-> peers,
                                              dial |-> Hub]]
             /\ UNCHANGED stopped
  /\ UNCHANGED <<conn, addrs, stop, missed>>

\* newPeerChan gives the worker of n the peer p; BroadcastPeers sends p the
\* other peers, unless there are none.
Take(n, p) ==
  /\ worker[n] = n /\ n \notin stopped /\ p \in pend[n]
  /\ pend' = [pend EXCEPT ![n] = @ \ {p}]
  /\ LET peers == getPeersFor(n, p)
     IN IF peers = {} THEN UNCHANGED <<worker, req>>
        ELSE /\ worker' = [worker EXCEPT ![n] = p]
             /\ req' = [req EXCEPT ![p][n] = [pc |-> "sent", todo |-> peers,
                                              dial |-> Hub]]
  /\ missed' = missed \cup {Pair(p, q) : q \in Peers(n) \ (addrs[n] \cup {p})}
  /\ UNCHANGED <<conn, addrs, stop, stopped>>

\* The answer arrives.
Answered(n) ==
  /\ worker[n] # n /\ req[worker[n]][n] = NoReq
  /\ worker' = [worker EXCEPT ![n] = n]
  /\ UNCHANGED <<conn, addrs, pend, req, stop, stopped, missed>>

\* Mutation of Timeout: there is no deadline.
TimeoutNever(n) == worker[n] # n /\ UNCHANGED vars

\* SendMsg gives up, before or after the handler has read the request.
Timeout(n) ==
  LET p == worker[n] IN
  /\ p # n /\ req[p][n] # NoReq
  /\ worker' = [worker EXCEPT ![n] = n]
  /\ \/ UNCHANGED <<req, missed>>
     \/ /\ req[p][n].pc = "sent"
        /\ req' = [req EXCEPT ![p][n] = NoReq]
        /\ missed' = missed \cup {Pair(p, q) : q \in req[p][n].todo}
  /\ UNCHANGED <<conn, addrs, pend, stop, stopped>>

Stop(n) ==
  /\ n \in MayStop \ stop /\ stop' = stop \cup {n}
  /\ UNCHANGED <<conn, addrs, pend, worker, req, stopped, missed>>

WorkerEnds(n) ==
  /\ n \in stop \ stopped /\ worker[n] = n /\ stopped' = stopped \cup {n}
  /\ UNCHANGED <<conn, addrs, pend, worker, req, stop, missed>>

-----------------------------------------------------------------------------
(* HandleMsg on p of a request of n: checkAndAddPeers *)

Step(p, n, pc, todo, q) ==
  req' = [req EXCEPT ![p][n] = [pc |-> pc, todo |-> todo, dial |-> q]]

HandleMsg(p, n) ==
  /\ req[p][n].pc = "sent" /\ n \notin pend[p]
  /\ Step(p, n, "next", req[p][n].todo, Hub)
  /\ UNCHANGED <<conn, addrs, pend, worker, stop, stopped, missed>>

\* The next peer of the list is connected, or is dialed.
NextPeer(p, n) ==
  /\ req[p][n].pc = "next"
  /\ \E q \in req[p][n].todo :
       IF Connected(p, q) THEN Step(p, n, "next", req[p][n].todo \ {q}, Hub)
       ELSE Step(p, n, "dial", req[p][n].todo, q)
  /\ UNCHANGED <<conn, addrs, pend, worker, stop, stopped, missed>>

\* Connect makes the connection, or finds one that was made since.
Dial(p, n) ==
  LET q == req[p][n].dial IN
  /\ req[p][n].pc = "dial"
  /\ IF Connected(p, q) THEN UNCHANGED <<conn, pend, addrs>> ELSE NewConn(p, q)
  /\ Step(p, n, "wait", req[p][n].todo, q)
  /\ UNCHANGED <<worker, stop, stopped, missed>>

DialFails(p, n) ==
  LET q == req[p][n].dial IN
  /\ req[p][n].pc = "dial"
  /\ Step(p, n, "next", req[p][n].todo \ {q}, Hub)
  /\ missed' = missed \cup {Pair(p, q)}
  /\ UNCHANGED <<conn, addrs, pend, worker, stop, stopped>>

\* Connect returns once the node's own ConnectedF has; AddAddrs follows.
ConnectReturns(p, n) ==
  LET q == req[p][n].dial IN
  /\ req[p][n].pc = "wait" /\ q \notin pend[p]
  /\ addrs' = [addrs EXCEPT ![p] = @ \cup {q}]
  /\ Step(p, n, "next", req[p][n].todo \ {q}, Hub)
  /\ UNCHANGED <<conn, pend, worker, stop, stopped, missed>>

Respond(p, n) ==
  /\ req[p][n].pc = "next" /\ req[p][n].todo = {}
  /\ Step(p, n, "no", {}, Hub)
  /\ UNCHANGED <<conn, addrs, pend, worker, stop, stopped, missed>>

-----------------------------------------------------------------------------

Worker(n) == Answered(n) \/ WorkerEnds(n) \/ \E p \in Node : Take(n, p)
Handler(p, n) ==
  HandleMsg(p, n) \/ NextPeer(p, n) \/ Dial(p, n) \/ ConnectReturns(p, n)
  \/ Respond(p, n)

Next ==
  \/ \E n \in Node : Join(n) \/ Worker(n) \/ Timeout(n) \/ Stop(n)
  \/ \E p, n \in Node : Identify(n, p) \/ Handler(p, n) \/ DialFails(p, n)

Spec == Init /\ [][Next]_vars

\* Goroutines run, dials return, deadlines pass; nodes need not join.
FairSpec ==
  /\ Spec /\ \A n \in Node : WF_vars(Worker(n)) /\ WF_vars(Timeout(n))
  /\ \A p \in Node : \A n \in Node \ {p} : WF_vars(Handler(p, n))

-----------------------------------------------------------------------------
(* Properties *)

\* Every callback that waits on the channel gets through, unless the worker was
\* told to stop.  Workers wait for handlers, handlers for their node's
\* callbacks and callbacks for workers, also around a circle of nodes: the
\* deadline of SendMsg is what opens it.  And every request that a handler has
\* begun ends, unless its node stops.
NobodyBlocked ==
  /\ []<>(\A n \in Node : pend[n] = {} \/ n \in stop)
  /\ []<>(\A p, n \in Node : req[p][n].pc \notin {"next", "dial", "wait"} \/ p \in stop)

\* Two nodes that have joined are connected in the end, unless an address, a
\* dial or a request between them was missed or one of the three nodes stops.
Discovery ==
  []<>(\A a, b \in Node \ {Hub} :
         a # b /\ Connected(a, Hub) /\ Connected(b, Hub)
           => \/ Connected(a, b) \/ Pair(a, b) \in missed
              \/ {a, b, Hub} \cap stop # {})
=============================================================================
