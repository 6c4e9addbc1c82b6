------------------------------ MODULE Bootstrap ------------------------------
(***************************************************************************)
(* The task that keeps a node connected to its bootstrap peers: Bootstrapper *)
(* of modules/node/ipfs/host.go, and the mdns notifee of discovery.go, which *)
(* connects to peers of the local network on its own.                       *)
(*                                                                         *)
(* Connect is given the context of Start, which the caller may end as soon  *)
(* as Start has returned.  Peers come and go, and connections break, at any *)
(* time; the ticker holds one tick for a task that is late.  The pool may   *)
(* be full: then the task is queued, and Start waits.                       *)
(***************************************************************************)
EXTENDS Naturals, Sequences

CONSTANT Peers  \* sequence of bootstrap peers

Peer == {Peers[i] : i \in DOMAIN Peers}

VARIABLES
  hook,         \* OnStart: "idle", "wait", "ok", "failed"
  ctx,          \* the context of Start: "live", "done"
  task,         \* "none", "queued", "select", "loop", "dial", "ended"
  stop,         \* the task manager has cancelled the task's context
  tick,         \* the ticker's channel has a tick
  i,            \* next peer of the round
  up,           \* peers that can be reached
  conn,         \* peers the node is connected to
  addrs         \* peers whose addresses are in the peerstore

vars == <<hook, ctx, task, stop, tick, i, up, conn, addrs>>
net == <<up, conn, addrs>>

Init ==
  /\ hook = "idle" /\ ctx = "live" /\ task = "none" /\ stop = FALSE /\ tick = FALSE
  /\ i = 1 /\ up \in SUBSET Peer /\ conn = {} /\ addrs = {}

-----------------------------------------------------------------------------
(* OnStart *)

GoFunc ==
  /\ hook = "idle" /\ hook' = "wait" /\ task' = "queued"
  /\ UNCHANGED <<ctx, stop, tick, i, net>>

GoFuncFails ==
  /\ hook = "idle" /\ hook' = "failed"
  /\ UNCHANGED <<ctx, task, stop, tick, i, net>>

Scheduled ==
  /\ hook = "wait" /\ task \notin {"none", "queued"} /\ hook' = "ok"
  /\ UNCHANGED <<ctx, task, stop, tick, i, net>>

StartCtxDone ==
  /\ hook = "wait" /\ ctx = "done" /\ hook' = "failed"
  /\ UNCHANGED <<ctx, task, stop, tick, i, net>>

-----------------------------------------------------------------------------
(* The task *)

\* Mutation of Done: the task looks at the wrong one of the two contexts.
DoneStartCtx ==
  /\ task = "select" /\ ctx = "done" /\ task' = "ended"
  /\ UNCHANGED <<hook, ctx, stop, tick, i, net>>

Done ==
  /\ task = "select" /\ stop /\ task' = "ended"
  /\ UNCHANGED <<hook, ctx, stop, tick, i, net>>

Tick ==
  /\ task = "select" /\ tick
  /\ task' = "loop" /\ tick' = FALSE /\ i' = 1
  /\ UNCHANGED <<hook, ctx, stop, net>>

\* The next peer; its addresses are stored before each attempt.
NextPeer ==
  /\ task = "loop"
  /\ IF i > Len(Peers) THEN task' = "select" /\ UNCHANGED <<i, addrs>>
     ELSE IF Peers[i] \in conn THEN i' = i + 1 /\ UNCHANGED <<task, addrs>>
     ELSE task' = "dial" /\ addrs' = addrs \cup {Peers[i]} /\ UNCHANGED i
  /\ UNCHANGED <<hook, ctx, stop, tick, up, conn>>

Connect ==
  /\ task = "dial" /\ Peers[i] \in up /\ ctx = "live"
  /\ conn' = conn \cup {Peers[i]} /\ task' = "loop" /\ i' = i + 1
  /\ UNCHANGED <<hook, ctx, stop, tick, up, addrs>>

\* Mutation of ConnectFails: the round ends with the first peer that fails.
ConnectFailsOut ==
  /\ task = "dial" /\ (Peers[i] \notin up \/ ctx = "done")
  /\ task' = "select" /\ UNCHANGED i
  /\ UNCHANGED <<hook, ctx, stop, tick, net>>

\* A warning is logged, and the next peer is tried.
ConnectFails ==
  /\ task = "dial" /\ (Peers[i] \notin up \/ ctx = "done")
  /\ task' = "loop" /\ i' = i + 1
  /\ UNCHANGED <<hook, ctx, stop, tick, net>>

-----------------------------------------------------------------------------
(* Environment *)

\* The pool has a worker.
Run ==
  /\ task = "queued" /\ task' = "select"
  /\ UNCHANGED <<hook, ctx, stop, tick, i, net>>

Ticker ==
  /\ task \notin {"none", "queued", "ended"} /\ ~tick /\ tick' = TRUE
  /\ UNCHANGED <<hook, ctx, task, stop, i, net>>

\* The caller ends the context, of a Start that hangs or after it has returned.
EndCtx ==
  /\ ctx = "live" /\ hook # "idle" /\ ctx' = "done"
  /\ UNCHANGED <<hook, task, stop, tick, i, net>>

\* The application stops, or a failed Start rolls back, which it need not do once
\* its context has ended: the task manager stops.
Stop ==
  /\ hook \in {"ok", "failed"} /\ ~stop /\ stop' = TRUE
  /\ UNCHANGED <<hook, ctx, task, tick, i, net>>

\* A stopped task manager drops what is queued.
Drop ==
  /\ task = "queued" /\ stop /\ task' = "ended"
  /\ UNCHANGED <<hook, ctx, stop, tick, i, net>>

PeerComes(p) ==
  /\ p \notin up /\ up' = up \cup {p}
  /\ UNCHANGED <<hook, ctx, task, stop, tick, i, conn, addrs>>

PeerGoes(p) ==
  /\ p \in up /\ up' = up \ {p} /\ conn' = conn \ {p}
  /\ UNCHANGED <<hook, ctx, task, stop, tick, i, addrs>>

Disconnect(p) ==
  /\ p \in conn /\ conn' = conn \ {p}
  /\ UNCHANGED <<hook, ctx, task, stop, tick, i, up, addrs>>

\* mdns finds a peer, with a context that does not end.
HandlePeerFound(p) ==
  /\ addrs' = addrs \cup {p}
  /\ conn' = IF p \in up THEN conn \cup {p} ELSE conn
  /\ UNCHANGED <<hook, ctx, task, stop, tick, i, up>>

-----------------------------------------------------------------------------

OnStart == GoFunc \/ GoFuncFails \/ Scheduled \/ StartCtxDone
Bootstrapper == Done \/ Tick \/ NextPeer \/ Connect \/ ConnectFails
Next ==
  \/ OnStart \/ Bootstrapper
  \/ Run \/ Ticker \/ EndCtx \/ Stop \/ Drop
  \/ \E p \in Peer : \/ PeerComes(p) \/ PeerGoes(p) \/ Disconnect(p)
                     \/ HandlePeerFound(p)

Spec == Init /\ [][Next]_vars

\* The hook and the task run, a dial returns, the ticker ticks, a stopped task
\* manager drops or runs what is queued, and select does not overlook a context
\* that is done for ever.  A worker may never come.
FairSpec ==
  /\ Spec
  /\ WF_vars(GoFunc \/ GoFuncFails) /\ WF_vars(Scheduled \/ StartCtxDone)
  /\ WF_vars(Bootstrapper) /\ SF_vars(Done) /\ WF_vars(Ticker) /\ WF_vars(Drop)

-----------------------------------------------------------------------------
(* Properties *)

\* While the context of Start lives and the node runs, a bootstrap peer that can
\* be reached is connected again and again, however often the connection breaks
\* and whatever the peers before it in the list do.
Reconnects ==
  [](ctx = "live" /\ ~stop) /\ <>(hook = "ok") =>
    \A p \in Peer : <>[](p \in up) => []<>(p \in conn)

\* The task ends after the task manager was stopped, also if Start failed while
\* the task was queued and it ran later; and the hook does not hang on a full pool
\* once the caller has given up.
HookAndTaskEnd ==
  /\ stop ~> task \in {"none", "ended"}
  /\ ctx = "done" ~> hook \in {"ok", "failed"}
=============================================================================
