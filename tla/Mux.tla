-------------------------------- MODULE Mux ---------------------------------
(***************************************************************************)
(* The muxed gRPC listener: modules/grpc/mux/mux.go as the node's lifecycle *)
(* uses it (modules/node/grpc/transport.go and grpc.go).                    *)
(*                                                                         *)
(* Actors that interleave: the lifecycle goroutine (Start, later the two    *)
(* calls of Close that rpcSrv.Stop and the OnStop hook make, then           *)
(* tm.Stop), one muxListener.Execute task per listener on the task manager, *)
(* the gRPC server calling Accept, and the clients that connect.            *)
(* Timeouts (the start context, the 3 s of Close) may fire at any point     *)
(* where the code waits on them.                                            *)
(***************************************************************************)
EXTENDS Naturals, Sequences, FiniteSets

CONSTANTS
  N,      \* the number of listeners; Start takes them in order
  Conn,   \* the connections clients make
  Cap     \* the capacity of connChan (50 in New)

Lst == 1..N

ASSUME SizeAssumption == N \in Nat /\ Cap \in Nat /\ Cap > 0

VARIABLES
  start,     \* Start: "listen" and "sched" in its loop, then "ok" or "err"
  cur,       \* the listener Start is at
  socket,    \* each net.Listener: "none", "open", "shut"
  task,      \* each Execute: "none", "pending", "accept", "send", "done"
  hand,      \* the connections each Execute has accepted and not passed on
  connChan,  \* the buffered channel of connections
  wg,        \* the WaitGroup's counter
  status,    \* what Status reports for each listener
  muxDone,   \* muxCtx is cancelled
  tmDone,    \* the task manager is stopped, the tasks' contexts cancelled
  server,    \* Serve: "off", "accept" (in Accept), "stopped" (got io.EOF)
  closing,   \* Close: "idle", "wait" (for the wait group or 3 s)
  closed,    \* what the calls of Close got to: sequence of their outcomes
  arrived,   \* connections the listeners have accepted
  served,    \* connections Accept has returned, in that order
  dropped    \* connections Execute let go when its context was cancelled

vars == <<start, cur, socket, task, hand, connChan, wg, status, muxDone, tmDone,
          server, closing, closed, arrived, served, dropped>>

starting == <<start, cur>>
stopping == <<muxDone, tmDone, closing, closed>>
conns == <<hand, connChan, arrived, served, dropped>>

Status == {"not running", "running", "failed"}

Init ==
  /\ start = "listen" /\ cur = 1
  /\ socket = [l \in Lst |-> "none"]
  /\ task = [l \in Lst |-> "none"]
  /\ hand = [l \in Lst |-> {}]
  /\ connChan = <<>> /\ wg = 0
  /\ status = [l \in Lst |-> "not running"]
  /\ muxDone = FALSE /\ tmDone = FALSE
  /\ server = "off"
  /\ closing = "idle" /\ closed = <<>>
  /\ arrived = {} /\ served = <<>> /\ dropped = {}

-----------------------------------------------------------------------------
(* Start *)

\* The listener opens, the wait group counts it, GoFunc takes the task.
StartListener(l) ==
  /\ start = "listen" /\ cur = l
  /\ socket' = [socket EXCEPT ![l] = "open"]
  /\ wg' = wg + 1
  /\ task' = [task EXCEPT ![l] = "pending"]
  /\ start' = "sched"
  /\ UNCHANGED <<cur, status, server, stopping, conns>>

\* GoFunc refuses the task: Start goes on with the next listener, the wait
\* group keeps counting this one.
StartUnscheduled(l) ==
  /\ start = "listen" /\ cur = l
  /\ socket' = [socket EXCEPT ![l] = "open"]
  /\ wg' = wg + 1
  /\ status' = [status EXCEPT ![l] = "failed"]
  /\ cur' = l + 1
  /\ UNCHANGED <<start, task, server, stopping, conns>>

\* The listener cannot be opened.
StartFails(l) ==
  /\ start = "listen" /\ cur = l
  /\ start' = "err"
  /\ UNCHANGED <<cur, socket, wg, task, status, server, stopping, conns>>

\* <-sched: the task runs (or has run already).
StartScheduled(l) ==
  /\ start = "sched" /\ cur = l /\ task[l] # "pending"
  /\ status' = [status EXCEPT ![l] = "running"]
  /\ start' = "listen" /\ cur' = l + 1
  /\ UNCHANGED <<socket, task, wg, server, stopping, conns>>

\* <-ctx.Done(): the lifecycle's start timeout.
StartTimesOut ==
  /\ start = "sched"
  /\ start' = "err"
  /\ UNCHANGED <<cur, socket, task, wg, status, server, stopping, conns>>

\* The loop ends; the next OnStart hook runs Serve on the mux.
StartDone ==
  /\ start = "listen" /\ cur = N + 1
  /\ start' = "ok" /\ server' = "accept"
  /\ UNCHANGED <<cur, socket, task, wg, status, stopping, conns>>

-----------------------------------------------------------------------------
(* muxListener.Execute, on the task manager *)

\* A worker takes the task.
Schedule(l) ==
  /\ task[l] = "pending" /\ ~tmDone
  /\ task' = [task EXCEPT ![l] = "accept"]
  /\ UNCHANGED <<starting, socket, wg, status, server, stopping, conns>>

AcceptConn(l, c) ==
  /\ task[l] = "accept" /\ socket[l] = "open" /\ c \notin arrived
  /\ task' = [task EXCEPT ![l] = "send"]
  /\ hand' = [hand EXCEPT ![l] = {c}]
  /\ arrived' = arrived \cup {c}
  /\ UNCHANGED <<starting, socket, wg, status, server, stopping, connChan,
                 served, dropped>>

\* Mutation of AcceptFails: wg.Done is missing.
AcceptFailsCounted(l) ==
  /\ task[l] = "accept"
  /\ status' = [status EXCEPT ![l] = "failed"]
  /\ task' = [task EXCEPT ![l] = "done"]
  /\ UNCHANGED <<starting, socket, wg, server, stopping, conns>>

\* listener.Accept fails, by itself or because the listener is shut: reportErr,
\* and the deferred wg.Done.
AcceptFails(l) ==
  /\ task[l] = "accept"
  /\ status' = [status EXCEPT ![l] = "failed"]
  /\ task' = [task EXCEPT ![l] = "done"]
  /\ wg' = wg - 1
  /\ UNCHANGED <<starting, socket, server, stopping, conns>>

\* Mutation of Enqueue: a default case drops the connection when the channel is
\* full.
EnqueueDropping(l) ==
  /\ task[l] = "send"
  /\ \E c \in hand[l] :
       connChan' = IF Len(connChan) < Cap THEN Append(connChan, c) ELSE connChan
  /\ hand' = [hand EXCEPT ![l] = {}]
  /\ task' = [task EXCEPT ![l] = "accept"]
  /\ UNCHANGED <<starting, socket, wg, status, server, stopping, arrived,
                 served, dropped>>

\* m.connChan <- conn
Enqueue(l) ==
  /\ task[l] = "send" /\ Len(connChan) < Cap
  /\ \E c \in hand[l] : connChan' = Append(connChan, c)
  /\ hand' = [hand EXCEPT ![l] = {}]
  /\ task' = [task EXCEPT ![l] = "accept"]
  /\ UNCHANGED <<starting, socket, wg, status, server, stopping, arrived,
                 served, dropped>>

\* <-ctx.Done(), the context of the task: the connection is let go.
Cancelled(l) ==
  /\ task[l] = "send" /\ tmDone
  /\ dropped' = dropped \cup hand[l]
  /\ hand' = [hand EXCEPT ![l] = {}]
  /\ task' = [task EXCEPT ![l] = "done"]
  /\ wg' = wg - 1
  /\ UNCHANGED <<starting, socket, status, server, stopping, connChan, arrived,
                 served>>

-----------------------------------------------------------------------------
(* Accept, called by Serve in a loop until it fails *)

\* Mutation of Accept: the connection taken from the channel is not returned.
AcceptLosing ==
  /\ server = "accept" /\ connChan # <<>>
  /\ connChan' = Tail(connChan)
  /\ UNCHANGED <<starting, socket, task, wg, status, server, stopping, hand,
                 arrived, served, dropped>>

Accept ==
  /\ server = "accept" /\ connChan # <<>>
  /\ served' = Append(served, Head(connChan))
  /\ connChan' = Tail(connChan)
  /\ UNCHANGED <<starting, socket, task, wg, status, server, stopping, hand,
                 arrived, dropped>>

AcceptEOF ==
  /\ server = "accept" /\ muxDone
  /\ server' = "stopped"
  /\ UNCHANGED <<starting, socket, task, wg, status, stopping, conns>>

\* The root context, the parent of muxCtx, is cancelled by a hook of the node:
\* before the calls of Close (in a node with Prometheus), or after a failed
\* Start.
CancelRoot ==
  /\ start \in {"ok", "err"} /\ closing = "idle" /\ ~muxDone
  /\ muxDone' = TRUE
  /\ UNCHANGED <<starting, socket, task, wg, status, tmDone, server, closing,
                 closed, conns>>

-----------------------------------------------------------------------------
(* Close, called by rpcSrv.Stop and then by the OnStop hook; tm.Stop follows *)

\* Mutation of Close: the listeners are not closed.
CloseCancelOnly ==
  /\ start = "ok" /\ closing = "idle" /\ Len(closed) < 2
  /\ closing' = "wait"
  /\ muxDone' = TRUE
  /\ UNCHANGED <<starting, socket, task, wg, status, tmDone, server, closed,
                 conns>>

Close ==
  /\ start = "ok" /\ closing = "idle" /\ Len(closed) < 2
  /\ closing' = "wait"
  /\ muxDone' = TRUE
  /\ socket' = [l \in Lst |-> IF socket[l] = "open" THEN "shut" ELSE socket[l]]
  /\ UNCHANGED <<starting, task, wg, status, tmDone, server, closed, conns>>

\* Mutation of CloseStopped: it does not wait for the tasks.
CloseStoppedAtOnce ==
  /\ closing = "wait"
  /\ closing' = "idle" /\ closed' = Append(closed, "stopped")
  /\ UNCHANGED <<starting, socket, task, wg, status, muxDone, tmDone, server,
                 conns>>

\* <-stopped: wg.Wait has returned.
CloseStopped ==
  /\ closing = "wait" /\ wg = 0
  /\ closing' = "idle" /\ closed' = Append(closed, "stopped")
  /\ UNCHANGED <<starting, socket, task, wg, status, muxDone, tmDone, server,
                 conns>>

CloseTimesOut ==
  /\ closing = "wait"
  /\ closing' = "idle" /\ closed' = Append(closed, "timeout")
  /\ UNCHANGED <<starting, socket, task, wg, status, muxDone, tmDone, server,
                 conns>>

\* The task manager's OnStop: after both calls of Close, or when Start failed
\* (the lifecycle then runs no OnStop of this hook).
StopTasks ==
  /\ start = "err" \/ (Len(closed) = 2 /\ closing = "idle")
  /\ ~tmDone /\ tmDone' = TRUE
  /\ UNCHANGED <<starting, socket, task, wg, status, muxDone, server, closing,
                 closed, conns>>

\* The steps of Start.
StartStep ==
  \/ \E l \in Lst :
       StartListener(l) \/ StartUnscheduled(l) \/ StartFails(l) \/ StartScheduled(l)
  \/ StartTimesOut \/ StartDone

Next ==
  \/ StartStep
  \/ \E l \in Lst :
       \/ Schedule(l) \/ AcceptFails(l) \/ Enqueue(l) \/ Cancelled(l)
       \/ \E c \in Conn : AcceptConn(l, c)
  \/ Accept \/ AcceptEOF \/ CancelRoot
  \/ Close \/ CloseStopped \/ CloseTimesOut \/ StopTasks

Spec == Init /\ [][Next]_vars

\* What the schedulers guarantee: runnable goroutines run, the tasks accepted
\* by the pool get a worker, channel waiters are served in order (strong
\* fairness of Enqueue), select does not ignore a ready case forever, the timer
\* of Close fires, and a shut listener's Accept returns.  Clients, failing
\* listeners and the lifecycle's own calls are not fair.
Fairness ==
  /\ \A l \in Lst :
       /\ WF_vars(Schedule(l))
       /\ SF_vars(Enqueue(l))
       /\ WF_vars(Cancelled(l))
       /\ WF_vars(socket[l] = "shut" /\ AcceptFails(l))
  /\ WF_vars(StartStep)
  /\ WF_vars(Accept) /\ WF_vars(AcceptEOF)
  /\ WF_vars(CloseStopped) /\ WF_vars(CloseTimesOut)

FairSpec == Spec /\ Fairness

-----------------------------------------------------------------------------
(* Properties *)

TypeOK ==
  /\ start \in {"listen", "sched", "ok", "err"} /\ cur \in 1..(N + 1)
  /\ socket \in [Lst -> {"none", "open", "shut"}]
  /\ task \in [Lst -> {"none", "pending", "accept", "send", "done"}]
  /\ hand \in [Lst -> SUBSET Conn]
  /\ connChan \in Seq(Conn) /\ Len(connChan) <= Cap
  /\ wg \in Nat
  /\ status \in [Lst -> Status]
  /\ muxDone \in BOOLEAN /\ tmDone \in BOOLEAN
  /\ server \in {"off", "accept", "stopped"}
  /\ closing \in {"idle", "wait"}
  /\ closed \in Seq({"stopped", "timeout"})
  /\ arrived \in SUBSET Conn /\ served \in Seq(Conn) /\ dropped \in SUBSET Conn

InSeq(c, s) == \E k \in DOMAIN s : s[k] = c
Injective(s) == \A j, k \in DOMAIN s : s[j] = s[k] => j = k

\* What the server has got followed by what waits for it.
delivery == served \o connChan

\* A connection that a listener accepted is in exactly one place: with one
\* Execute, in connChan, returned by Accept once, or let go by a cancelled
\* Execute.  None is lost or delivered twice by the hand-over between the tasks
\* and the server, also while the mux starts, closes or times out.
ConnConserved ==
  /\ Injective(delivery)
  /\ \A c \in Conn :
       /\ c \in arrived <=>
            InSeq(c, delivery) \/ c \in dropped \/ \E l \in Lst : c \in hand[l]
       /\ ~(InSeq(c, delivery) /\ c \in dropped)
       /\ \A l \in Lst :
            c \in hand[l] =>
              /\ ~InSeq(c, delivery) /\ c \notin dropped
              /\ \A k \in Lst : c \in hand[k] => k = l

Running(l) == task[l] \in {"pending", "accept", "send"}

\* When Close returns because the wait group is done, no Execute is running and
\* none will start: the counter covers tasks that are still queued.
CloseMeansStopped ==
  (\E k \in DOMAIN closed : closed[k] = "stopped") => \A l \in Lst : ~Running(l)

\* A listener that Status reports as failed has no Execute any more.
FailedIsDead == \A l \in Lst : status[l] = "failed" => ~Running(l)

\* While the node is up, every accepted connection reaches the server, however
\* full connChan is.
ConnServed ==
  \A c \in Conn :
    c \in arrived ~> InSeq(c, served) \/ muxDone \/ start = "err"

\* The wait of Close ends by itself, except for the two ways it runs into its
\* 3 s: a listener whose task GoFunc refused is still counted, or Execute is
\* blocked on a full connChan that nobody reads any more.
CloseDrains ==
  closing = "wait" ~> [](\/ wg = 0
                         \/ \E l \in Lst : socket[l] = "shut" /\ task[l] = "none"
                         \/ Len(connChan) = Cap)

\* Once Close is called or the root context is cancelled, Serve gets io.EOF and
\* ends, whatever is still in connChan; and tm.Stop ends every Execute that Close
\* left, also the blocked ones.
ShutdownEnds ==
  /\ start = "ok" /\ (closing = "wait" \/ muxDone) ~> server = "stopped"
  /\ start = "ok" /\ tmDone ~> \A l \in Lst : ~Running(l)
=============================================================================
