------------------------------- MODULE Servers ------------------------------
(* The servers of a node and the status document: the OnStart and OnStop      *)
(* hooks of the gRPC server (modules/node/grpc/grpc.go) and of the HTTP server *)
(* (modules/node/http/http.go), the goroutine each OnStart leaves behind, and  *)
(* the status manager (modules/diag/status/status.go), whose /status handler   *)
(* runs on the HTTP server while the hooks start and stop it.  Serve, Stop,    *)
(* ListenAndServe, Shutdown and the lifecycle are libraries.                   *)
(*                                                                           *)
(* Start and Stop are given a context by their caller, which may end at any    *)
(* time or, like context.Background(), never.  Once it has ended, the          *)
(* lifecycle may run no further hook, and rolls a failed Start back with the   *)
(* same context.                                                             *)
EXTENDS Integers, Sequences

Server == {"grpc", "http"}

VARIABLES
  order,     \* the servers in the order of their hooks
  life,      \* the lifecycle: "start", "up", "stop", "down"
  ctx,       \* the context of the Start or Stop in progress: "live", "done"
  pos,       \* the hook it runs
  hook,      \* where that hook is: "enter", "wait"
  failed,    \* the servers whose OnStart returned an error
  left,      \* the servers whose OnStop was left out
  thread,    \* the goroutine of each server
  quit,      \* Stop or Shutdown was called
  mp,        \* the keys of the status manager's map
  statusReq  \* the /status request in progress

lifecycle == <<order, life, ctx, pos, hook, failed, left>>
serversVars == <<order, life, ctx, pos, hook, failed, left, thread, quit, mp, statusReq>>

NoStatusRequest == [phase |-> "none", ret |-> <<>>, had |-> {}, over |-> {}]

Ended == {s \in Server : thread[s] = "ended"}

\* The gRPC server is built for its metrics before the HTTP server (UsePrometheus)
\* or only when the node's dependencies are filled in, after it.
ServersInit ==
  /\ order \in {<<"grpc", "http">>, <<"http", "grpc">>}
  /\ life = "start" /\ ctx = "live" /\ pos = 1 /\ hook = "enter"
  /\ failed = {} /\ left = {}
  /\ thread = [s \in Server |-> "none"]
  /\ quit = [s \in Server |-> FALSE]
  /\ mp = {}
  /\ statusReq = NoStatusRequest

-----------------------------------------------------------------------------
(* OnStart *)

\* The channels are made and the goroutine is launched.
StartGo(s) ==
  /\ life = "start" /\ hook = "enter" /\ order[pos] = s
  /\ thread' = [thread EXCEPT ![s] = "launched"]
  /\ hook' = "wait"
  /\ UNCHANGED <<order, life, ctx, pos, failed, left, quit, mp, statusReq>>

\* <-started: the reporter is added and the next hook starts.
StartReturns(s) ==
  /\ life = "start" /\ hook = "wait" /\ order[pos] = s
  /\ thread[s] \notin {"none", "launched"}
  /\ mp' = mp \cup {s}
  /\ hook' = "enter" /\ pos' = pos + 1
  /\ life' = IF pos = Len(order) THEN "up" ELSE "start"
  /\ UNCHANGED <<order, ctx, failed, left, thread, quit, statusReq>>

\* The lifecycle goes back to the hook before the one it is at.
Back ==
  /\ hook' = "enter" /\ pos' = pos - 1
  /\ life' = IF pos = 1 THEN "down" ELSE "stop"
  /\ UNCHANGED <<order, ctx, left, thread, quit, mp, statusReq>>

\* <-ctx.Done(), possibly chosen although started is closed too.  The OnStop of
\* this server is not run.
StartCtxDone(s) ==
  /\ life = "start" /\ hook = "wait" /\ order[pos] = s /\ ctx = "done"
  /\ failed' = failed \cup {s}
  /\ Back

\* The context ends between two hooks: the next one is not run.
StartLeft ==
  /\ life = "start" /\ hook = "enter" /\ ctx = "done"
  /\ Back /\ UNCHANGED failed

-----------------------------------------------------------------------------
(* The goroutine of a server *)

\* close(started)
CloseStarted(s) ==
  /\ thread[s] = "launched"
  /\ thread' = [thread EXCEPT ![s] = "begun"]
  /\ UNCHANGED <<lifecycle, quit, mp, statusReq>>

\* Serve, ListenAndServe: a server that was stopped before returns at once.
Serve(s) ==
  /\ thread[s] = "begun"
  /\ thread' = [thread EXCEPT ![s] = IF quit[s] THEN "served" ELSE "serving"]
  /\ UNCHANGED <<lifecycle, quit, mp, statusReq>>

\* The port is taken, or a listener breaks: the error is only logged.
ServeFails(s) ==
  /\ thread[s] \in {"begun", "serving"}
  /\ thread' = [thread EXCEPT ![s] = "served"]
  /\ UNCHANGED <<lifecycle, quit, mp, statusReq>>

ServeReturns(s) ==
  /\ thread[s] = "serving" /\ quit[s]
  /\ thread' = [thread EXCEPT ![s] = "served"]
  /\ UNCHANGED <<lifecycle, quit, mp, statusReq>>

\* defer close(stopped)
CloseStopped(s) ==
  /\ thread[s] = "served"
  /\ thread' = [thread EXCEPT ![s] = "ended"]
  /\ UNCHANGED <<lifecycle, quit, mp, statusReq>>

-----------------------------------------------------------------------------
(* OnStop *)

\* The application is stopped: the hooks run in reverse.
StopApp ==
  /\ life = "up"
  /\ life' = "stop" /\ ctx' = "live" /\ pos' = Len(order) /\ hook' = "enter"
  /\ UNCHANGED <<order, failed, left, thread, quit, mp, statusReq>>

\* Mutation of StopServer: only a server that is already serving is told.
StopServerServing(s) ==
  /\ life = "stop" /\ hook = "enter" /\ order[pos] = s
  /\ quit' = [quit EXCEPT ![s] = thread[s] = "serving"]
  /\ hook' = "wait"
  /\ UNCHANGED <<order, life, ctx, pos, failed, left, thread, mp, statusReq>>

\* rpcSrv.Stop, httpServer.Shutdown
StopServer(s) ==
  /\ life = "stop" /\ hook = "enter" /\ order[pos] = s
  /\ quit' = [quit EXCEPT ![s] = TRUE]
  /\ hook' = "wait"
  /\ UNCHANGED <<order, life, ctx, pos, failed, left, thread, mp, statusReq>>

\* The hook of s is over, with or without an error: the lifecycle goes on.
HookOver(s) ==
  /\ life = "stop" /\ hook = "wait" /\ order[pos] = s
  /\ Back /\ UNCHANGED failed

\* Stop waits for Serve to return, Shutdown for the requests in progress.
StopReturns(s) ==
  /\ HookOver(s)
  /\ IF s = "http" THEN statusReq.phase = "none" ELSE thread[s] # "serving"

\* Shutdown returns the error of its context, with a request still in progress.
StopTimesOut(s) == s = "http" /\ ctx = "done" /\ HookOver(s)

\* The context has ended: the hooks that are left are not run.
StopLeft ==
  /\ life = "stop" /\ hook = "enter" /\ ctx = "done"
  /\ life' = "down" /\ left' = {order[i] : i \in 1..pos}
  /\ UNCHANGED <<order, ctx, pos, hook, failed, thread, quit, mp, statusReq>>

CtxEnds ==
  /\ life \in {"start", "stop"} /\ ctx = "live" /\ ctx' = "done"
  /\ UNCHANGED <<order, life, pos, hook, failed, left, thread, quit, mp, statusReq>>

-----------------------------------------------------------------------------
(* The /status handler *)

\* A request reaches the HTTP server.
StatusRequest ==
  /\ thread["http"] = "serving" /\ statusReq.phase = "none"
  /\ statusReq' = [phase |-> "range", ret |-> <<>>, had |-> mp, over |-> Ended]
  /\ UNCHANGED <<lifecycle, thread, quit, mp>>

\* Mutation of Visit: the reporter says "stopped" as soon as the server is told.
VisitQuit(s) ==
  /\ statusReq.phase = "range" /\ s \in mp \ DOMAIN statusReq.ret
  /\ statusReq' = [statusReq EXCEPT !.ret = [k \in DOMAIN statusReq.ret \cup {s} |->
              IF k # s THEN statusReq.ret[k] ELSE IF quit[s] THEN "stopped" ELSE "running"]]
  /\ UNCHANGED <<lifecycle, thread, quit, mp>>

\* Range calls the reporter of one key; Status asks whether stopped is closed.
Visit(s) ==
  /\ statusReq.phase = "range" /\ s \in mp \ DOMAIN statusReq.ret
  /\ statusReq' = [statusReq EXCEPT !.ret = [k \in DOMAIN statusReq.ret \cup {s} |->
              IF k # s THEN statusReq.ret[k]
              ELSE IF thread[s] = "ended" THEN "stopped" ELSE "running"]]
  /\ UNCHANGED <<lifecycle, thread, quit, mp>>

\* Range ends: it has met every key of its start, not all of the later ones.
RangeEnds ==
  /\ statusReq.phase = "range" /\ statusReq.had \subseteq DOMAIN statusReq.ret
  /\ statusReq' = [statusReq EXCEPT !.phase = "write"]
  /\ UNCHANGED <<lifecycle, thread, quit, mp>>

\* w.Write: the document is with the client.
Write ==
  /\ statusReq.phase = "write"
  /\ statusReq' = NoStatusRequest
  /\ UNCHANGED <<lifecycle, thread, quit, mp>>

HookStep ==
  \/ \E s \in Server :
       StartGo(s) \/ StartReturns(s) \/ StopServer(s) \/ StopReturns(s) \/ StopTimesOut(s)
  \/ StartLeft \/ StopLeft

Handler == (\E s \in Server : Visit(s)) \/ RangeEnds

ServersNext ==
  \/ HookStep \/ StopApp \/ CtxEnds
  \/ \E s \in Server :
       \/ StartCtxDone(s) \/ CloseStarted(s) \/ Serve(s) \/ ServeFails(s) \/ ServeReturns(s)
       \/ CloseStopped(s)
  \/ Handler \/ StatusRequest \/ Write

\* Runnable goroutines run, a stopped server's Serve returns, and Shutdown returns
\* when its context has ended.  The end of a context, clients, who may never read
\* their answer, and the callers of Stop are not fair.
Fairness ==
  /\ WF_serversVars(HookStep) /\ WF_serversVars(Handler)
  /\ \A s \in Server :
       /\ WF_serversVars(CloseStarted(s)) /\ WF_serversVars(Serve(s))
       /\ WF_serversVars(ServeReturns(s)) /\ WF_serversVars(CloseStopped(s))

ServersSpec == ServersInit /\ [][ServersNext]_serversVars /\ Fairness

-----------------------------------------------------------------------------
(* Properties *)

\* The status document is no snapshot, the reporters are asked one by one while
\* the servers start and end; still every entry holds somewhere between the
\* request and its answer: "stopped" only for a server that is over, "running"
\* only for one that was not over when the request came, and every server whose
\* OnStart had returned by then is listed.
StatusExact ==
  statusReq.phase = "write" =>
    /\ statusReq.had \subseteq DOMAIN statusReq.ret
    /\ \A s \in DOMAIN statusReq.ret :
         IF statusReq.ret[s] = "stopped" THEN s \in Ended ELSE s \notin statusReq.over

\* Shutdown waits for a client that does not read its answer.
HeldByClient ==
  hook = "wait" /\ order[pos] = "http" /\ statusReq.phase = "write" /\ ctx = "live"

\* Stop, and the rollback of a failed Start, come to their end, also in the midst
\* of requests; only a client that never reads its answer can hold Stop back, and
\* only as long as the context lives that Stop was given.  After it every goroutine
\* ends, also one that had not reached Serve when its server was stopped; except
\* that of an OnStart that gave up with its context, and of a server whose OnStop
\* was left out because the context had ended.
ServersEnd ==
  /\ life = "stop" ~> life = "down" \/ HeldByClient
  /\ life = "down" ~>
       \A s \in Server \ (failed \cup left) : thread[s] \in {"none", "ended"}
=============================================================================
