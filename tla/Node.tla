-------------------------------- MODULE Node --------------------------------
(***************************************************************************)
(* Assembly and lifecycle of a node: node.New builds an fx application from *)
(* the options, Start runs the OnStart hooks in the order in which the      *)
(* constructors appended them, Stop (or a failed Start) runs the OnStop     *)
(* hooks backwards.  Once the context that the caller has given to Start or *)
(* Stop has ended, fx may leave out the hooks that are left; a failed Start *)
(* is rolled back with the context it was given.                            *)
(*                                                                         *)
(* Each constructor of the code is a record that states its parameters (in  *)
(* order), what it provides and the hook it appends.  Which constructors    *)
(* and invocations a node has depends on the configuration keys; the order  *)
(* of the hooks follows from fx building the parameters depth first, when   *)
(* an invocation needs them.                                                *)
(***************************************************************************)
EXTENDS Naturals, Sequences, Functions

CONSTANT OptionSets   \* the combinations of options to build a node from

VARIABLES
  opts,        \* the options of the node
  phase,       \* "new", "failed", "built", "starting", "running",
               \* "stopping", "stopped", "rollback", "startfailed"
  invoked,     \* number of invocations done
  stack,       \* the constructors being built, the last one first
  built,       \* names of the constructors that have run
  hooks,       \* the appended hooks, by the name of their constructor
  numStarted,  \* fx: hooks before this index are started and not stopped
  stopped,     \* names of the constructors whose OnStop has run
  dp,          \* what fx.Populate has put into deps
  done         \* the context of Start or Stop has ended

vars == <<opts, phase, invoked, stack, built, hooks, numStarted, stopped, dp, done>>

-----------------------------------------------------------------------------
(* Options and the keys they set *)

Transport == {"tcp", "p2pgrpc", "uds"}

WithGRPC(o) ==
  IF o \cap Transport = {} THEN {}
  ELSE {"UseGRPC"} \cup (IF "tcp" \in o THEN {"UseTCP"} ELSE {})
         \cup (IF "p2pgrpc" \in o THEN {"UseP2PGRPC"} ELSE {})
         \cup (IF "uds" \in o THEN {"UseUDS"} ELSE {})

\* The other options set one key each that New looks at.
KeyOf == [p2p |-> "UseP2P", http |-> "UseHTTP", auth |-> "UseAuth",
          locker |-> "UseLocker", files |-> "UseFiles", prom |-> "UsePrometheus",
          tracing |-> "UseTracing", static |-> "UseStaticDiscovery",
          bootstrap |-> "BootstrapAddresses"]

ASSUME NodeAssumption == OptionSets \subseteq SUBSET (Transport \cup DOMAIN KeyOf)

Keys(o) == WithGRPC(o) \cup {KeyOf[x] : x \in o \ Transport}

-----------------------------------------------------------------------------
(* Constructors *)

\* hook: "none", "stop" (only OnStop), "start" (only OnStart), "both".
Ctor(name, needs, gives, hook) ==
  [name |-> name, needs |-> needs, optional |-> {}, gives |-> gives, hook |-> hook]

Context == Ctor("context", <<>>, {"ctx", "cancel"}, "none")

\* Mutation of Repo: no hook closes it.
RepoNoHook == Ctor("repo", <<>>, {"repo", "config", "ds"}, "none")

Repo == Ctor("repo", <<>>, {"repo", "config", "ds"}, "stop")
NewTaskManager == Ctor("NewTaskManager", <<"config">>, {"tm"}, "stop")
NewStatus == Ctor("status.New", <<>>, {"status"}, "none")
NewRegistry == Ctor("metrics.New", <<>>, {"registry"}, "none")
NewTracer == Ctor("NewTracer", <<"config">>, {"tracer"}, "stop")
NewLocker == Ctor("NewLocker", <<"config">>, {"locker"}, "stop")

NewJWTManager == Ctor("NewJWTManager", <<"config">>, {"jwt"}, "none")
NewAclManager ==
  [Ctor("NewAclManager", <<"repo", "sharedStore">>, {"acl"}, "none")
     EXCEPT !.optional = {"sharedStore"}]

Identity == Ctor("Identity", <<"config">>, {"privKey"}, "none")
Libp2p == Ctor("Libp2p", <<"ctx", "config", "privKey">>, {"mainHost", "routing"}, "stop")
LocalDialer == Ctor("LocalDialer", <<>>, {"localDialer"}, "stop")
NewNode == Ctor("NewNode", <<"ctx", "mainHost", "routing", "ds">>, {"peer"}, "none")
Pubsub == Ctor("Pubsub", <<"ctx", "mainHost">>, {"pubsub"}, "none")
NewSvcDiscovery == Ctor("NewSvcDiscovery", <<"routing">>, {"discovery"}, "none")
NewMDNSDiscovery == Ctor("NewMDNSDiscovery", <<"ctx", "mainHost">>, {}, "none")
NewP2PReporter == Ctor("NewP2PReporter", <<"mainHost", "status">>, {}, "none")
Bootstrapper(k) ==
  Ctor("Bootstrapper", <<"config", "tm", "mainHost">>, {},
       IF "BootstrapAddresses" \in k THEN "start" ELSE "none")

\* Mutation of NewMuxedListener: it does not run on the task manager.
NewMuxedListenerNoTm ==
  Ctor("NewMuxedListener", <<"ctx", "listener", "status">>, {"mux"}, "both")

NewMuxedListener ==
  [Ctor("NewMuxedListener", <<"ctx", "listener", "status", "tm">>, {"mux"}, "both")
     EXCEPT !.optional = {"status"}]
NewTCPListener == Ctor("NewTCPListener", <<"config">>, {"listener"}, "none")
NewP2PListener == Ctor("NewP2PListener", <<"mainHost">>, {"listener"}, "none")
NewUDSListener == Ctor("NewUDSListener", <<"config">>, {"listener"}, "none")
JwtAuthOptions == Ctor("JwtAuthOptions", <<"jwt", "acl">>, {"unary", "stream"}, "none")
ServerMetrics == Ctor("Metrics", <<>>, {"grpcMetrics"}, "none")
MetricsOpts == Ctor("MetricsOpts", <<"config", "grpcMetrics">>, {"unary", "stream"}, "none")
MetricsRegister ==
  Ctor("MetricsRegister", <<"registry", "server", "grpcMetrics">>, {}, "none")
JaegerTracerOptions == Ctor("JaegerTracerOptions", <<"tracer">>, {"unary"}, "none")
Validator == Ctor("Validator", <<>>, {"unary", "stream"}, "none")
Recovery == Ctor("Recovery", <<>>, {"unary", "stream"}, "none")
NewP2PClientService ==
  Ctor("NewP2PClientService", <<"config", "discovery", "localDialer", "mainHost">>,
       {"p2pClientSvc"}, "none")
NewP2PClientAdvertiser ==
  Ctor("NewP2PClientAdvertiser", <<"config", "discovery", "tm">>, {}, "none")
NewStaticClientService ==
  Ctor("NewStaticClientService", <<"config">>, {"staticClientSvc"}, "none")
OptsAggregator == Ctor("OptsAggregator", <<"unary", "stream">>, {"serverOpts"}, "none")
NewServer == Ctor("grpc.New", <<"serverOpts", "mux", "status">>, {"server"}, "both")

NewHTTPServerMux == Ctor("NewHTTPServerMux", <<>>, {"httpMux"}, "none")
NewGRPCGateway == Ctor("NewGRPCGateway", <<>>, {"gateway"}, "none")
HTTPRecovery == Ctor("http.Recovery", <<>>, {"httpmiddleware"}, "none")
Logging == Ctor("Logging", <<>>, {"httpmiddleware"}, "none")
JWT == Ctor("JWT", <<"jwt", "acl">>, {"httpmiddleware"}, "none")
Tracing == Ctor("Tracing", <<"tracer">>, {"httpmiddleware"}, "none")
PromMware == Ctor("PromMware", <<>>, {"httpmiddleware"}, "none")
Register == Ctor("Register", <<"httpMux", "registry">>, {}, "none")

NewHTTPServer ==
  Ctor("NewHTTPServer", <<"config", "httpMux", "gateway", "httpmiddleware", "status">>,
       {}, "both")

NewEventsSvc == Ctor("NewEventsSvc", <<"pubsub", "tm">>, {"events"}, "none")
NewProtocols == Ctor("protocols.New", <<"mainHost">>, {"protocols"}, "none")
NewMesher == Ctor("mesher.New", <<"protocols", "mainHost", "tm">>, {}, "none")
NewSharedStoreProvider ==
  Ctor("NewSharedStoreProvider", <<"config", "ds", "mainHost", "routing", "pubsub">>,
       {"sharedStore"}, "none")
RegisterHTTP == Ctor("RegisterHTTP", <<"status", "httpMux">>, {}, "none")
Cancel == Ctor("cancel", <<"cancel">>, {}, "stop")
Reporters == Ctor("reporters", <<"config", "tm", "status">>, {}, "none")

deps == <<"ctx", "cancel", "repo", "acl", "tm", "locker", "server", "httpMux", "gateway",
          "mainHost", "routing", "peer", "pubsub", "discovery", "jwt", "events",
          "protocols", "p2pClientSvc", "staticClientSvc", "sharedStore", "tracer",
          "registry">>
Populate ==
  [Ctor("Populate", deps, {}, "none")
     EXCEPT !.optional = Range(deps) \ {"ctx", "cancel", "repo"}]

-----------------------------------------------------------------------------
(* The fx modules: what is provided and what is invoked for the keys k *)

Maybe(set, enable) == IF enable THEN set ELSE {}
MaybeInvoke(s, enable) == IF enable THEN s ELSE <<>>

P2PModule == {Identity, Libp2p, LocalDialer, Pubsub, NewSvcDiscovery}
P2PInvokes(k) == <<NewMDNSDiscovery, NewP2PReporter, Bootstrapper(k)>>

GRPCTransport(k) ==
  {NewMuxedListener}
    \cup Maybe({NewTCPListener}, "UseTCP" \in k)
    \cup Maybe({NewP2PListener}, {"UseP2P", "UseP2PGRPC"} \subseteq k)
    \cup Maybe({NewUDSListener}, "UseUDS" \in k)

Middleware(k) ==
  {Validator, Recovery}
    \cup Maybe({JwtAuthOptions}, "UseAuth" \in k)
    \cup Maybe({ServerMetrics, MetricsOpts}, "UsePrometheus" \in k)
    \cup Maybe({JaegerTracerOptions}, "UseTracing" \in k)

Client(k) ==
  Maybe({NewP2PClientService}, "UseP2P" \in k)
    \cup Maybe({NewStaticClientService}, "UseStaticDiscovery" \in k)

GRPCModule(k) ==
  GRPCTransport(k) \cup Middleware(k) \cup Client(k) \cup {OptsAggregator, NewServer}

\* Mutation of GRPCInvokes: the advertiser is not guarded by UseP2P.
GRPCInvokesUnguarded(k) ==
  MaybeInvoke(<<MetricsRegister>>, "UsePrometheus" \in k)
    \o MaybeInvoke(<<NewP2PClientAdvertiser>>, "UseP2PGRPC" \in k)

GRPCInvokes(k) ==
  MaybeInvoke(<<MetricsRegister>>, "UsePrometheus" \in k)
    \o MaybeInvoke(<<NewP2PClientAdvertiser>>, {"UseP2P", "UseP2PGRPC"} \subseteq k)

HTTPModule(k) ==
  {NewHTTPServerMux, NewGRPCGateway, HTTPRecovery, Logging}
    \cup Maybe({JWT}, "UseAuth" \in k)
    \cup Maybe({Tracing}, "UseTracing" \in k)
    \cup Maybe({PromMware}, "UsePrometheus" \in k)

HTTPInvokes(k) ==
  <<NewHTTPServer>> \o MaybeInvoke(<<Register>>, "UsePrometheus" \in k)

\* Mutation of Provided: the shared storage is provided with the files only.
ProvidedFilesOnly(k) ==
  {Context, Repo, NewTaskManager, NewStatus}
    \cup Maybe({NewRegistry}, "UsePrometheus" \in k)
    \cup Maybe({NewTracer}, "UseTracing" \in k)
    \cup Maybe({NewLocker}, "UseLocker" \in k)
    \cup Maybe({NewJWTManager, NewAclManager}, "UseAuth" \in k)
    \cup Maybe(P2PModule \cup {NewEventsSvc, NewProtocols}, "UseP2P" \in k)
    \cup Maybe({NewNode, NewSharedStoreProvider}, {"UseP2P", "UseFiles"} \subseteq k)
    \cup Maybe(GRPCModule(k), "UseGRPC" \in k)
    \cup Maybe(HTTPModule(k), "UseHTTP" \in k)

Provided(k) ==
  {Context, Repo, NewTaskManager, NewStatus}
    \cup Maybe({NewRegistry}, "UsePrometheus" \in k)
    \cup Maybe({NewTracer}, "UseTracing" \in k)
    \cup Maybe({NewLocker}, "UseLocker" \in k)
    \cup Maybe({NewJWTManager, NewAclManager}, "UseAuth" \in k)
    \cup Maybe(P2PModule \cup {NewEventsSvc, NewProtocols, NewSharedStoreProvider},
               "UseP2P" \in k)
    \cup Maybe({NewNode}, {"UseP2P", "UseFiles"} \subseteq k)
    \cup Maybe(GRPCModule(k), "UseGRPC" \in k)
    \cup Maybe(HTTPModule(k), "UseHTTP" \in k)

ModuleInvokes(k) ==
  MaybeInvoke(P2PInvokes(k), "UseP2P" \in k)
    \o MaybeInvoke(GRPCInvokes(k), "UseGRPC" \in k)
    \o MaybeInvoke(HTTPInvokes(k), "UseHTTP" \in k)
    \o MaybeInvoke(<<NewMesher>>, "UseP2P" \in k)
    \o MaybeInvoke(<<RegisterHTTP>>, "UseHTTP" \in k)

Invokes(k) == ModuleInvokes(k) \o <<Cancel, Reporters, Populate>>

-----------------------------------------------------------------------------
(* fx.New (external): building on demand *)

\* Value groups take every provider, also none.
Groups == {"listener", "unary", "stream", "httpmiddleware"}

\* Constructors that can return an error of their own.
Fallible == {"NewTaskManager", "NewTracer", "NewLocker", "NewJWTManager",
             "NewAclManager", "Identity", "Libp2p", "LocalDialer", "NewNode", "Pubsub",
             "NewMDNSDiscovery", "Bootstrapper", "NewTCPListener", "NewUDSListener",
             "NewP2PClientAdvertiser", "NewHTTPServer", "NewEventsSvc", "mesher.New",
             "NewSharedStoreProvider"}

Providers(t) == {c \in Provided(Keys(opts)) : t \in c.gives}

\* A required parameter has no provider.
Missing(c) ==
  \E t \in Range(c.needs) : t \notin c.optional \cup Groups /\ Providers(t) = {}

\* Two providers of one type: fx refuses the second.
Ambiguous ==
  \E c \in Provided(Keys(opts)) : \E t \in c.gives \ Groups : Providers(t) # {c}

\* An optional parameter counts as resolved when its provider cannot be built.
Resolved(c, t) ==
  \A p \in Providers(t) : p.name \in built \/ (t \in c.optional /\ Missing(p))

Init ==
  /\ opts \in OptionSets
  /\ phase = "new"
  /\ invoked = 0
  /\ stack = <<>>
  /\ built = {}
  /\ hooks = <<>>
  /\ numStarted = 0
  /\ stopped = {}
  /\ dp = {}
  /\ done = FALSE

\* The next invocation.
Invoke ==
  /\ phase = "new" /\ stack = <<>> /\ (invoked = 0 => ~Ambiguous)
  /\ invoked < Len(Invokes(Keys(opts)))
  /\ stack' = <<Invokes(Keys(opts))[invoked + 1]>>
  /\ invoked' = invoked + 1
  /\ UNCHANGED <<opts, phase, built, hooks, numStarted, stopped, dp, done>>

\* The first unresolved parameter of the constructor on top is built; for a
\* group, any of its providers.
Demand ==
  /\ phase = "new" /\ stack # <<>> /\ ~Missing(Head(stack))
  /\ \E i \in DOMAIN Head(stack).needs :
       /\ \A j \in 1..(i - 1) : Resolved(Head(stack), Head(stack).needs[j])
       /\ \E p \in Providers(Head(stack).needs[i]) :
            /\ ~Resolved(Head(stack), Head(stack).needs[i])
            /\ p.name \notin built
            /\ stack' = <<p>> \o stack
  /\ UNCHANGED <<opts, phase, invoked, built, hooks, numStarted, stopped, dp, done>>

\* The parameters are there: the constructor runs and appends its hook.
Construct ==
  /\ phase = "new" /\ stack # <<>> /\ ~Missing(Head(stack))
  /\ \A i \in DOMAIN Head(stack).needs : Resolved(Head(stack), Head(stack).needs[i])
  /\ LET c == Head(stack) IN
       /\ built' = built \cup {c.name}
       /\ hooks' = IF c.hook = "none" THEN hooks ELSE Append(hooks, c)
       /\ dp' = IF c.name = "Populate"
                THEN {t \in Range(deps) : \E p \in Providers(t) : p.name \in built}
                ELSE dp
  /\ stack' = Tail(stack)
  /\ UNCHANGED <<opts, phase, invoked, numStarted, stopped, done>>

\* A constructor returns an error: New ends, with the hooks appended so far.
ConstructFails ==
  /\ phase = "new" /\ stack # <<>> /\ Head(stack).name \in Fallible
  /\ ~Missing(Head(stack))
  /\ \A i \in DOMAIN Head(stack).needs : Resolved(Head(stack), Head(stack).needs[i])
  /\ phase' = "failed"
  /\ UNCHANGED <<opts, invoked, stack, built, hooks, numStarted, stopped, dp, done>>

\* New returns the service.  It returns one also in phase "failed": the error
\* of the application is not looked at.
Built ==
  /\ phase = "new" /\ stack = <<>> /\ invoked = Len(Invokes(Keys(opts)))
  /\ phase' = "built"
  /\ UNCHANGED <<opts, invoked, stack, built, hooks, numStarted, stopped, dp, done>>

-----------------------------------------------------------------------------
(* fx lifecycle (external): Start and Stop.  In phase "failed" Start returns *)
(* the error of the application and Stop finds no started hook.              *)

Start ==
  /\ phase = "built"
  /\ phase' = "starting" /\ done' = FALSE
  /\ UNCHANGED <<opts, invoked, stack, built, hooks, numStarted, stopped, dp>>

StartHook ==
  /\ phase = "starting" /\ numStarted < Len(hooks)
  /\ numStarted' = numStarted + 1
  /\ UNCHANGED <<opts, phase, invoked, stack, built, hooks, stopped, dp, done>>

\* The servers' OnStart fails only with its context, the others also otherwise.
OwnError == {"Bootstrapper", "NewMuxedListener"}

\* An OnStart fails, or is left out because the context has ended.
StartHookFails ==
  /\ phase = "starting" /\ numStarted < Len(hooks)
  /\ \/ done
     \/ /\ hooks[numStarted + 1].hook \in {"start", "both"}
        /\ hooks[numStarted + 1].name \in OwnError
  /\ phase' = "rollback"
  /\ UNCHANGED <<opts, invoked, stack, built, hooks, numStarted, stopped, dp, done>>

Started ==
  /\ phase = "starting" /\ numStarted = Len(hooks)
  /\ phase' = "running"
  /\ UNCHANGED <<opts, invoked, stack, built, hooks, numStarted, stopped, dp, done>>

Stop ==
  /\ phase = "running"
  /\ phase' = "stopping" /\ done' = FALSE
  /\ UNCHANGED <<opts, invoked, stack, built, hooks, numStarted, stopped, dp>>

StopHook ==
  /\ phase \in {"stopping", "rollback"} /\ numStarted > 0
  /\ numStarted' = numStarted - 1
  /\ stopped' = IF hooks[numStarted].hook \in {"stop", "both"}
                THEN stopped \cup {hooks[numStarted].name} ELSE stopped
  /\ UNCHANGED <<opts, phase, invoked, stack, built, hooks, dp, done>>

\* All hooks are stopped, or the context has ended and the rest is left out.
Stopped ==
  /\ phase \in {"stopping", "rollback"} /\ (numStarted = 0 \/ done)
  /\ phase' = IF phase = "stopping" THEN "stopped" ELSE "startfailed"
  /\ UNCHANGED <<opts, invoked, stack, built, hooks, numStarted, stopped, dp, done>>

CtxEnds ==
  /\ phase \in {"starting", "stopping", "rollback"} /\ ~done /\ done' = TRUE
  /\ UNCHANGED <<opts, phase, invoked, stack, built, hooks, numStarted, stopped, dp>>

Next ==
  \/ Invoke \/ Demand \/ Construct \/ ConstructFails \/ Built
  \/ Start \/ StartHook \/ StartHookFails \/ Started
  \/ Stop \/ StopHook \/ Stopped \/ CtxEnds

Spec == Init /\ [][Next]_vars

-----------------------------------------------------------------------------
(* Accessors of the service *)

P2P == {"mainHost", "routing", "discovery", "pubsub"} \subseteq dp
Files == "peer" \in dp
Auth == {"jwt", "acl"} \subseteq dp
GRPC == "server" \in dp
ClientAvailable == "p2pClientSvc" \in dp \/ "staticClientSvc" \in dp
HTTP == "httpMux" \in dp
Locker == "locker" \in dp
Protocols == "protocols" \in dp
Events == "events" \in dp
SharedStorage == "sharedStore" \in dp
TracingAvailable == "tracer" \in dp
Metrics == "registry" \in dp

-----------------------------------------------------------------------------
(* Properties *)

\* The hook of the constructor is started and not stopped.
Live(name) == \E i \in 1..numStarted : hooks[i].name = name

\* Whatever options are combined, no constructor lacks a parameter and no type
\* is provided twice: New fails only when a constructor itself fails.
AssemblyComplete ==
  phase = "new" => (invoked = 0 => ~Ambiguous) /\ (stack # <<>> => ~Missing(Head(stack)))

\* A built service gives access to exactly what its options ask for.
OptionsReachable ==
  phase \notin {"new", "failed"} =>
    /\ {"repo", "tm"} \subseteq dp
    /\ P2P <=> "p2p" \in opts
    /\ Protocols <=> "p2p" \in opts
    /\ Events <=> "p2p" \in opts
    /\ SharedStorage <=> "p2p" \in opts
    /\ Files <=> {"p2p", "files"} \subseteq opts
    /\ Auth <=> "auth" \in opts
    /\ GRPC <=> opts \cap Transport # {}
    /\ ClientAvailable <=> GRPC /\ opts \cap {"p2p", "static"} # {}
    /\ HTTP <=> "http" \in opts
    /\ Locker <=> "locker" \in opts
    /\ TracingAvailable <=> "tracing" \in opts
    /\ Metrics <=> "prom" \in opts

\* A Start that fails in a hook of its own accord, and a Stop, close the repository
\* unless the context they were given ends before: the repository's hook comes
\* before every hook that can fail.  After Stop the task manager and all other
\* constructors with an OnStop are stopped too; if its context has ended, those
\* whose hooks come after the ones that were left out.
RepoReleased ==
  /\ phase \in {"stopped", "startfailed"} /\ ~done => "repo" \in stopped
  /\ phase = "stopped" =>
       \A i \in DOMAIN hooks :
         (~done \/ i > numStarted) /\ hooks[i].hook \in {"stop", "both"}
           => hooks[i].name \in stopped

\* What the muxed listener relies on is stopped after it: the gRPC server stops
\* first, then the mux, then the task manager that runs its tasks and the host
\* under its p2p listener; the repository goes after all of them.  The root context
\* is cancelled under a running gRPC server only in nodes with Prometheus, where
\* MetricsRegister builds the server before the cancel hook is appended.
StopsInLayers ==
  /\ "NewMuxedListener" \in stopped => ~Live("grpc.New")
  /\ "NewTaskManager" \in stopped => ~Live("NewMuxedListener")
  /\ "Libp2p" \in stopped /\ "p2pgrpc" \in opts => ~Live("NewMuxedListener")
  /\ "repo" \in stopped =>
       \A n \in {"NewMuxedListener", "NewHTTPServer", "NewTaskManager", "Libp2p"} : ~Live(n)
  /\ "cancel" \in stopped /\ Live("NewMuxedListener") => "prom" \in opts
=============================================================================
