----------------------------- MODULE NodeProofs -----------------------------
(***************************************************************************)
(* Proofs about Node, for every combination of options.  The first part     *)
(* looks at the tables of constructors: each has a rank above the ranks of  *)
(* what it takes, so the depth-first construction goes down, and each type  *)
(* that is taken is provided by exactly one of them.  The second part is    *)
(* the inductive invariant of New, Start and Stop.                          *)
(***************************************************************************)
EXTENDS Node, TLAPS

\* The constructors of every node, and of auth, the locker and the tracer.
Core == {Context, Repo, NewTaskManager, NewStatus, NewRegistry, NewTracer, NewLocker,
         NewJWTManager, NewAclManager}

\* The constructors of the p2p module and of what is built on it.
P2PCtors == {Identity, Libp2p, LocalDialer, Pubsub, NewSvcDiscovery, NewEventsSvc,
             NewProtocols, NewSharedStoreProvider, NewNode}

\* The constructors of the gRPC module, without the interceptors.
Transports == {NewMuxedListener, NewTCPListener, NewP2PListener, NewUDSListener,
               NewP2PClientService, NewStaticClientService, OptsAggregator, NewServer}

\* The constructors of the gRPC middleware.
Interceptors == {Validator, Recovery, JwtAuthOptions, ServerMetrics, MetricsOpts,
                 JaegerTracerOptions}

\* The constructors of the HTTP module.
Web == {NewHTTPServerMux, NewGRPCGateway, HTTPRecovery, Logging, JWT, Tracing, PromMware}

\* The functions that fx invokes.
Invoked(k) == {NewMDNSDiscovery, NewP2PReporter, Bootstrapper(k), MetricsRegister,
               NewP2PClientAdvertiser, NewHTTPServer, Register, NewMesher, RegisterHTTP,
               Cancel, Reporters, Populate}

\* A constructor takes only what constructors of a lower rank give.
Rank(n) ==
  CASE n \in {"context", "repo", "status.New", "metrics.New", "LocalDialer", "Metrics",
              "Validator", "Recovery", "NewHTTPServerMux", "NewGRPCGateway",
              "http.Recovery", "Logging", "PromMware"} -> 0
    [] n \in {"NewTaskManager", "NewTracer", "NewLocker", "NewJWTManager", "Identity",
              "NewTCPListener", "NewUDSListener", "NewStaticClientService",
              "MetricsOpts"} -> 1
    [] n \in {"Libp2p", "JaegerTracerOptions", "Tracing"} -> 2
    [] n \in {"NewNode", "Pubsub", "NewSvcDiscovery", "NewP2PListener",
              "protocols.New"} -> 3
    [] n \in {"NewP2PClientService", "NewEventsSvc", "NewSharedStoreProvider"} -> 4
    [] n = "NewAclManager" -> 5
    [] n \in {"JwtAuthOptions", "JWT"} -> 6
    [] n \in {"OptsAggregator", "NewMuxedListener"} -> 7
    [] n = "grpc.New" -> 8
    [] OTHER -> 9

\* The rank of a type is the highest rank of a constructor that gives it.
TypeRank(t) ==
  CASE t \in {"ctx", "cancel", "repo", "config", "ds", "status", "registry", "localDialer",
              "grpcMetrics", "httpMux", "gateway"} -> 0
    [] t \in {"tm", "tracer", "locker", "jwt", "privKey", "staticClientSvc"} -> 1
    [] t \in {"mainHost", "routing"} -> 2
    [] t \in {"peer", "pubsub", "discovery", "listener", "protocols"} -> 3
    [] t \in {"p2pClientSvc", "events", "sharedStore"} -> 4
    [] t = "acl" -> 5
    [] t \in {"unary", "stream", "httpmiddleware"} -> 6
    [] t \in {"serverOpts", "mux"} -> 7
    [] OTHER -> 8

\* All constructors and invoked functions.
Ctors(k) == Core \cup P2PCtors \cup Transports \cup Interceptors \cup Web \cup Invoked(k)

\* The constructor of a type that is not a group.
Giver(t) ==
  CASE t \in {"ctx", "cancel"} -> "context"
    [] t \in {"repo", "config", "ds"} -> "repo"
    [] t = "tm" -> "NewTaskManager"
    [] t = "status" -> "status.New"
    [] t = "registry" -> "metrics.New"
    [] t = "tracer" -> "NewTracer"
    [] t = "locker" -> "NewLocker"
    [] t = "jwt" -> "NewJWTManager"
    [] t = "acl" -> "NewAclManager"
    [] t = "privKey" -> "Identity"
    [] t \in {"mainHost", "routing"} -> "Libp2p"
    [] t = "localDialer" -> "LocalDialer"
    [] t = "pubsub" -> "Pubsub"
    [] t = "discovery" -> "NewSvcDiscovery"
    [] t = "events" -> "NewEventsSvc"
    [] t = "protocols" -> "protocols.New"
    [] t = "sharedStore" -> "NewSharedStoreProvider"
    [] t = "peer" -> "NewNode"
    [] t = "mux" -> "NewMuxedListener"
    [] t = "p2pClientSvc" -> "NewP2PClientService"
    [] t = "staticClientSvc" -> "NewStaticClientService"
    [] t = "serverOpts" -> "OptsAggregator"
    [] t = "server" -> "grpc.New"
    [] t = "grpcMetrics" -> "Metrics"
    [] t = "httpMux" -> "NewHTTPServerMux"
    [] t = "gateway" -> "NewGRPCGateway"
    [] OTHER -> "nobody"

\* What the tables say of one constructor: it takes lower types than it gives,
\* it alone gives its types, only the gRPC server takes the mux, only the metrics
\* and deps take the server, and four constructors have an OnStart that can fail.
Static(c) ==
  /\ \A i \in DOMAIN c.needs : TypeRank(c.needs[i]) < Rank(c.name)
  /\ \A t \in c.gives : Rank(c.name) <= TypeRank(t)
  /\ \A t \in c.gives \ Groups : Giver(t) = c.name
  /\ \A i \in DOMAIN c.needs :
       /\ c.needs[i] = "mux" => c.name = "grpc.New"
       /\ c.needs[i] = "server" => c.name \in {"MetricsRegister", "Populate"}
  /\ c.hook \in {"start", "both"} =>
       c.name \in {"NewMuxedListener", "grpc.New", "NewHTTPServer", "Bootstrapper"}
  /\ c.name = "repo" => c.hook = "stop"

\* The constructors of every node are ranked as Rank says.
LEMMA StaticCore == \A c \in Core : Static(c)
BY SMTT(20) DEF Core, Static, Rank, TypeRank, Giver, Groups, Ctor, Context, Repo,
   NewTaskManager, NewStatus, NewRegistry, NewTracer, NewLocker, NewJWTManager,
   NewAclManager

\* The constructors of the p2p module are ranked as Rank says.
LEMMA StaticP2P == \A c \in P2PCtors : Static(c)
BY DEF P2PCtors, Static, Rank, TypeRank, Giver, Groups, Ctor, Identity, Libp2p,
   LocalDialer, Pubsub, NewSvcDiscovery, NewEventsSvc, NewProtocols,
   NewSharedStoreProvider, NewNode

\* The constructors of the gRPC module are ranked as Rank says.
LEMMA StaticTransports == \A c \in Transports : Static(c)
BY SMTT(20) DEF Transports, Static, Rank, TypeRank, Giver, Groups, Ctor, NewMuxedListener,
   NewTCPListener, NewP2PListener, NewUDSListener, NewP2PClientService,
   NewStaticClientService, OptsAggregator, NewServer

\* The constructors of the gRPC middleware are ranked as Rank says.
LEMMA StaticInterceptors == \A c \in Interceptors : Static(c)
BY DEF Interceptors, Static, Rank, TypeRank, Giver, Groups, Ctor, Validator,
   Recovery, JwtAuthOptions, ServerMetrics, MetricsOpts, JaegerTracerOptions

\* The constructors of the HTTP module are ranked as Rank says.
LEMMA StaticWeb == \A c \in Web : Static(c)
BY DEF Web, Static, Rank, TypeRank, Giver, Groups, Ctor, NewHTTPServerMux,
   NewGRPCGateway, HTTPRecovery, Logging, JWT, Tracing, PromMware

\* The invoked functions are ranked as Rank says, Bootstrapper with any keys.
LEMMA StaticInvoked == \A k : \A c \in Invoked(k) : Static(c)
<1>1. Static(Populate)
  BY DEF Static, Rank, TypeRank, Giver, Groups, Ctor, Populate, deps
<1>2. \A k : Static(Bootstrapper(k))
  BY DEF Static, Rank, TypeRank, Giver, Groups, Ctor, Bootstrapper
<1>3. \A c \in {NewMDNSDiscovery, NewP2PReporter, MetricsRegister,
                NewP2PClientAdvertiser, NewHTTPServer} : Static(c)
  BY DEF Static, Rank, TypeRank, Giver, Groups, Ctor, NewMDNSDiscovery, NewP2PReporter,
     MetricsRegister, NewP2PClientAdvertiser, NewHTTPServer
<1>4. \A c \in {Register, NewMesher, RegisterHTTP, Cancel, Reporters} : Static(c)
  BY DEF Static, Rank, TypeRank, Giver, Groups, Ctor, Register, NewMesher,
     RegisterHTTP, Cancel, Reporters
<1> QED BY <1>1, <1>2, <1>3, <1>4 DEF Invoked

\* A name stands for one constructor of S.
NamedApart(S) == \A c, d \in S : c.name = d.name => c = d

\* No two constructors of every node share a name.
LEMMA NamesCore ==
  /\ NamedApart(Core)
  /\ \A c \in Core :
       c.name \in {"context", "repo", "NewTaskManager", "status.New", "metrics.New",
                   "NewTracer", "NewLocker", "NewJWTManager", "NewAclManager"}
BY DEF NamedApart, Core, Ctor, Context, Repo, NewTaskManager, NewStatus,
   NewRegistry, NewTracer, NewLocker, NewJWTManager, NewAclManager

\* No two constructors of the p2p module share a name.
LEMMA NamesP2P ==
  /\ NamedApart(P2PCtors)
  /\ \A c \in P2PCtors :
       c.name \in {"Identity", "Libp2p", "LocalDialer", "Pubsub", "NewSvcDiscovery",
                   "NewEventsSvc", "protocols.New", "NewSharedStoreProvider", "NewNode"}
BY DEF NamedApart, P2PCtors, Ctor, Identity, Libp2p, LocalDialer, Pubsub,
   NewSvcDiscovery, NewEventsSvc, NewProtocols, NewSharedStoreProvider, NewNode

\* No two constructors of the gRPC module share a name.
LEMMA NamesTransports ==
  /\ NamedApart(Transports)
  /\ \A c \in Transports : c.name \in {"NewMuxedListener", "NewTCPListener", "NewP2PListener",
        "NewUDSListener", "NewP2PClientService", "NewStaticClientService", "OptsAggregator",
        "grpc.New"}
BY DEF NamedApart, Transports, Ctor, NewMuxedListener, NewTCPListener,
   NewP2PListener, NewUDSListener, NewP2PClientService, NewStaticClientService,
   OptsAggregator, NewServer

\* No two constructors of the gRPC middleware share a name.
LEMMA NamesInterceptors ==
  /\ NamedApart(Interceptors)
  /\ \A c \in Interceptors : c.name \in {"Validator", "Recovery", "JwtAuthOptions", "Metrics",
        "MetricsOpts", "JaegerTracerOptions"}
BY DEF NamedApart, Interceptors, Ctor, Validator, Recovery, JwtAuthOptions,
   ServerMetrics, MetricsOpts, JaegerTracerOptions

\* No two constructors of the HTTP module share a name.
LEMMA NamesWeb ==
  /\ NamedApart(Web)
  /\ \A c \in Web : c.name \in {"NewHTTPServerMux", "NewGRPCGateway", "http.Recovery", "Logging",
        "JWT", "Tracing", "PromMware"}
BY DEF NamedApart, Web, Ctor, NewHTTPServerMux, NewGRPCGateway, HTTPRecovery,
   Logging, JWT, Tracing, PromMware

\* No two invoked functions share a name.
LEMMA NamesInvoked ==
  ASSUME NEW k
  PROVE
  /\ NamedApart(Invoked(k))
  /\ \A c \in Invoked(k) : c.name \in {"NewMDNSDiscovery", "NewP2PReporter", "Bootstrapper",
        "MetricsRegister", "NewP2PClientAdvertiser", "NewHTTPServer", "Register", "mesher.New",
        "RegisterHTTP", "cancel", "reporters", "Populate"}
BY DEF NamedApart, Invoked, Ctor, NewMDNSDiscovery, NewP2PReporter, Bootstrapper,
   MetricsRegister, NewP2PClientAdvertiser, NewHTTPServer, Register, NewMesher,
   RegisterHTTP, Cancel, Reporters, Populate

\* A name stands for one constructor of the whole table.
LEMMA Names == \A k : NamedApart(Ctors(k))
<1> SUFFICES ASSUME NEW k PROVE NamedApart(Ctors(k))
  OBVIOUS
<1> QED BY NamesCore, NamesP2P, NamesTransports, NamesInterceptors, NamesWeb,
           NamesInvoked DEF NamedApart, Ctors

\* What New provides to fx is in the tables.
LEMMA ProvidedCtors ==
  \A k : Provided(k) \subseteq
           Core \cup P2PCtors \cup Transports \cup Interceptors \cup Web
BY DEF Provided, Maybe, GRPCModule, GRPCTransport, Middleware, Client, HTTPModule,
   P2PModule, Core, P2PCtors, Transports, Interceptors, Web

\* Every constructor of the tables is ranked.
LEMMA StaticAll == \A k : \A c \in Ctors(k) : Static(c)
BY StaticCore, StaticP2P, StaticTransports, StaticInterceptors, StaticWeb,
   StaticInvoked DEF Ctors

\* The invocations of the modules that are there.
Called(k) ==
  Maybe({NewMDNSDiscovery, NewP2PReporter, Bootstrapper(k), NewMesher}, "UseP2P" \in k)
    \cup Maybe({MetricsRegister}, {"UseGRPC", "UsePrometheus"} \subseteq k)
    \cup Maybe({NewP2PClientAdvertiser}, {"UseGRPC", "UseP2P"} \subseteq k)
    \cup Maybe({NewHTTPServer, RegisterHTTP}, "UseHTTP" \in k)
    \cup Maybe({Register}, {"UseHTTP", "UsePrometheus"} \subseteq k)

\* Invokes lists invocations of the modules that are there, then cancel, the
\* reporters and, last, the one that fills deps.
LEMMA InvokesFacts ==
  ASSUME NEW k
  PROVE  LET s == Invokes(k)
             n == Len(s)
         IN /\ s \in Seq(Called(k) \cup {Cancel, Reporters, Populate})
            /\ n \in Nat /\ n >= 3 /\ s[n] = Populate
            /\ \A i \in 1..(n - 1) : s[i] \in Called(k) \cup {Cancel, Reporters}
<1> DEFINE S == Called(k)
<1>1. /\ "UseP2P" \in k =>
           {NewMDNSDiscovery, NewP2PReporter, Bootstrapper(k), NewMesher} \subseteq S
      /\ "UseGRPC" \in k /\ "UsePrometheus" \in k => MetricsRegister \in S
      /\ "UseGRPC" \in k /\ {"UseP2P", "UseP2PGRPC"} \subseteq k =>
           NewP2PClientAdvertiser \in S
      /\ "UseHTTP" \in k => NewHTTPServer \in S /\ RegisterHTTP \in S
      /\ "UseHTTP" \in k /\ "UsePrometheus" \in k => Register \in S
  BY DEF Called, Maybe
<1> HIDE DEF S
<1>2. <<>> \in Seq(S)
  OBVIOUS
<1>3. MaybeInvoke(P2PInvokes(k), "UseP2P" \in k) \in Seq(S)
  <2>1. "UseP2P" \in k => P2PInvokes(k) \in Seq(S)
    BY <1>1 DEF P2PInvokes
  <2> QED BY <1>2, <2>1, Zenon DEF MaybeInvoke
<1>4. MaybeInvoke(GRPCInvokes(k), "UseGRPC" \in k) \in Seq(S)
  <2>1. ASSUME "UseGRPC" \in k PROVE GRPCInvokes(k) \in Seq(S)
    <3> DEFINE a == MaybeInvoke(<<MetricsRegister>>, "UsePrometheus" \in k)
               b == MaybeInvoke(<<NewP2PClientAdvertiser>>,
                                {"UseP2P", "UseP2PGRPC"} \subseteq k)
    <3>1. a \in Seq(S)
      BY <1>1, <2>1 DEF MaybeInvoke
    <3>2. b \in Seq(S)
      BY <1>1, <2>1 DEF MaybeInvoke
    <3>3. GRPCInvokes(k) = a \o b
      BY DEF GRPCInvokes
    <3> HIDE DEF a, b
    <3> QED BY <3>1, <3>2, <3>3
  <2> QED BY <1>2, <2>1, Zenon DEF MaybeInvoke
<1>5. MaybeInvoke(HTTPInvokes(k), "UseHTTP" \in k) \in Seq(S)
  <2>1. ASSUME "UseHTTP" \in k PROVE HTTPInvokes(k) \in Seq(S)
    <3> DEFINE b == MaybeInvoke(<<Register>>, "UsePrometheus" \in k)
    <3>1. <<NewHTTPServer>> \in Seq(S) /\ b \in Seq(S)
      BY <1>1, <2>1 DEF MaybeInvoke
    <3>2. HTTPInvokes(k) = <<NewHTTPServer>> \o b
      BY DEF HTTPInvokes
    <3> HIDE DEF b
    <3> QED BY <3>1, <3>2
  <2> QED BY <1>2, <2>1, Zenon DEF MaybeInvoke
<1>6. /\ MaybeInvoke(<<NewMesher>>, "UseP2P" \in k) \in Seq(S)
      /\ MaybeInvoke(<<RegisterHTTP>>, "UseHTTP" \in k) \in Seq(S)
  BY <1>1 DEF MaybeInvoke
<1>7. ModuleInvokes(k) \in Seq(S)
  BY <1>3, <1>4, <1>5, <1>6 DEF ModuleInvokes
<1>8. Invokes(k) = ModuleInvokes(k) \o <<Cancel, Reporters, Populate>>
  BY DEF Invokes
<1> QED BY <1>7, <1>8 DEF S

\* What is invoked is in the tables.
LEMMA CalledCtors ==
  \A k : Called(k) \cup {Cancel, Reporters, Populate} \subseteq Invoked(k)
BY DEF Called, Maybe, Invoked

\* The types, other than groups, that have a provider.
Types(k) ==
  {"ctx", "cancel", "repo", "config", "ds", "tm", "status"}
    \cup Maybe({"registry"}, "UsePrometheus" \in k)
    \cup Maybe({"tracer"}, "UseTracing" \in k)
    \cup Maybe({"locker"}, "UseLocker" \in k)
    \cup Maybe({"jwt", "acl"}, "UseAuth" \in k)
    \cup Maybe({"privKey", "mainHost", "routing", "localDialer", "pubsub", "discovery",
                "events", "protocols", "sharedStore"}, "UseP2P" \in k)
    \cup Maybe({"peer"}, {"UseP2P", "UseFiles"} \subseteq k)
    \cup Maybe({"mux", "serverOpts", "server"}, "UseGRPC" \in k)
    \cup Maybe({"grpcMetrics"}, {"UseGRPC", "UsePrometheus"} \subseteq k)
    \cup Maybe({"p2pClientSvc"}, {"UseGRPC", "UseP2P"} \subseteq k)
    \cup Maybe({"staticClientSvc"}, {"UseGRPC", "UseStaticDiscovery"} \subseteq k)
    \cup Maybe({"httpMux", "gateway"}, "UseHTTP" \in k)

\* A provided type is one of Types.
LEMMA GivenTypes ==
  ASSUME NEW k, NEW c \in Provided(k), NEW t \in c.gives, t \notin Groups
  PROVE  t \in Types(k)
<1> USE DEF Ctor, Types, Maybe, Groups
<1>1. CASE c \in {Context, Repo, NewTaskManager, NewStatus}
  BY <1>1 DEF Context, Repo, NewTaskManager, NewStatus
<1>2. CASE "UsePrometheus" \in k /\ c = NewRegistry
  BY <1>2 DEF NewRegistry
<1>3. CASE "UseTracing" \in k /\ c = NewTracer
  BY <1>3 DEF NewTracer
<1>4. CASE "UseLocker" \in k /\ c = NewLocker
  BY <1>4 DEF NewLocker
<1>5. CASE "UseAuth" \in k /\ c \in {NewJWTManager, NewAclManager}
  BY <1>5 DEF NewJWTManager, NewAclManager
<1>6. CASE /\ "UseP2P" \in k
           /\ c \in P2PModule \cup {NewEventsSvc, NewProtocols, NewSharedStoreProvider}
  BY <1>6 DEF P2PModule, Identity, Libp2p, LocalDialer, Pubsub, NewSvcDiscovery,
     NewEventsSvc, NewProtocols, NewSharedStoreProvider
<1>7. CASE {"UseP2P", "UseFiles"} \subseteq k /\ c = NewNode
  BY <1>7 DEF NewNode
<1>8. CASE "UseGRPC" \in k /\ c \in GRPCTransport(k) \cup {OptsAggregator, NewServer}
  BY <1>8 DEF GRPCTransport, OptsAggregator, NewServer, NewMuxedListener,
     NewTCPListener, NewP2PListener, NewUDSListener
<1>9. CASE "UseGRPC" \in k /\ c \in Middleware(k)
  BY <1>9 DEF Middleware, Validator, Recovery, JwtAuthOptions, ServerMetrics,
     MetricsOpts, JaegerTracerOptions
<1>10. CASE "UseGRPC" \in k /\ c \in Client(k)
  BY <1>10 DEF Client, NewP2PClientService, NewStaticClientService
<1>11. CASE "UseHTTP" \in k /\ c \in HTTPModule(k)
  BY <1>11 DEF HTTPModule, NewHTTPServerMux, NewGRPCGateway, HTTPRecovery, Logging,
     JWT, Tracing, PromMware
<1> QED BY <1>1, <1>2, <1>3, <1>4, <1>5, <1>6, <1>7, <1>8, <1>9, <1>10, <1>11 DEF
           Provided, GRPCModule

\* The constructors that the keys bring in.
LEMMA Included ==
  ASSUME NEW k
  PROVE  /\ {Context, Repo, NewTaskManager, NewStatus} \subseteq Provided(k)
         /\ "UsePrometheus" \in k => NewRegistry \in Provided(k)
         /\ "UseTracing" \in k => NewTracer \in Provided(k)
         /\ "UseLocker" \in k => NewLocker \in Provided(k)
         /\ "UseAuth" \in k => {NewJWTManager, NewAclManager} \subseteq Provided(k)
         /\ "UseP2P" \in k =>
              P2PModule \cup {NewEventsSvc, NewProtocols, NewSharedStoreProvider}
                \subseteq Provided(k)
         /\ {"UseP2P", "UseFiles"} \subseteq k => NewNode \in Provided(k)
         /\ "UseGRPC" \in k => GRPCModule(k) \subseteq Provided(k)
         /\ "UseHTTP" \in k => HTTPModule(k) \subseteq Provided(k)
BY DEF Provided, Maybe

\* Each of Types is provided.
LEMMA TypesGiven ==
  ASSUME NEW k, NEW t \in Types(k)
  PROVE  \E c \in Provided(k) : t \in c.gives
<1>0. "UseGRPC" \in k =>
        /\ {NewMuxedListener, OptsAggregator, NewServer} \subseteq Provided(k)
        /\ "UsePrometheus" \in k => ServerMetrics \in Provided(k)
        /\ "UseP2P" \in k => NewP2PClientService \in Provided(k)
        /\ "UseStaticDiscovery" \in k => NewStaticClientService \in Provided(k)
  BY Included DEF GRPCModule, GRPCTransport, Middleware, Client, Maybe
<1> USE DEF Ctor
<1>1. CASE t \in {"ctx", "cancel", "repo", "config", "ds", "tm", "status"}
  BY Included, <1>1 DEF Context, Repo, NewTaskManager, NewStatus
<1>2. CASE "UsePrometheus" \in k /\ t = "registry"
  BY Included, <1>2 DEF NewRegistry
<1>3. CASE "UseTracing" \in k /\ t = "tracer"
  BY Included, <1>3 DEF NewTracer
<1>4. CASE "UseLocker" \in k /\ t = "locker"
  BY Included, <1>4 DEF NewLocker
<1>5. CASE "UseAuth" \in k /\ t \in {"jwt", "acl"}
  BY Included, <1>5 DEF NewJWTManager, NewAclManager
<1>6. CASE /\ "UseP2P" \in k
           /\ t \in {"privKey", "mainHost", "routing", "localDialer", "pubsub",
                     "discovery", "events", "protocols", "sharedStore"}
  BY Included, <1>6 DEF P2PModule, Identity, Libp2p, LocalDialer, Pubsub,
     NewSvcDiscovery, NewEventsSvc, NewProtocols, NewSharedStoreProvider
<1>7. CASE {"UseP2P", "UseFiles"} \subseteq k /\ t = "peer"
  BY Included, <1>7 DEF NewNode
<1>8. CASE "UseGRPC" \in k /\ t \in {"mux", "serverOpts", "server"}
  BY <1>0, <1>8 DEF OptsAggregator, NewServer, NewMuxedListener
<1>9. CASE {"UseGRPC", "UsePrometheus"} \subseteq k /\ t = "grpcMetrics"
  BY <1>0, <1>9 DEF ServerMetrics
<1>10. CASE {"UseGRPC", "UseP2P"} \subseteq k /\ t = "p2pClientSvc"
  BY <1>0, <1>10 DEF NewP2PClientService
<1>11. CASE {"UseGRPC", "UseStaticDiscovery"} \subseteq k /\ t = "staticClientSvc"
  BY <1>0, <1>11 DEF NewStaticClientService
<1>12. CASE "UseHTTP" \in k /\ t \in {"httpMux", "gateway"}
  <2>1. NewHTTPServerMux \in Provided(k) /\ NewGRPCGateway \in Provided(k)
    BY <1>12, Included DEF HTTPModule
  <2>2. "httpMux" \in NewHTTPServerMux.gives /\ "gateway" \in NewGRPCGateway.gives
    BY DEF NewHTTPServerMux, NewGRPCGateway, Ctor
  <2> QED BY <1>12, <2>1, <2>2
<1> QED BY <1>1, <1>2, <1>3, <1>4, <1>5, <1>6, <1>7, <1>8, <1>9, <1>10, <1>11,
      <1>12 DEF Types, Maybe

\* Parameters are optional, a group, or provided.
Supplied(c, k) ==
  \A i \in DOMAIN c.needs : c.needs[i] \in c.optional \cup Groups \cup Types(k)

\* Whatever the keys are, what a provided constructor takes is provided too.
LEMMA ProvidedSupplied ==
  ASSUME NEW k, NEW c \in Provided(k)
  PROVE  Supplied(c, k)
<1> USE DEF Ctor, Types, Maybe, Groups, Supplied
<1>1. CASE c \in {Context, Repo, NewTaskManager, NewStatus}
  BY <1>1 DEF Context, Repo, NewTaskManager, NewStatus
<1>2. CASE "UsePrometheus" \in k /\ c = NewRegistry
  BY <1>2 DEF NewRegistry
<1>3. CASE "UseTracing" \in k /\ c = NewTracer
  BY <1>3 DEF NewTracer
<1>4. CASE "UseLocker" \in k /\ c = NewLocker
  BY <1>4 DEF NewLocker
<1>5. CASE "UseAuth" \in k /\ c \in {NewJWTManager, NewAclManager}
  BY <1>5 DEF NewJWTManager, NewAclManager
<1>6. CASE /\ "UseP2P" \in k
           /\ c \in P2PModule \cup {NewEventsSvc, NewProtocols, NewSharedStoreProvider}
  BY <1>6 DEF P2PModule, Identity, Libp2p, LocalDialer, Pubsub, NewSvcDiscovery,
     NewEventsSvc, NewProtocols, NewSharedStoreProvider
<1>7. CASE {"UseP2P", "UseFiles"} \subseteq k /\ c = NewNode
  BY <1>7 DEF NewNode
<1>8. CASE "UseGRPC" \in k /\ c \in GRPCTransport(k) \cup {OptsAggregator, NewServer}
  BY <1>8 DEF GRPCTransport, OptsAggregator, NewServer, NewMuxedListener,
     NewTCPListener, NewP2PListener, NewUDSListener
<1>9. CASE "UseGRPC" \in k /\ c \in Middleware(k)
  BY <1>9 DEF Middleware, Validator, Recovery, JwtAuthOptions, ServerMetrics,
     MetricsOpts, JaegerTracerOptions
<1>10. CASE "UseGRPC" \in k /\ c \in Client(k)
  BY <1>10 DEF Client, NewP2PClientService, NewStaticClientService
<1>11. CASE "UseHTTP" \in k /\ c \in HTTPModule(k)
  BY <1>11 DEF HTTPModule, NewHTTPServerMux, NewGRPCGateway, HTTPRecovery, Logging,
     JWT, Tracing, PromMware
<1> QED BY <1>1, <1>2, <1>3, <1>4, <1>5, <1>6, <1>7, <1>8, <1>9, <1>10, <1>11 DEF
           Provided, GRPCModule

\* Whatever the keys are, what an invoked function takes is provided.
LEMMA InvokedSupplied ==
  ASSUME NEW k, NEW c \in Called(k) \cup {Cancel, Reporters, Populate}
  PROVE  Supplied(c, k)
<1> USE DEF Ctor, Types, Maybe, Groups, Supplied
<1>1. CASE "UseP2P" \in k /\ c \in {NewMDNSDiscovery, NewP2PReporter, Bootstrapper(k), NewMesher}
  BY <1>1 DEF NewMDNSDiscovery, NewP2PReporter, Bootstrapper, NewMesher
<1>2. CASE {"UseGRPC", "UsePrometheus"} \subseteq k /\ c = MetricsRegister
  BY <1>2 DEF MetricsRegister
<1>3. CASE {"UseGRPC", "UseP2P"} \subseteq k /\ c = NewP2PClientAdvertiser
  BY <1>3 DEF NewP2PClientAdvertiser
<1>4. CASE "UseHTTP" \in k /\ c \in {NewHTTPServer, RegisterHTTP}
  BY <1>4 DEF NewHTTPServer, RegisterHTTP
<1>5. CASE {"UseHTTP", "UsePrometheus"} \subseteq k /\ c = Register
  BY <1>5 DEF Register
<1>6. CASE c \in {Cancel, Reporters}
  BY <1>6 DEF Cancel, Reporters
<1>7. CASE c = Populate
  BY <1>7 DEF Populate, deps, Range
<1> QED BY <1>1, <1>2, <1>3, <1>4, <1>5, <1>6, <1>7 DEF Called

-----------------------------------------------------------------------------

\* The constructors and the invoked functions of this node.
App == Provided(Keys(opts)) \cup Called(Keys(opts)) \cup {Cancel, Reporters, Populate}

\* What this node invokes, in order.
Invocation == Invokes(Keys(opts))

\* The types of the variables.
TypeInv ==
  /\ opts \in OptionSets
  /\ phase \in {"new", "failed", "built", "starting", "running", "stopping", "stopped",
                "rollback", "startfailed"}
  /\ invoked \in 0..Len(Invocation)
  /\ stack \in Seq(App)
  /\ hooks \in Seq(App)

\* The constructors under way have growing ranks from the top of the stack down,
\* are not built, and stand on the invocation that asked for them.
StackInv ==
  /\ \A i, j \in DOMAIN stack : i < j => Rank(stack[i].name) < Rank(stack[j].name)
  /\ \A i \in DOMAIN stack :
       i < Len(stack) => stack[i] \in Provided(Keys(opts)) /\ stack[i].name \notin built
  /\ stack # <<>> => invoked > 0 /\ stack[Len(stack)] = Invocation[invoked]
  /\ stack = <<>> /\ invoked > 0 => Invocation[invoked].name \in built

\* With a constructor, everything that it takes is built.
Closed ==
  \A c \in App : c.name \in built =>
    \A i \in DOMAIN c.needs : \A p \in Providers(c.needs[i]) : p.name \in built

\* The hook of n is appended before the hook of m.
Precedes(n, m) ==
  \/ n = "NewMuxedListener" /\ m = "grpc.New"
  \/ n = "NewTaskManager" /\ m = "NewMuxedListener"
  \/ n = "Libp2p" /\ m = "NewMuxedListener" /\ "p2pgrpc" \in opts
  \/ n = "repo" /\ m \in {"NewMuxedListener", "grpc.New", "NewHTTPServer", "Bootstrapper",
                          "NewTaskManager", "Libp2p"}
  \/ n = "cancel" /\ m = "NewMuxedListener" /\ "prom" \notin opts

\* Hooks belong to built constructors, and come in the order of Precedes.
HookInv ==
  /\ \A i \in DOMAIN hooks : hooks[i].name \in built
  /\ "repo" \in built => \E i \in DOMAIN hooks : hooks[i].name = "repo"
  /\ \A i, j \in DOMAIN hooks : Precedes(hooks[i].name, hooks[j].name) => i < j

\* Without Prometheus only the last invocation asks for the server and the mux.
CancelInv ==
  "prom" \notin opts /\ invoked < Len(Invocation) =>
    /\ built \cap {"NewMuxedListener", "grpc.New"} = {}
    /\ \A i \in DOMAIN stack : stack[i].name \notin {"NewMuxedListener", "grpc.New"}

\* The last invocation fills deps with what is provided.
PopulateInv ==
  /\ "Populate" \in built => dp = {t \in Range(deps) : Providers(t) # {}}
  /\ phase \notin {"new", "failed"} => "Populate" \in built

\* Hook i does something in Stop.
OnStop(i) == hooks[i].hook \in {"stop", "both"}

\* The started hooks are a prefix of the list and the stopped ones come after it:
\* all that have an OnStop in a Stop, the repository at least in a rollback.  Started
\* hooks are left only if the context has ended.
LifeInv ==
  /\ numStarted \in 0..Len(hooks)
  /\ phase \in {"new", "failed", "built"} => numStarted = 0
  /\ phase = "running" => numStarted = Len(hooks)
  /\ phase \in {"new", "failed", "built", "starting", "running"} => stopped = {}
  /\ \A n \in stopped : \E i \in DOMAIN hooks : hooks[i].name = n /\ i > numStarted
  /\ phase \in {"stopping", "stopped"} =>
       \A i \in DOMAIN hooks : i > numStarted /\ OnStop(i) => hooks[i].name \in stopped
  /\ phase \in {"rollback", "startfailed"} /\ ~done =>
       \A i \in DOMAIN hooks : i > numStarted /\ hooks[i].name = "repo" => "repo" \in stopped
  /\ phase \in {"stopped", "startfailed"} /\ ~done => numStarted = 0

\* The inductive invariant.
IInv == TypeInv /\ StackInv /\ Closed /\ HookInv /\ CancelInv /\ PopulateInv /\ LifeInv

\* The ranks are numbers.
LEMMA RankNat == \A n : Rank(n) \in 0..9 /\ TypeRank(n) \in 0..8
BY DEF Rank, TypeRank

\* What is provided is not invoked.
LEMMA Apart ==
  ASSUME NEW k, NEW c \in Provided(k), NEW d \in Invoked(k)
  PROVE  c.name # d.name
BY ProvidedCtors, NamesCore, NamesP2P, NamesTransports, NamesInterceptors, NamesWeb,
   NamesInvoked

\* Every constructor of the application.
LEMMA AppStatic ==
  ASSUME NEW c \in App
  PROVE  c \in Ctors(Keys(opts)) /\ Static(c)
<1>1. c \in Ctors(Keys(opts))
  BY ProvidedCtors, CalledCtors DEF App, Ctors
<1> QED BY <1>1, StaticAll

\* A name stands for one constructor of the node.
LEMMA Unique ==
  ASSUME NEW c \in App, NEW d \in Ctors(Keys(opts)), c.name = d.name
  PROVE  c = d
BY AppStatic, Names DEF NamedApart

\* Whatever the options are, no constructor lacks a parameter.
LEMMA NeverMissing ==
  ASSUME NEW c \in App
  PROVE  ~Missing(c)
<1>1. Supplied(c, Keys(opts))
  BY ProvidedSupplied, InvokedSupplied DEF App
<1>2. \A t \in Types(Keys(opts)) : Providers(t) # {}
  BY TypesGiven DEF Providers
<1>3. ASSUME NEW t \in Range(c.needs), t \notin c.optional \cup Groups PROVE Providers(t) # {}
  <2>1. PICK i \in DOMAIN c.needs : t = c.needs[i]
    BY DEF Range
  <2> QED BY <1>1, <1>2, <1>3, <2>1 DEF Supplied
<1> QED BY <1>3 DEF Missing

\* No type has two providers.
LEMMA NotAmbiguous == ~Ambiguous
<1> SUFFICES ASSUME NEW c \in Provided(Keys(opts)), NEW t \in c.gives, t \notin Groups
             PROVE  Providers(t) = {c}
  BY DEF Ambiguous
<1>1. ASSUME NEW p \in Providers(t) PROVE p = c
  <2>1. p \in App /\ c \in App /\ t \in p.gives
    BY DEF App, Providers
  <2>2. p.name = c.name
    BY <2>1, AppStatic DEF Static
  <2> QED BY <2>1, <2>2, Unique, AppStatic
<1>2. c \in Providers(t)
  BY DEF Providers
<1> QED BY <1>1, <1>2

\* A provider of a parameter has a lower rank.
LEMMA RankDown ==
  ASSUME NEW c \in App, NEW i \in DOMAIN c.needs, NEW p \in Providers(c.needs[i])
  PROVE  p \in Provided(Keys(opts)) /\ p \in App /\ Rank(p.name) < Rank(c.name)
<1>1. p \in Provided(Keys(opts)) /\ p \in App /\ c.needs[i] \in p.gives
  BY DEF App, Providers
<1>2. Rank(p.name) <= TypeRank(c.needs[i]) /\ TypeRank(c.needs[i]) < Rank(c.name)
  BY <1>1, AppStatic DEF Static
<1>3. Rank(p.name) \in Nat /\ TypeRank(c.needs[i]) \in Nat /\ Rank(c.name) \in Nat
  BY RankNat
<1> QED BY <1>1, <1>2, <1>3

\* The invocations of the node: the last one fills deps.
LEMMA InvocationFacts ==
  /\ Invocation \in Seq(Called(Keys(opts)) \cup {Cancel, Reporters, Populate})
  /\ Len(Invocation) \in Nat /\ Len(Invocation) >= 3
  /\ Invocation[Len(Invocation)] = Populate
  /\ \A i \in 1..(Len(Invocation) - 1) :
       Invocation[i] \in Called(Keys(opts)) \cup {Cancel, Reporters}
BY InvokesFacts, Zenon DEF Invocation

\* The key of each option.
LEMMA KeyFacts ==
  ASSUME opts \in OptionSets
  PROVE  LET k == Keys(opts)
         IN /\ "UseGRPC" \in k <=> opts \cap Transport # {}
            /\ "UseP2PGRPC" \in k <=> "p2pgrpc" \in opts
            /\ "UseP2P" \in k <=> "p2p" \in opts
            /\ "UseHTTP" \in k <=> "http" \in opts
            /\ "UseAuth" \in k <=> "auth" \in opts
            /\ "UseLocker" \in k <=> "locker" \in opts
            /\ "UseFiles" \in k <=> "files" \in opts
            /\ "UsePrometheus" \in k <=> "prom" \in opts
            /\ "UseTracing" \in k <=> "tracing" \in opts
            /\ "UseStaticDiscovery" \in k <=> "static" \in opts
<1> DEFINE k == Keys(opts)
<1>1. \A x \in opts : x \in {"tcp", "p2pgrpc", "uds", "p2p", "http", "auth", "locker", "files",
                             "prom", "tracing", "static", "bootstrap"}
  BY NodeAssumption DEF Transport, KeyOf
<1>2. /\ KeyOf["p2p"] = "UseP2P" /\ KeyOf["http"] = "UseHTTP" /\ KeyOf["auth"] = "UseAuth"
      /\ KeyOf["locker"] = "UseLocker" /\ KeyOf["files"] = "UseFiles"
      /\ KeyOf["prom"] = "UsePrometheus" /\ KeyOf["tracing"] = "UseTracing"
      /\ KeyOf["static"] = "UseStaticDiscovery" /\ KeyOf["bootstrap"] = "BootstrapAddresses"
  BY DEF KeyOf
<1>3. WithGRPC(opts) \subseteq {"UseGRPC", "UseTCP", "UseP2PGRPC", "UseUDS"}
      /\ ("UseGRPC" \in WithGRPC(opts) <=> opts \cap Transport # {})
      /\ ("UseP2PGRPC" \in WithGRPC(opts) <=> "p2pgrpc" \in opts)
  BY DEF WithGRPC, Transport
<1>4. \A key : key \in k <=> key \in WithGRPC(opts)
                              \/ \E x \in opts : x \notin Transport /\ key = KeyOf[x]
  BY DEF Keys
<1>5. \A x \in opts : x \notin Transport =>
        x \in {"p2p", "http", "auth", "locker", "files", "prom", "tracing", "static", "bootstrap"}
  BY <1>1 DEF Transport
<1>6. \A x \in {"p2p", "http", "auth", "locker", "files", "prom", "tracing", "static", "bootstrap"} :
        x \notin Transport
  BY DEF Transport
<1> HIDE DEF k
<1> QED BY <1>2, <1>3, <1>4, <1>5, <1>6 DEF k

\* The application does not change with the state.
LEMMA SameApp ==
  ASSUME opts' = opts
  PROVE  /\ App' = App /\ Invocation' = Invocation
         /\ \A t : Providers(t)' = Providers(t)
         /\ \A n, m : Precedes(n, m)' <=> Precedes(n, m)
<1>1. App' = App /\ Invocation' = Invocation
  BY DEF App, Invocation
<1>2. \A t : Providers(t)' = Providers(t)
  BY DEF Providers
<1>3. \A n, m : Precedes(n, m)' <=> Precedes(n, m)
  BY DEF Precedes
<1> QED BY <1>1, <1>2, <1>3

\* Before New nothing is built.
LEMMA InitIInv == Init => IInv
<1> SUFFICES ASSUME Init PROVE IInv
  OBVIOUS
<1>1. Len(Invocation) \in Nat /\ Len(Invocation) >= 3
  BY InvocationFacts
<1>2. TypeInv
  BY <1>1 DEF Init, TypeInv
<1>3. StackInv
  BY DEF Init, StackInv
<1>4. Closed /\ HookInv /\ CancelInv
  BY DEF Init, Closed, HookInv, CancelInv
<1>5. PopulateInv /\ LifeInv
  BY DEF Init, PopulateInv, LifeInv
<1> QED BY <1>2, <1>3, <1>4, <1>5 DEF IInv

\* What a step of the lifecycle leaves alone.
LEMMA Kept ==
  ASSUME IInv, UNCHANGED <<opts, invoked, stack, built, hooks, dp>>,
         phase' \in {"new", "failed", "built", "starting", "running", "stopping", "stopped",
                     "rollback", "startfailed"}
  PROVE  TypeInv' /\ StackInv' /\ Closed' /\ HookInv' /\ CancelInv'
<1>1. App' = App /\ Invocation' = Invocation /\ (\A t : Providers(t)' = Providers(t))
      /\ \A n, m : Precedes(n, m)' <=> Precedes(n, m)
  BY SameApp
<1>2. TypeInv'
  BY <1>1 DEF IInv, TypeInv
<1>3. StackInv'
  BY <1>1 DEF IInv, StackInv
<1>4. Closed'
  BY <1>1 DEF IInv, Closed
<1>5. HookInv'
  BY <1>1 DEF IInv, HookInv
<1>6. CancelInv'
  BY <1>1 DEF IInv, CancelInv
<1> QED BY <1>2, <1>3, <1>4, <1>5, <1>6

\* New returns, or a constructor fails.
LEMMA NewEnds ==
  ASSUME IInv, Built \/ ConstructFails
  PROVE  IInv'
<1>1. UNCHANGED <<opts, invoked, stack, built, hooks, dp, numStarted, stopped, done>>
      /\ phase = "new" /\ phase' \in {"built", "failed"}
  BY DEF Built, ConstructFails
<1>2. TypeInv' /\ StackInv' /\ Closed' /\ HookInv' /\ CancelInv'
  BY <1>1, Kept
<1>3. phase' = "built" => "Populate" \in built
  <2> SUFFICES ASSUME phase' = "built" PROVE "Populate" \in built
    OBVIOUS
  <2>1. stack = <<>> /\ invoked = Len(Invocation)
    BY DEF Built, ConstructFails, Invocation
  <2>2. Invocation[invoked] = Populate /\ invoked > 0
    BY <2>1, InvocationFacts
  <2>3. Populate.name = "Populate"
    BY DEF Populate, Ctor
  <2> QED BY <2>1, <2>2, <2>3 DEF IInv, StackInv
<1>4. PopulateInv'
  BY <1>1, <1>3, SameApp DEF IInv, PopulateInv
<1>5. LifeInv'
  BY <1>1 DEF IInv, LifeInv, OnStop
<1> QED BY <1>2, <1>4, <1>5 DEF IInv

\* A hook that can fail comes after the repository's.
LEMMA StartsAfterRepo ==
  ASSUME IInv, NEW i \in DOMAIN hooks, hooks[i].name = "repo",
         NEW j \in DOMAIN hooks, hooks[j].hook \in {"start", "both"}
  PROVE  i < j
<1>1. hooks[j] \in App
  BY DEF IInv, TypeInv
<1>2. hooks[j].name \in {"NewMuxedListener", "grpc.New", "NewHTTPServer", "Bootstrapper"}
  BY <1>1, AppStatic DEF Static
<1> QED BY <1>2 DEF IInv, HookInv, Precedes

\* Start and Stop.
LEMMA LifeStep ==
  ASSUME IInv, Start \/ StartHook \/ StartHookFails \/ Started \/ Stop \/ StopHook \/ Stopped
                 \/ CtxEnds
  PROVE  IInv'
<1>1. UNCHANGED <<opts, invoked, stack, built, hooks, dp>>
  BY DEF Start, StartHook, StartHookFails, Started, Stop, StopHook, Stopped, CtxEnds
<1>2. phase \notin {"new", "failed"}
      /\ phase' \in {"starting", "running", "stopping", "stopped", "rollback", "startfailed"}
  BY DEF Start, StartHook, StartHookFails, Started, Stop, StopHook, Stopped, CtxEnds
<1>3. TypeInv' /\ StackInv' /\ Closed' /\ HookInv' /\ CancelInv'
  BY <1>1, <1>2, Kept
<1>4. PopulateInv'
  BY <1>1, <1>2, SameApp DEF IInv, PopulateInv
<1>5. LifeInv /\ Len(hooks) \in Nat /\ DOMAIN hooks = 1..Len(hooks)
  BY DEF IInv, TypeInv
<1>6. \A i : OnStop(i)' <=> OnStop(i)
  BY <1>1 DEF OnStop
<1>7. LifeInv'
  <2>1. CASE Start
    BY <1>1, <1>5, <2>1 DEF Start, LifeInv
  <2>2. CASE StartHook
    BY SMTT(20), <1>1, <1>5, <2>2 DEF StartHook, LifeInv
  <2>3. CASE StartHookFails
    <3>1. ~done => \A i \in DOMAIN hooks : hooks[i].name = "repo" => i < numStarted + 1
      <4> SUFFICES ASSUME ~done
                   PROVE  \A i \in DOMAIN hooks : hooks[i].name = "repo" => i < numStarted + 1
        OBVIOUS
      <4>1. numStarted + 1 \in DOMAIN hooks /\ hooks[numStarted + 1].hook \in {"start", "both"}
        BY SMTT(20), <1>5, <2>3 DEF StartHookFails, LifeInv
      <4> QED BY <4>1, StartsAfterRepo
    <3> QED BY SMTT(20), <1>1, <1>5, <2>3, <3>1 DEF StartHookFails, LifeInv
  <2>4. CASE Started
    BY <1>1, <1>5, <2>4 DEF Started, LifeInv
  <2>5. CASE Stop
    BY <1>1, <1>5, <2>5 DEF Stop, LifeInv
  <2>6. CASE StopHook
    <3>1. /\ phase' = phase /\ phase \in {"stopping", "rollback"} /\ numStarted > 0
          /\ done' = done
          /\ numStarted' = numStarted - 1
          /\ stopped' = IF OnStop(numStarted) THEN stopped \cup {hooks[numStarted].name}
                        ELSE stopped
      BY <2>6, Zenon DEF StopHook, OnStop
    <3>2. numStarted \in DOMAIN hooks /\ numStarted' \in 0..Len(hooks)
      <4>1. numStarted \in 0..Len(hooks)
        BY <1>5, Zenon DEF LifeInv
      <4>2. numStarted > 0 /\ Len(hooks) \in Nat /\ DOMAIN hooks = 1..Len(hooks)
        BY <1>5, <3>1
      <4> QED BY <3>1, <4>1, <4>2
    <3>3. \A n \in stopped' : \E i \in DOMAIN hooks : hooks[i].name = n /\ i > numStarted'
      BY <1>5, <3>1, <3>2 DEF LifeInv
    <3>4. phase = "stopping" =>
            \A i \in DOMAIN hooks : i > numStarted' /\ OnStop(i) => hooks[i].name \in stopped'
      BY <1>5, <3>1, <3>2 DEF LifeInv
    <3>5. phase = "rollback" /\ ~done =>
            \A i \in DOMAIN hooks :
              i > numStarted' /\ hooks[i].name = "repo" => "repo" \in stopped'
      <4>1. hooks[numStarted].name = "repo" => OnStop(numStarted)
        <5>1. hooks[numStarted] \in App
          BY <3>2 DEF IInv, TypeInv
        <5> QED BY <5>1, AppStatic DEF Static, OnStop
      <4> QED BY <1>5, <3>1, <3>2, <4>1 DEF LifeInv
    <3> QED BY <1>1, <1>6, <3>1, <3>2, <3>3, <3>4, <3>5 DEF LifeInv
  <2>7. CASE Stopped
    BY <1>1, <1>5, <1>6, <2>7 DEF Stopped, LifeInv
  <2>8. CASE CtxEnds
    BY <1>1, <1>5, <1>6, <2>8 DEF CtxEnds, LifeInv
  <2> QED BY <2>1, <2>2, <2>3, <2>4, <2>5, <2>6, <2>7, <2>8
<1> QED BY <1>3, <1>4, <1>7 DEF IInv

\* The next invocation is put on the empty stack.
LEMMA InvokeStep ==
  ASSUME IInv, Invoke
  PROVE  IInv'
<1> DEFINE c == Invocation[invoked + 1]
<1>1. /\ stack = <<>> /\ invoked < Len(Invocation) /\ stack' = <<c>> /\ invoked' = invoked + 1
      /\ UNCHANGED <<opts, phase, built, hooks, numStarted, stopped, dp, done>>
  BY DEF Invoke, Invocation
<1>2. App' = App /\ Invocation' = Invocation /\ (\A t : Providers(t)' = Providers(t))
      /\ \A n, m : Precedes(n, m)' <=> Precedes(n, m)
  BY <1>1, SameApp
<1>3. /\ invoked \in 0..Len(Invocation) /\ Len(Invocation) \in Nat
      /\ invoked + 1 \in 1..Len(Invocation)
  BY <1>1, InvocationFacts DEF IInv, TypeInv
<1>4. c \in Called(Keys(opts)) \cup {Cancel, Reporters, Populate}
  BY <1>3, InvocationFacts
<1>5. c \in App /\ c \in Invoked(Keys(opts))
  BY <1>4, CalledCtors DEF App
<1> HIDE DEF c
<1>6. TypeInv'
  BY <1>1, <1>2, <1>3, <1>5 DEF IInv, TypeInv
<1>7. StackInv'
  BY <1>1, <1>2, <1>3 DEF StackInv, c
<1>8. Closed'
  BY <1>1, <1>2 DEF IInv, Closed
<1>9. HookInv'
  BY <1>1, <1>2 DEF IInv, HookInv
<1>10. CancelInv'
  <2>1. c.name \notin {"NewMuxedListener", "grpc.New"}
    BY <1>5, NamesInvoked
  <2> QED BY <1>1, <1>2, <1>3, <2>1 DEF IInv, CancelInv
<1>11. PopulateInv'
  BY <1>1, <1>2 DEF IInv, PopulateInv
<1>12. LifeInv'
  BY <1>1 DEF IInv, LifeInv, OnStop
<1> QED BY <1>6, <1>7, <1>8, <1>9, <1>10, <1>11, <1>12 DEF IInv

\* Only the last element of the stack is an invocation, and only the last
\* invocation is Populate.
LEMMA PopulateLast ==
  ASSUME IInv, stack # <<>>, Head(stack).name = "Populate"
  PROVE  invoked = Len(Invocation)
<1>1. stack \in Seq(App) /\ Head(stack) = stack[1] /\ 1 \in DOMAIN stack /\ Len(stack) \in Nat
      /\ DOMAIN stack = 1..Len(stack)
  BY DEF IInv, TypeInv
<1>2. Populate.name = "Populate" /\ Populate \in Invoked(Keys(opts))
  BY DEF Populate, Ctor, Invoked
<1>3. stack[1] \notin Provided(Keys(opts))
  BY <1>1, <1>2, Apart
<1>4. Len(stack) = 1 /\ stack[1] = Invocation[invoked] /\ invoked \in 1..Len(Invocation)
  BY <1>1, <1>3 DEF IInv, StackInv, TypeInv
<1>5. ASSUME NEW i \in 1..(Len(Invocation) - 1) PROVE Invocation[i].name # "Populate"
  <2>1. Invocation[i] \in Called(Keys(opts)) \cup {Cancel, Reporters}
    BY InvocationFacts
  <2> QED BY SMTT(20), <2>1 DEF Called, Maybe, Cancel, Reporters, Ctor, NewMDNSDiscovery,
             NewP2PReporter, Bootstrapper, MetricsRegister, NewP2PClientAdvertiser,
             NewHTTPServer, Register, NewMesher, RegisterHTTP
<1> QED BY <1>1, <1>4, <1>5, InvocationFacts

\* A parameter's constructor is put on the stack.
LEMMA DemandStep ==
  ASSUME IInv, Demand
  PROVE  IInv'
<1> DEFINE h == Head(stack)
<1>1. PICK i \in DOMAIN h.needs : \E q \in Providers(h.needs[i]) :
        q.name \notin built /\ stack' = <<q>> \o stack
  BY Zenon DEF Demand
<1>2. PICK p \in Providers(h.needs[i]) : p.name \notin built /\ stack' = <<p>> \o stack
  BY <1>1, Zenon
<1>3. /\ stack # <<>>
      /\ UNCHANGED <<opts, phase, invoked, built, hooks, numStarted, stopped, dp, done>>
  BY DEF Demand
<1>4. App' = App /\ Invocation' = Invocation /\ (\A t : Providers(t)' = Providers(t))
      /\ \A n, m : Precedes(n, m)' <=> Precedes(n, m)
  BY <1>3, SameApp
<1>5. stack \in Seq(App) /\ h = stack[1] /\ 1 \in DOMAIN stack /\ Len(stack) \in Nat
      /\ Len(stack) > 0 /\ h \in App /\ DOMAIN stack = 1..Len(stack)
  BY <1>3 DEF IInv, TypeInv
<1>6. p \in Provided(Keys(opts)) /\ p \in App /\ Rank(p.name) < Rank(h.name)
  BY <1>5, RankDown
<1>7. /\ stack' \in Seq(App) /\ Len(stack') = Len(stack) + 1 /\ stack'[1] = p
      /\ \A m \in 1..Len(stack) : stack'[m + 1] = stack[m]
      /\ DOMAIN stack' = 1..(Len(stack) + 1)
      /\ \A m \in 2..(Len(stack) + 1) : m - 1 \in 1..Len(stack) /\ stack'[m] = stack[m - 1]
  BY <1>2, <1>5, <1>6
<1>8. TypeInv'
  BY <1>3, <1>4, <1>7 DEF IInv, TypeInv
<1>9. StackInv'
  <2>1. \A m \in DOMAIN stack : Rank(p.name) < Rank(stack[m].name)
    BY <1>5, <1>6, RankNat DEF IInv, StackInv
  <2>2. ASSUME NEW a \in DOMAIN stack', NEW b \in DOMAIN stack', a < b
        PROVE  Rank(stack'[a].name) < Rank(stack'[b].name)
    <3>1. b - 1 \in DOMAIN stack /\ stack'[b] = stack[b - 1]
      BY <1>5, <1>7, <2>2
    <3>2. CASE a = 1
      BY <1>7, <2>1, <3>1, <3>2
    <3>3. CASE a # 1
      <4>1. a - 1 \in DOMAIN stack /\ stack'[a] = stack[a - 1] /\ a - 1 < b - 1
        BY <1>5, <1>7, <2>2, <3>3
      <4> QED BY <3>1, <4>1 DEF IInv, StackInv
    <3> QED BY <3>2, <3>3
  <2>3. ASSUME NEW a \in DOMAIN stack', a < Len(stack')
        PROVE  stack'[a] \in Provided(Keys(opts)) /\ stack'[a].name \notin built
    BY SMTT(20), <1>2, <1>5, <1>6, <1>7, <2>3 DEF IInv, StackInv
  <2>4. stack' # <<>> /\ invoked > 0 /\ stack'[Len(stack')] = Invocation[invoked]
    BY SMTT(20), <1>3, <1>5, <1>7 DEF IInv, StackInv
  <2> QED BY <1>3, <1>4, <2>2, <2>3, <2>4 DEF StackInv
<1>10. Closed'
  BY <1>3, <1>4 DEF IInv, Closed
<1>11. HookInv'
  BY <1>3, <1>4 DEF IInv, HookInv
<1>12. CancelInv'
  <2> SUFFICES ASSUME "prom" \notin opts, invoked < Len(Invocation)
               PROVE  /\ built \cap {"NewMuxedListener", "grpc.New"} = {}
                      /\ \A m \in DOMAIN stack' :
                            stack'[m].name \notin {"NewMuxedListener", "grpc.New"}
    BY <1>3, <1>4 DEF CancelInv
  <2>1. /\ built \cap {"NewMuxedListener", "grpc.New"} = {}
        /\ \A m \in DOMAIN stack : stack[m].name \notin {"NewMuxedListener", "grpc.New"}
    BY DEF IInv, CancelInv
  <2>2. h.needs[i] \in p.gives /\ Static(h) /\ Static(p)
    BY <1>5, <1>6, AppStatic DEF Providers
  <2>3. h.name # "grpc.New"
    BY <1>5, <2>1
  <2>4. h.name # "Populate"
    BY <1>3, PopulateLast, InvocationFacts
  <2>5. h.name # "MetricsRegister"
    <3> SUFFICES ASSUME h.name = "MetricsRegister" PROVE FALSE
      OBVIOUS
    <3>1. MetricsRegister.name = "MetricsRegister" /\ MetricsRegister \in Invoked(Keys(opts))
      BY DEF MetricsRegister, Ctor, Invoked
    <3>2. h = MetricsRegister /\ MetricsRegister \notin Provided(Keys(opts))
      BY <1>5, <3>1, Unique, Apart DEF Ctors
    <3>3. h \in Called(Keys(opts)) \cup {Cancel, Reporters, Populate}
      BY <1>5, <3>2 DEF App
    <3>4. "UsePrometheus" \in Keys(opts)
      BY <3>2, <3>3 DEF Called, Maybe, Ctor, NewMDNSDiscovery, NewP2PReporter,
         Bootstrapper, MetricsRegister, NewP2PClientAdvertiser, NewHTTPServer,
         Register, NewMesher, RegisterHTTP, Cancel, Reporters, Populate
    <3> QED BY <3>4, KeyFacts DEF IInv, TypeInv
  <2>6. h.needs[i] \notin {"mux", "server"}
    BY <2>2, <2>3, <2>4, <2>5 DEF Static
  <2>7. ASSUME p.name \in {"NewMuxedListener", "grpc.New"} PROVE FALSE
    <3>1. p \in {NewMuxedListener, NewServer}
      <4>1. NewMuxedListener.name = "NewMuxedListener" /\ NewServer.name = "grpc.New"
        BY DEF NewMuxedListener, NewServer, Ctor
      <4>2. NewMuxedListener \in Ctors(Keys(opts)) /\ NewServer \in Ctors(Keys(opts))
        BY DEF Ctors, Transports
      <4>3. CASE p.name = "NewMuxedListener"
        BY <1>6, <4>1, <4>2, <4>3, Unique
      <4>4. CASE p.name = "grpc.New"
        BY <1>6, <4>1, <4>2, <4>4, Unique
      <4> QED BY <2>7, <4>3, <4>4
    <3>2. p.gives \subseteq {"mux", "server"}
      BY <3>1 DEF NewMuxedListener, NewServer, Ctor
    <3> QED BY <2>2, <2>6, <3>2
  <2>8. ASSUME NEW m \in DOMAIN stack'
        PROVE  stack'[m].name \notin {"NewMuxedListener", "grpc.New"}
    <3>1. CASE m = 1
      BY <1>7, <2>7, <3>1
    <3>2. CASE m # 1
      <4>1. m - 1 \in DOMAIN stack /\ stack'[m] = stack[m - 1]
        BY <1>5, <1>7, <3>2
      <4> QED BY <2>1, <4>1
    <3> QED BY <3>1, <3>2
  <2> QED BY <2>1, <2>8
<1>13. PopulateInv'
  BY <1>3, <1>4 DEF IInv, PopulateInv
<1>14. LifeInv'
  BY <1>3 DEF IInv, LifeInv, OnStop
<1> QED BY <1>8, <1>9, <1>10, <1>11, <1>12, <1>13, <1>14 DEF IInv

\* The constructors that the order of the hooks is about.
LEMMA Known ==
  ASSUME NEW c \in App
  PROVE  /\ c.name = "repo" => c = Repo
         /\ c.name = "NewTaskManager" => c = NewTaskManager
         /\ c.name = "Libp2p" => c = Libp2p
         /\ c.name = "NewMuxedListener" => c = NewMuxedListener
         /\ c.name = "grpc.New" => c = NewServer
         /\ c.name = "NewHTTPServer" => c = NewHTTPServer
         /\ c.name = "Bootstrapper" => c = Bootstrapper(Keys(opts))
         /\ c.name = "Populate" => c = Populate
<1>1. /\ Repo.name = "repo" /\ NewTaskManager.name = "NewTaskManager"
      /\ Libp2p.name = "Libp2p" /\ NewMuxedListener.name = "NewMuxedListener"
      /\ NewServer.name = "grpc.New" /\ NewHTTPServer.name = "NewHTTPServer"
      /\ Bootstrapper(Keys(opts)).name = "Bootstrapper" /\ Populate.name = "Populate"
  BY DEF Repo, NewTaskManager, Libp2p, NewMuxedListener, NewServer, NewHTTPServer,
     Bootstrapper, Populate, Ctor
<1>2. {Repo, NewTaskManager, Libp2p, NewMuxedListener, NewServer, NewHTTPServer,
       Bootstrapper(Keys(opts)), Populate} \subseteq Ctors(Keys(opts))
  BY DEF Ctors, Core, P2PCtors, Transports, Invoked
<1>3. ASSUME NEW d \in Ctors(Keys(opts)) PROVE c.name = d.name => c = d
  BY Unique
<1> QED BY <1>1, <1>2, <1>3

\* Who built a constructor has built the providers of its parameters.
LEMMA BuiltNeeds ==
  ASSUME IInv, NEW c \in App, c.name \in built, NEW i \in DOMAIN c.needs,
         NEW p \in Provided(Keys(opts)), c.needs[i] \in p.gives
  PROVE  p.name \in built
BY DEF IInv, Closed, Providers

\* The constructor on top of the stack is not built, unless it is an invocation.
LEMMA FreshHead ==
  ASSUME IInv, stack # <<>>
  PROVE  /\ Head(stack) \in App
         /\ Head(stack) \in Provided(Keys(opts)) => Head(stack).name \notin built
         /\ Head(stack) \notin Provided(Keys(opts)) =>
              Len(stack) = 1 /\ Head(stack) = Invocation[invoked] /\ invoked \in 1..Len(Invocation)
<1>1. stack \in Seq(App) /\ Head(stack) = stack[1] /\ 1 \in DOMAIN stack /\ Len(stack) \in Nat
      /\ DOMAIN stack = 1..Len(stack)
  BY DEF IInv, TypeInv
<1>2. invoked \in 1..Len(Invocation) /\ Len(Invocation) \in Nat
      /\ stack[Len(stack)] = Invocation[invoked]
  BY InvocationFacts DEF IInv, StackInv, TypeInv
<1>3. stack[Len(stack)] \in Invoked(Keys(opts))
  BY <1>2, InvocationFacts, CalledCtors
<1>4. stack[Len(stack)] \notin Provided(Keys(opts))
  BY <1>3, Apart
<1> QED BY <1>1, <1>2, <1>4 DEF IInv, StackInv

\* The repository is built before what needs the configuration.
LEMMA RepoBuilt ==
  ASSUME IInv, NEW c \in App, c.name \in built,
         c.name \in {"NewTaskManager", "Libp2p", "NewHTTPServer", "Bootstrapper"}
  PROVE  "repo" \in built
<1>1. c \in {NewTaskManager, Libp2p, NewHTTPServer, Bootstrapper(Keys(opts))}
  BY Known
<1>2. \E i \in DOMAIN c.needs : c.needs[i] = "config"
  BY <1>1 DEF NewTaskManager, Libp2p, NewHTTPServer, Bootstrapper, Ctor
<1>3. Repo \in Provided(Keys(opts)) /\ "config" \in Repo.gives /\ Repo.name = "repo"
  BY Included DEF Repo, Ctor
<1> QED BY <1>2, <1>3, BuiltNeeds

\* The task manager is built before the muxed listener.
LEMMA TaskManagerBuilt ==
  ASSUME IInv, NEW c \in App, c.name \in built, c.name = "NewMuxedListener"
  PROVE  /\ NewTaskManager \in App /\ NewTaskManager.name = "NewTaskManager"
         /\ "NewTaskManager" \in built
<1>1. c = NewMuxedListener
  BY Known
<1>2. 4 \in DOMAIN c.needs /\ c.needs[4] = "tm"
  BY <1>1 DEF NewMuxedListener, Ctor
<1>3. NewTaskManager \in Provided(Keys(opts)) /\ "tm" \in NewTaskManager.gives
      /\ NewTaskManager.name = "NewTaskManager"
  BY Included DEF NewTaskManager, Ctor
<1> QED BY <1>2, <1>3, BuiltNeeds DEF App

\* The muxed listener is built before the gRPC server.
LEMMA MuxBuilt ==
  ASSUME IInv, NEW c \in App, c.name \in built, c.name = "grpc.New"
  PROVE  /\ NewMuxedListener \in App /\ NewMuxedListener.name = "NewMuxedListener"
         /\ "NewMuxedListener" \in built
<1>1. c = NewServer
  BY Known
<1>2. 2 \in DOMAIN c.needs /\ c.needs[2] = "mux" /\ c.name = "grpc.New" /\ "server" \in c.gives
  BY <1>1 DEF NewServer, Ctor
<1>3. c \in Provided(Keys(opts))
  BY <1>2, NamesInvoked, CalledCtors DEF App
<1>4. "server" \in Types(Keys(opts))
  BY <1>2, <1>3, GivenTypes DEF Groups
<1>5. "UseGRPC" \in Keys(opts)
  BY <1>4 DEF Types, Maybe
<1>6. NewMuxedListener \in Provided(Keys(opts))
  BY <1>5, Included DEF GRPCModule, GRPCTransport
<1>7. "mux" \in NewMuxedListener.gives /\ NewMuxedListener.name = "NewMuxedListener"
  BY DEF NewMuxedListener, Ctor
<1> QED BY <1>2, <1>6, <1>7, BuiltNeeds DEF App

\* In a node with a p2p listener the host is built before the muxed listener.
LEMMA HostBuilt ==
  ASSUME IInv, NEW c \in App, c.name \in built, c.name = "NewMuxedListener",
         "p2pgrpc" \in opts, Libp2p \in App
  PROVE  "Libp2p" \in built
<1>1. c = NewMuxedListener
  BY Known
<1>2. 2 \in DOMAIN c.needs /\ c.needs[2] = "listener"
  BY <1>1 DEF NewMuxedListener, Ctor
<1>3. Libp2p.name = "Libp2p" /\ "mainHost" \in Libp2p.gives
  BY DEF Libp2p, Ctor
<1>4. Libp2p \in Provided(Keys(opts))
  BY <1>3, NamesInvoked, CalledCtors DEF App
<1>5. "mainHost" \in Types(Keys(opts))
  BY <1>3, <1>4, GivenTypes DEF Groups
<1>6. "UseP2P" \in Keys(opts)
  BY <1>5 DEF Types, Maybe
<1>7. "UseP2PGRPC" \in Keys(opts) /\ "UseGRPC" \in Keys(opts)
  BY KeyFacts DEF IInv, TypeInv, Transport
<1>8. NewP2PListener \in Provided(Keys(opts))
  BY <1>6, <1>7, Included DEF GRPCModule, GRPCTransport, Maybe
<1>9. /\ NewP2PListener.name = "NewP2PListener" /\ "listener" \in NewP2PListener.gives
      /\ 1 \in DOMAIN NewP2PListener.needs /\ NewP2PListener.needs[1] = "mainHost"
  BY DEF NewP2PListener, Ctor
<1>10. "NewP2PListener" \in built /\ NewP2PListener \in App
  BY <1>2, <1>8, <1>9, BuiltNeeds DEF App
<1> QED BY <1>3, <1>4, <1>9, <1>10, BuiltNeeds

\* No hook is appended after one that it must precede.
LEMMA InOrder ==
  ASSUME IInv, stack # <<>>, NEW j \in DOMAIN hooks,
         Precedes(Head(stack).name, hooks[j].name)
  PROVE  FALSE
<1> DEFINE c == Head(stack)
           d == hooks[j]
<1>1. d \in App /\ d.name \in built
  BY DEF IInv, TypeInv, HookInv
<1>2. /\ c \in App
      /\ c \in Provided(Keys(opts)) => c.name \notin built
      /\ c \notin Provided(Keys(opts)) =>
           c = Invocation[invoked] /\ invoked \in 1..Len(Invocation)
  BY FreshHead
<1>3. ASSUME c.name \in {"NewMuxedListener", "NewTaskManager", "Libp2p", "repo"}
      PROVE  c.name \notin built
  <2>1. c \in Provided(Keys(opts))
    BY <1>2, <1>3, NamesInvoked, CalledCtors DEF App
  <2> QED BY <1>2, <2>1
<1>4. Precedes(c.name, d.name)
  OBVIOUS
<1> HIDE DEF c, d
<1>5. CASE c.name = "NewMuxedListener" /\ d.name = "grpc.New"
  BY <1>1, <1>3, <1>5, MuxBuilt
<1>6. CASE c.name = "NewTaskManager" /\ d.name = "NewMuxedListener"
  BY <1>1, <1>3, <1>6, TaskManagerBuilt
<1>7. CASE c.name = "Libp2p" /\ d.name = "NewMuxedListener" /\ "p2pgrpc" \in opts
  <2>1. Libp2p \in App
    BY <1>2, <1>7, Known
  <2> QED BY <1>1, <1>3, <1>7, <2>1, HostBuilt
<1>8. CASE c.name = "repo" /\ d.name \in {"NewMuxedListener", "grpc.New", "NewHTTPServer",
                                          "Bootstrapper", "NewTaskManager", "Libp2p"}
  <2>1. CASE d.name \in {"NewTaskManager", "Libp2p", "NewHTTPServer", "Bootstrapper"}
    BY <1>1, <1>3, <1>8, <2>1, RepoBuilt
  <2>2. ASSUME NEW e \in App, e.name \in built, e.name = "NewMuxedListener" PROVE FALSE
    <3>1. NewTaskManager \in App /\ NewTaskManager.name = "NewTaskManager"
          /\ "NewTaskManager" \in built
      BY <2>2, TaskManagerBuilt
    <3>2. "repo" \in built
      BY <3>1, RepoBuilt
    <3> QED BY <1>3, <1>8, <3>2
  <2>3. CASE d.name = "NewMuxedListener"
    BY <1>1, <2>2, <2>3
  <2>4. CASE d.name = "grpc.New"
    BY <1>1, <2>2, <2>4, MuxBuilt
  <2> QED BY <1>8, <2>1, <2>3, <2>4
<1>9. CASE c.name = "cancel" /\ d.name = "NewMuxedListener" /\ "prom" \notin opts
  <2>1. c \notin Provided(Keys(opts))
    <3>1. Cancel \in Invoked(Keys(opts)) /\ Cancel.name = "cancel"
      BY DEF Invoked, Cancel, Ctor
    <3> QED BY <1>9, <3>1, Apart
  <2>2. invoked \in 1..Len(Invocation) /\ invoked # Len(Invocation)
    <3>1. Populate.name # "cancel"
      BY DEF Populate, Ctor
    <3> QED BY <1>2, <1>9, <2>1, <3>1, InvocationFacts
  <2>3. invoked < Len(Invocation)
    BY <2>2, InvocationFacts
  <2> QED BY <1>1, <1>9, <2>3 DEF IInv, CancelInv
<1> QED BY <1>4, <1>5, <1>6, <1>7, <1>8, <1>9 DEF Precedes

\* A constructor runs.
LEMMA ConstructStep ==
  ASSUME IInv, Construct
  PROVE  IInv'
<1> DEFINE c == Head(stack)
<1>1. /\ phase = "new" /\ stack # <<>> /\ built' = built \cup {c.name} /\ stack' = Tail(stack)
      /\ hooks' = IF c.hook = "none" THEN hooks ELSE Append(hooks, c)
      /\ UNCHANGED <<opts, phase, invoked, numStarted, stopped, done>>
  BY DEF Construct
<1>2. /\ App' = App /\ Invocation' = Invocation /\ (\A t : Providers(t)' = Providers(t))
      /\ \A n, m : Precedes(n, m)' <=> Precedes(n, m)
  BY <1>1, SameApp
<1>3. /\ stack \in Seq(App) /\ c = stack[1] /\ Len(stack) \in Nat /\ Len(stack) > 0
      /\ DOMAIN stack = 1..Len(stack) /\ c \in App
  BY <1>1 DEF IInv, TypeInv
<1>4. /\ stack' \in Seq(App) /\ Len(stack') = Len(stack) - 1
      /\ DOMAIN stack' = 1..(Len(stack) - 1)
      /\ \A m \in DOMAIN stack' : m + 1 \in DOMAIN stack /\ stack'[m] = stack[m + 1]
  BY <1>1, <1>3
<1>5. \A i \in DOMAIN c.needs : \A p \in Providers(c.needs[i]) : p.name \in built
  <2> SUFFICES ASSUME NEW i \in DOMAIN c.needs, NEW p \in Providers(c.needs[i])
               PROVE  p.name \in built
    OBVIOUS
  <2>1. Resolved(c, c.needs[i])
    BY DEF Construct
  <2>2. ~Missing(p)
    BY <1>3, RankDown, NeverMissing
  <2> QED BY <2>1, <2>2 DEF Resolved
<1>6. /\ hooks \in Seq(App) /\ Len(hooks) \in Nat /\ DOMAIN hooks = 1..Len(hooks)
      /\ hooks' \in Seq(App) /\ DOMAIN hooks' = 1..Len(hooks')
      /\ \A m \in DOMAIN hooks : m \in DOMAIN hooks' /\ hooks'[m] = hooks[m]
      /\ \A m \in DOMAIN hooks' : m \in DOMAIN hooks \/ (m = Len(hooks) + 1 /\ hooks'[m] = c)
      /\ c.hook # "none" => Len(hooks) + 1 \in DOMAIN hooks' /\ hooks'[Len(hooks) + 1] = c
  <2>1. hooks \in Seq(App)
    BY DEF IInv, TypeInv
  <2>2. CASE c.hook = "none"
    <3>1. hooks' = hooks
      BY <1>1, <2>2
    <3> QED BY <2>1, <2>2, <3>1
  <2>3. CASE c.hook # "none"
    <3>1. hooks' = Append(hooks, c)
      BY <1>1, <2>3
    <3> HIDE DEF c
    <3> QED BY <1>3, <2>1, <2>3, <3>1
  <2> QED BY <2>2, <2>3
<1>7. TypeInv'
  BY <1>1, <1>2, <1>4, <1>6 DEF IInv, TypeInv
<1>8. Closed'
  <2> SUFFICES ASSUME NEW d \in App, d.name \in built',
                      NEW i \in DOMAIN d.needs, NEW p \in Providers(d.needs[i])
               PROVE  p.name \in built'
    BY <1>2 DEF Closed
  <2>1. CASE d.name \in built
    BY <1>1, <2>1 DEF IInv, Closed
  <2>2. CASE d.name = c.name
    <3>1. d = c
      BY <1>3, <2>2, Unique, AppStatic
    <3> QED BY <1>1, <1>5, <3>1
  <2> QED BY <1>1, <2>1, <2>2
<1>9. StackInv'
  <2>1. \A a, b \in DOMAIN stack' : a < b => Rank(stack'[a].name) < Rank(stack'[b].name)
    BY <1>3, <1>4 DEF IInv, StackInv
  <2>2. ASSUME NEW a \in DOMAIN stack', a < Len(stack')
        PROVE  stack'[a] \in Provided(Keys(opts)) /\ stack'[a].name \notin built'
    <3>1. a + 1 \in DOMAIN stack /\ a + 1 < Len(stack) /\ stack'[a] = stack[a + 1] /\ 1 < a + 1
      BY <1>3, <1>4, <2>2
    <3>2. stack[a + 1] \in Provided(Keys(opts)) /\ stack[a + 1].name \notin built
      BY <3>1 DEF IInv, StackInv
    <3>3. Rank(c.name) < Rank(stack[a + 1].name)
      BY <1>3, <3>1 DEF IInv, StackInv
    <3>4. stack[a + 1].name # c.name
      BY <3>3, RankNat
    <3> QED BY <1>1, <3>1, <3>2, <3>4
  <2>3. stack' # <<>> => invoked > 0 /\ stack'[Len(stack')] = Invocation[invoked]
    BY <1>1, <1>3, <1>4 DEF IInv, StackInv
  <2>4. stack' = <<>> => Invocation[invoked].name \in built'
    <3>1. ASSUME stack' = <<>> PROVE Len(stack) = 1
      <4>1. Len(stack') = 0
        BY <3>1
      <4>2. Len(stack') = Len(stack) - 1 /\ Len(stack) \in Nat
        BY <1>3, <1>4
      <4> QED BY <4>1, <4>2
    <3>2. stack[Len(stack)] = Invocation[invoked]
      BY <1>1 DEF IInv, StackInv
    <3> QED BY <1>1, <1>3, <3>1, <3>2
  <2> QED BY <1>1, <1>2, <2>1, <2>2, <2>3, <2>4 DEF StackInv
<1>10. HookInv'
  <2>1. \A m \in DOMAIN hooks' : hooks'[m].name \in built'
    BY <1>1, <1>6 DEF IInv, HookInv
  <2>2. "repo" \in built' => \E m \in DOMAIN hooks' : hooks'[m].name = "repo"
    <3>1. CASE "repo" \in built
      BY <1>6, <3>1 DEF IInv, HookInv
    <3>2. CASE c.name = "repo"
      <4>1. c.hook # "none"
        BY <1>3, <3>2, AppStatic DEF Static
      <4> QED BY <1>6, <3>2, <4>1
    <3> QED BY <1>1, <3>1, <3>2
  <2>3. ASSUME NEW a \in DOMAIN hooks', NEW b \in DOMAIN hooks',
               Precedes(hooks'[a].name, hooks'[b].name)
        PROVE  a < b
    <3>1. CASE a \in DOMAIN hooks /\ b \in DOMAIN hooks
      BY <1>6, <2>3, <3>1 DEF IInv, HookInv
    <3>2. CASE a \in DOMAIN hooks /\ b \notin DOMAIN hooks
      BY <1>6, <3>2
    <3>3. CASE a \notin DOMAIN hooks /\ b \in DOMAIN hooks
      BY <1>1, <1>6, <2>3, <3>3, InOrder
    <3>4. CASE a \notin DOMAIN hooks /\ b \notin DOMAIN hooks
      <4>1. Precedes(c.name, c.name)
        BY <1>6, <2>3, <3>4
      <4> QED BY <4>1 DEF Precedes
    <3> QED BY <3>1, <3>2, <3>3, <3>4
  <2> QED BY <1>2, <2>1, <2>2, <2>3 DEF HookInv
<1>11. CancelInv'
  <2> SUFFICES ASSUME "prom" \notin opts, invoked < Len(Invocation)
               PROVE  /\ built' \cap {"NewMuxedListener", "grpc.New"} = {}
                      /\ \A m \in DOMAIN stack' :
                            stack'[m].name \notin {"NewMuxedListener", "grpc.New"}
    BY <1>1, <1>2 DEF CancelInv
  <2>1. /\ built \cap {"NewMuxedListener", "grpc.New"} = {}
        /\ \A m \in DOMAIN stack : stack[m].name \notin {"NewMuxedListener", "grpc.New"}
    BY DEF IInv, CancelInv
  <2> QED BY <1>1, <1>3, <1>4, <2>1
<1>12. PopulateInv'
  <2>1. CASE c.name = "Populate"
    <3>1. c = Populate
      BY <1>3, <2>1, Known
    <3>2. c.needs = deps
      BY <3>1 DEF Populate, Ctor
    <3>3. dp' = {t \in Range(deps) : \E p \in Providers(t) : p.name \in built}
      BY <2>1, Zenon DEF Construct
    <3>4. \A t \in Range(deps) : \A p \in Providers(t) : p.name \in built
      BY <1>5, <3>2 DEF Range
    <3>5. ASSUME NEW t \in Range(deps)
          PROVE  (\E p \in Providers(t) : p.name \in built) <=> Providers(t) # {}
      BY <3>4
    <3>6. dp' = {t \in Range(deps) : Providers(t) # {}}
      BY <3>3, <3>5
    <3> QED BY <1>1, <1>2, <3>6 DEF PopulateInv
  <2>2. CASE c.name # "Populate"
    <3>1. dp' = dp /\ ("Populate" \in built' <=> "Populate" \in built)
      BY <1>1, <2>2 DEF Construct
    <3> QED BY <1>1, <1>2, <3>1 DEF IInv, PopulateInv
  <2> QED BY <2>1, <2>2
<1>13. LifeInv'
  <2>1. numStarted = 0 /\ stopped = {} /\ Len(hooks') \in Nat
    BY <1>1, <1>6 DEF IInv, LifeInv
  <2> QED BY <1>1, <2>1 DEF LifeInv
<1> QED BY <1>7, <1>8, <1>9, <1>10, <1>11, <1>12, <1>13 DEF IInv

\* The invariant holds in every reachable state, for every combination of options.
THEOREM Invariance == Spec => []IInv
<1>1. ASSUME IInv, [Next]_vars PROVE IInv'
  <2>1. CASE UNCHANGED vars
    <3>1. UNCHANGED <<opts, invoked, stack, built, hooks, dp, phase, numStarted, stopped,
                     done>>
      BY <2>1 DEF vars
    <3>2. TypeInv' /\ StackInv' /\ Closed' /\ HookInv' /\ CancelInv'
      <4>1. phase' \in {"new", "failed", "built", "starting", "running", "stopping", "stopped",
                        "rollback", "startfailed"}
        BY <1>1, <3>1 DEF IInv, TypeInv
      <4> QED BY <1>1, <3>1, <4>1, Kept
    <3>3. PopulateInv'
      BY <1>1, <3>1, SameApp DEF IInv, PopulateInv
    <3>4. LifeInv'
      BY <1>1, <3>1 DEF IInv, LifeInv, OnStop
    <3> QED BY <3>2, <3>3, <3>4 DEF IInv
  <2>2. CASE Next
    BY <1>1, <2>2, InvokeStep, DemandStep, ConstructStep, NewEnds, LifeStep DEF Next
  <2> QED BY <1>1, <2>1, <2>2
<1> QED BY <1>1, InitIInv, PTL DEF Spec

\* Whatever options are combined, New never fails because a constructor lacks a
\* parameter or because a type is provided twice.
THEOREM NewIsComplete == Spec => []AssemblyComplete
<1>1. ASSUME IInv PROVE AssemblyComplete
  BY <1>1, FreshHead, NotAmbiguous, NeverMissing DEF AssemblyComplete
<1> QED BY <1>1, Invariance, PTL

\* What Populate takes.
LEMMA PopulatedTypes ==
  ASSUME IInv, phase \notin {"new", "failed"}, NEW t \in Range(deps)
  PROVE  t \in dp <=> t \in Types(Keys(opts))
<1>1. dp = {u \in Range(deps) : Providers(u) # {}}
  BY DEF IInv, PopulateInv
<1>2. t \notin Groups
  BY DEF Range, deps, Groups
<1>3. Providers(t) # {} => t \in Types(Keys(opts))
  BY <1>2, GivenTypes DEF Providers
<1>4. t \in Types(Keys(opts)) => Providers(t) # {}
  BY TypesGiven DEF Providers
<1> QED BY <1>1, <1>3, <1>4

\* For every combination of options, the getters of a built service answer exactly
\* for the subsystems that the options ask for.
THEOREM OptionsAreReachable == Spec => []OptionsReachable
<1>1. ASSUME IInv PROVE OptionsReachable
  <2> SUFFICES ASSUME phase \notin {"new", "failed"} PROVE OptionsReachable
    BY DEF OptionsReachable
  <2> DEFINE k == Keys(opts)
  <2>1. \A t \in {deps[i] : i \in DOMAIN deps} : t \in dp <=> t \in Types(k)
    BY <1>1, PopulatedTypes DEF Range
  <2>2. \A t \in {"repo", "acl", "tm", "locker", "server", "httpMux", "mainHost", "routing",
                  "peer", "pubsub", "discovery", "jwt", "events", "protocols", "p2pClientSvc",
                  "staticClientSvc", "sharedStore", "tracer", "registry"} :
          t \in {deps[i] : i \in DOMAIN deps}
    BY DEF deps
  <2>3. \A t \in {"repo", "acl", "tm", "locker", "server", "httpMux", "mainHost", "routing",
                  "peer", "pubsub", "discovery", "jwt", "events", "protocols", "p2pClientSvc",
                  "staticClientSvc", "sharedStore", "tracer", "registry"} :
          t \in dp <=> t \in Types(k)
    BY <2>1, <2>2
  <2>4. opts \in OptionSets
    BY <1>1 DEF IInv, TypeInv
  <2>5. /\ {"repo", "tm"} \subseteq dp
        /\ P2P <=> "p2p" \in opts
        /\ Protocols <=> "p2p" \in opts
        /\ Events <=> "p2p" \in opts
        /\ SharedStorage <=> "p2p" \in opts
        /\ Files <=> {"p2p", "files"} \subseteq opts
    BY <2>3, <2>4, KeyFacts DEF Types, Maybe, P2P, Protocols, Events, SharedStorage,
       Files
  <2>6. /\ Auth <=> "auth" \in opts
        /\ GRPC <=> opts \cap Transport # {}
        /\ ClientAvailable <=> GRPC /\ opts \cap {"p2p", "static"} # {}
    BY <2>3, <2>4, KeyFacts DEF Types, Maybe, Auth, GRPC, ClientAvailable
  <2>7. /\ HTTP <=> "http" \in opts
        /\ Locker <=> "locker" \in opts
        /\ TracingAvailable <=> "tracing" \in opts
        /\ Metrics <=> "prom" \in opts
    BY <2>3, <2>4, KeyFacts DEF Types, Maybe, HTTP, Locker, TracingAvailable,
       Metrics
  <2> QED BY <2>5, <2>6, <2>7 DEF OptionsReachable
<1> QED BY <1>1, Invariance, PTL

\* For every combination of options, and whichever hook fails, a failed Start and a
\* Stop close the repository unless their context ends, and a Stop runs every OnStop,
\* or those of the last hooks if its context ends.
THEOREM RepoIsReleased == Spec => []RepoReleased
<1>1. ASSUME IInv PROVE RepoReleased
  <2>1. ASSUME phase \in {"stopped", "startfailed"}, ~done PROVE "repo" \in stopped
    <3>1. "Populate" \in built
      BY <1>1, <2>1 DEF IInv, PopulateInv
    <3>2. /\ Populate \in App /\ Populate.name = "Populate"
          /\ 3 \in DOMAIN Populate.needs /\ Populate.needs[3] = "repo"
      BY DEF App, Populate, Ctor, deps
    <3>3. Repo \in Provided(Keys(opts)) /\ Repo.name = "repo" /\ "repo" \in Repo.gives
      BY Included DEF Repo, Ctor
    <3>4. "repo" \in built
      BY <1>1, <3>1, <3>2, <3>3, BuiltNeeds
    <3>5. PICK i \in DOMAIN hooks : hooks[i].name = "repo"
      BY <1>1, <3>4 DEF IInv, HookInv
    <3>6. hooks[i] \in App /\ i \in Nat /\ i > 0
      BY <1>1 DEF IInv, TypeInv
    <3>7. OnStop(i)
      BY <3>5, <3>6, AppStatic DEF Static, OnStop
    <3> QED BY <1>1, <2>1, <3>5, <3>6, <3>7 DEF IInv, LifeInv
  <2>2. ASSUME phase = "stopped", NEW i \in DOMAIN hooks, ~done \/ i > numStarted,
               hooks[i].hook \in {"stop", "both"}
        PROVE  hooks[i].name \in stopped
    <3>1. i \in Nat /\ i > 0
      BY <1>1 DEF IInv, TypeInv
    <3> QED BY <1>1, <2>2, <3>1 DEF IInv, LifeInv, OnStop
  <2> QED BY <2>1, <2>2 DEF RepoReleased
<1> QED BY <1>1, Invariance, PTL

\* For every combination of options and every point of Stop or of a rollback, what the
\* gRPC server and the mux rely on is stopped after them.
THEOREM LayersStopInOrder == Spec => []StopsInLayers
<1>1. ASSUME IInv PROVE StopsInLayers
  <2>1. ASSUME NEW n \in stopped, NEW m, Precedes(n, m) PROVE ~Live(m)
    <3> SUFFICES ASSUME NEW j \in 1..numStarted, hooks[j].name = m PROVE FALSE
      BY DEF Live
    <3>1. PICK i \in DOMAIN hooks : hooks[i].name = n /\ i > numStarted
      BY <1>1 DEF IInv, LifeInv
    <3>2. /\ numStarted \in 0..Len(hooks) /\ Len(hooks) \in Nat
          /\ DOMAIN hooks = 1..Len(hooks)
      BY <1>1 DEF IInv, LifeInv, TypeInv
    <3>3. j \in DOMAIN hooks
      BY <3>2
    <3>4. i < j
      BY <1>1, <2>1, <3>1, <3>3 DEF IInv, HookInv
    <3> QED BY <3>1, <3>2, <3>4
  <2> QED BY <2>1 DEF StopsInLayers, Precedes
<1> QED BY <1>1, Invariance, PTL
=============================================================================
