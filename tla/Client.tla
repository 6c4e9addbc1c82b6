------------------------------- MODULE Client -------------------------------
(***************************************************************************)
(* A connection to a service by its name: Client of modules/node/node.go,   *)
(* the static and the p2p Get of modules/grpc/client/client.go and the      *)
(* dialers they give to gRPC.                                               *)
(*                                                                         *)
(* One call; it interleaves with the goroutine of FindPeers that sends the  *)
(* peers (external: a peer is found once, the channel is closed at the end, *)
(* a cancelled context ends it), with the end of the caller's context and   *)
(* with gRPC, which dials in the background of a returned connection.       *)
(***************************************************************************)
EXTENDS Naturals, FiniteSets

CONSTANTS Peer, None

ASSUME ClientAssumption ==
  None \notin Peer \cup {"static", "self", "not configured", "no address", "dial",
                        "find", "ctx", "no peer"}

\* What the configuration says of the service: the static client is not there
\* ("nil"), has no address for it ("none"), or has an IP address, one with a
\* port, or a socket's path.
\* Only a p2p client knows the node's own services.
Config == {c \in [static : {"nil", "none", "ip", "ipport", "sock"}, p2p : BOOLEAN,
                  local : BOOLEAN] : c.local => c.p2p}

VARIABLES
  cfg,
  pc,       \* "start", "static", "p2p", "recv", "connect", "done"
  ctx,      \* "live" or "done": the caller's context
  finder,   \* the goroutine of FindPeers: "off", "search", "send", "ended";
            \* it closes its channel when it ends
  cancel,   \* cCancel has been called
  offer,    \* the peer it sends
  cur,      \* the peer that Get has received
  found,    \* peers that have been found
  down,     \* peers that Connect failed for
  serr,     \* err of Client: what the static Get returned
  perr,     \* what the p2p Get returned
  conn,     \* the target of the connection
  err,      \* the error that Client returns
  dialer,   \* the static dialer that gRPC calls: "off", "wait", or what it returned
  sock      \* its goroutine: "off", "dial", or the outcome of net.Dial

clientVars == <<cfg, pc, ctx, finder, cancel, offer, cur, found, down, serr, perr, conn, err,
          dialer, sock>>
search == <<finder, offer, found>>
peers == <<cur, down>>
result == <<serr, perr, conn, err>>
dial == <<dialer, sock>>

ClientInit ==
  /\ cfg \in Config /\ pc = "start" /\ ctx = "live"
  /\ finder = "off" /\ cancel = FALSE /\ offer = None /\ cur = None
  /\ found = {} /\ down = {}
  /\ serr = None /\ perr = None /\ conn = None /\ err = None
  /\ dialer = "off" /\ sock = "off"

Return(c, e) == pc' = "done" /\ conn' = c /\ err' = e

-----------------------------------------------------------------------------
(* Client *)

Start ==
  /\ pc = "start"
  /\ IF cfg.static = "nil" /\ ~cfg.p2p THEN Return(None, "not configured")
     ELSE /\ pc' = IF cfg.static # "nil" THEN "static" ELSE "p2p"
          /\ UNCHANGED <<conn, err>>
  /\ UNCHANGED <<cfg, ctx, search, cancel, peers, serr, perr, dial>>

\* The static Get fails: no address, or gRPC refuses the options.
StaticFails ==
  /\ pc = "static"
  /\ serr' = IF cfg.static = "none" THEN "no address" ELSE "dial"
  /\ IF cfg.p2p THEN pc' = "p2p" /\ UNCHANGED <<conn, err>>
     ELSE Return(None, serr')
  /\ UNCHANGED <<cfg, ctx, search, cancel, peers, perr, dial>>

StaticGet ==
  /\ pc = "static" /\ cfg.static # "none"
  /\ Return("static", None)
  /\ UNCHANGED <<cfg, ctx, search, cancel, peers, serr, perr, dial>>

\* Mutation of P2PReturns: err is assigned only when the p2p Get succeeds.
P2PReturnsNil(c, e) ==
  /\ perr' = e /\ Return(c, None) /\ UNCHANGED serr

\* The p2p Get returns.  Its error goes to a variable of the if block: Client
\* returns the err of the static Get.
P2PReturns(c, e) ==
  /\ perr' = e /\ Return(c, IF c = None THEN serr ELSE None) /\ UNCHANGED serr

-----------------------------------------------------------------------------
(* clientImpl.Get *)

\* The node's own service is dialed on its own host.
GetLocal ==
  /\ pc = "p2p" /\ cfg.local
  /\ P2PReturns("self", None) \/ P2PReturns(None, "dial")
  /\ UNCHANGED <<cfg, ctx, search, cancel, peers, dial>>

FindPeers ==
  /\ pc = "p2p" /\ ~cfg.local
  /\ pc' = "recv" /\ finder' = "search"
  /\ UNCHANGED <<cfg, ctx, offer, found, cancel, peers, result, dial>>

FindPeersFails ==
  /\ pc = "p2p" /\ ~cfg.local
  /\ P2PReturns(None, "find") /\ cancel' = TRUE
  /\ UNCHANGED <<cfg, ctx, search, peers, dial>>

\* Mutation of Leave: nothing is deferred.
LeaveOpen(c, e) ==
  /\ P2PReturns(c, e)
  /\ UNCHANGED <<cfg, ctx, search, cancel, peers, dial>>

\* Get returns from its loop, and the deferred cCancel runs.
Leave(c, e) ==
  /\ P2PReturns(c, e) /\ cancel' = TRUE
  /\ UNCHANGED <<cfg, ctx, search, peers, dial>>

CtxDone == pc = "recv" /\ ctx = "done" /\ Leave(None, "ctx")

Receive ==
  /\ pc = "recv" /\ finder = "send"
  /\ pc' = "connect" /\ finder' = "search" /\ cur' = offer
  /\ UNCHANGED <<cfg, ctx, offer, found, cancel, down, result, dial>>

NoMore == pc = "recv" /\ finder = "ended" /\ Leave(None, "no peer")

\* Mutation of ConnectFails: the first failure ends the search.
ConnectFailsReturns == pc = "connect" /\ Leave(None, "no peer")

\* Connect fails, for the peer or because of the context.
ConnectFails ==
  /\ pc = "connect" /\ pc' = "recv"
  /\ down' = down \cup {cur}
  /\ UNCHANGED <<cfg, ctx, search, cancel, cur, result, dial>>

\* Connect succeeds, and gRPC makes a connection for the peer or refuses.
Connect == pc = "connect" /\ (Leave(cur, None) \/ Leave(None, "dial"))

-----------------------------------------------------------------------------
(* FindPeers of the discovery service, and the caller's context *)

Find ==
  /\ finder = "search"
  /\ \E p \in Peer \ found :
       offer' = p /\ found' = found \cup {p} /\ finder' = "send"
  /\ UNCHANGED <<cfg, pc, ctx, cancel, peers, result, dial>>

\* It has found all it can, or the context that Get gave it has ended.
FindEnds ==
  /\ finder = "search" \/ (finder = "send" /\ (cancel \/ ctx = "done"))
  /\ finder' = "ended"
  /\ UNCHANGED <<cfg, pc, ctx, cancel, offer, found, peers, result, dial>>

EndCtx ==
  /\ ctx = "live" /\ ctx' = "done"
  /\ UNCHANGED <<cfg, pc, search, cancel, peers, result, dial>>

-----------------------------------------------------------------------------
(* The dialer of the static Get, which gRPC calls for a returned connection *)

CallDialer ==
  /\ conn = "static" /\ dialer = "off"
  /\ dialer' = "wait" /\ sock' = "dial"
  /\ UNCHANGED <<cfg, pc, ctx, search, cancel, peers, result>>

\* net.ParseIP takes no port, and net.Dial over tcp needs one; any other address
\* must be the path of a file.
Outcomes(addr) ==
  CASE addr = "ip"     -> {"no port"}
    [] addr = "ipport" -> {"not supported"}
    [] addr = "sock"   -> {"open", "refused"}

Dialed ==
  /\ sock = "dial"
  /\ sock' \in Outcomes(cfg.static)
  /\ UNCHANGED <<cfg, pc, ctx, search, cancel, peers, result, dialer>>

DialerReturns ==
  /\ dialer = "wait" /\ sock # "dial"
  /\ dialer' = sock
  /\ UNCHANGED <<cfg, pc, ctx, search, cancel, peers, result, sock>>

\* The context that gRPC dials with ends; the goroutine goes on.
DialerCtxDone ==
  /\ dialer = "wait" /\ dialer' = "ctx"
  /\ UNCHANGED <<cfg, pc, ctx, search, cancel, peers, result, sock>>

-----------------------------------------------------------------------------

Get ==
  \/ GetLocal \/ FindPeers \/ FindPeersFails \/ CtxDone \/ Receive \/ NoMore
  \/ ConnectFails \/ Connect
Call == Start \/ StaticFails \/ StaticGet \/ Get
Finder == Find \/ FindEnds
Dialer == CallDialer \/ Dialed \/ DialerReturns \/ DialerCtxDone
ClientNext == Call \/ Finder \/ EndCtx \/ Dialer

ClientSpec == ClientInit /\ [][ClientNext]_clientVars

\* The caller's goroutine runs, and Connect returns.
ClientFair == WF_clientVars(Call)

\* FindPeers may search for as long as it likes, but notices the end of its
\* context.
FinderRuns == WF_clientVars((cancel \/ ctx = "done") /\ FindEnds)

-----------------------------------------------------------------------------
(* Properties *)

ClientTypeOK ==
  /\ cfg \in Config /\ ctx \in {"live", "done"} /\ cancel \in BOOLEAN
  /\ pc \in {"start", "static", "p2p", "recv", "connect", "done"}
  /\ finder \in {"off", "search", "send", "ended"}
  /\ offer \in Peer \cup {None} /\ cur \in Peer \cup {None}
  /\ found \in SUBSET Peer /\ down \in SUBSET found

\* Client returns neither connection nor error only where there is no static
\* client and the p2p Get failed: with a static client its error remains.
NothingOnlyWithoutStatic ==
  pc = "done" /\ conn = None /\ err = None => cfg.static = "nil" /\ perr # None

\* ErrNoPeerForSvc of the p2p Get means what it says: the search is over, and
\* Connect failed for every peer that was found, unless the context ended it.
NoPeerMeansNone ==
  perr = "no peer" => finder = "ended" /\ (found = down \/ ctx = "done")

\* A call returns after the end of its context, even if FindPeers hangs, and the
\* goroutine of FindPeers ends after the call that started it: it does not stay
\* blocked on a channel that nobody reads.
SearchReleased ==
  /\ ctx = "done" ~> pc = "done"
  /\ FinderRuns => (pc = "done" ~> finder \in {"off", "ended"})
=============================================================================
