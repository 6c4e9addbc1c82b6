---------------------------- MODULE LookupProofs ----------------------------
(***************************************************************************)
(* Looking up a service, for every set of peers, number of services,        *)
(* lifetime, retry and length of the calls (as long as two rounds fit in    *)
(* the eighth of the lifetime that the task keeps in hand): what a call of  *)
(* Client returns, that advertisements are renewed in time, and that a      *)
(* search which another node makes in between finds them.                   *)
(***************************************************************************)
EXTENDS Lookup, TLAPS

-----------------------------------------------------------------------------
(* A call of Client.  The inductive invariant accounts for each peer that was *)
(* found: it is on its way through the channel, in Get's hands, or Connect    *)
(* has failed for it.                                                         *)

\* The peers that Get has not given up.
Offered == IF finder = "send" THEN {offer} ELSE {}
Held == IF pc = "connect" THEN {cur} ELSE {}

\* While Get is in its loop the search is under way, no found peer is lost, and
\* cCancel has not run; before that nothing was found.
Searching ==
  /\ pc \in {"start", "static", "p2p"} => finder = "off" /\ found = {}
  /\ pc \in {"recv", "connect"} =>
       /\ finder # "off"
       /\ ctx = "done" \/ found \subseteq down \cup Offered \cup Held
  /\ pc # "done" => ~cancel
  /\ Offered \cup Held \subseteq found

\* The static Get has failed before the p2p Get is tried, and err says so.
Errors ==
  /\ pc = "static" => cfg.static # "nil"
  /\ pc \in {"p2p", "recv", "connect"} /\ cfg.static # "nil" => serr # None
  /\ pc # "done" => perr = None

CallInv ==
  /\ ClientTypeOK /\ Searching /\ Errors
  /\ NothingOnlyWithoutStatic /\ NoPeerMeansNone

\* Before the call nothing is searched, found or returned.
LEMMA CallInit == ClientInit => CallInv
<1> SUFFICES ASSUME ClientInit PROVE CallInv
  OBVIOUS
<1>1. ClientTypeOK
  BY DEF ClientInit, ClientTypeOK
<1>2. perr # "no peer"
  BY ClientAssumption DEF ClientInit
<1> QED BY <1>1, <1>2 DEF ClientInit, CallInv, Searching, Errors, Offered, Held,
           NothingOnlyWithoutStatic, NoPeerMeansNone

\* The steps of Client around the p2p Get.
LEMMA ClientStep ==
  ASSUME CallInv, Start \/ StaticFails \/ StaticGet
  PROVE  CallInv'
<1>1. ClientTypeOK /\ Searching /\ Errors
  BY DEF CallInv
<1>2. /\ UNCHANGED <<cfg, ctx, finder, offer, found, cancel, cur, down, perr>>
      /\ pc \in {"start", "static"} /\ pc' \in {"static", "p2p", "done"}
  BY DEF Start, StaticFails, StaticGet, Return, search, peers
<1>3. ClientTypeOK'
  BY <1>1, <1>2 DEF ClientTypeOK
<1>4. Searching'
  BY <1>1, <1>2 DEF Searching, Offered, Held
<1>5. Errors' /\ (pc' = "done" => conn' # None \/ err' # None)
  BY <1>1, ClientAssumption DEF Errors, Start, StaticFails, StaticGet, Return
<1>6. perr' # "no peer"
  BY <1>1, <1>2, ClientAssumption DEF Errors
<1> QED BY <1>3, <1>4, <1>5, <1>6 DEF CallInv, NothingOnlyWithoutStatic,
           NoPeerMeansNone

\* The p2p Get returns a connection or an error: where Client returns neither,
\* there is no static client; and "no peer" is returned when every peer that was
\* found has been tried.
LEMMA Returned ==
  ASSUME CallInv, pc \in {"p2p", "recv", "connect"}, NEW c, NEW e,
         P2PReturns(c, e), c # None \/ e # None,
         e = "no peer" => pc = "recv" /\ finder = "ended",
         UNCHANGED <<cfg, ctx, finder, offer, found, cur, down>>, cancel' \in BOOLEAN
  PROVE  CallInv'
<1>1. ClientTypeOK /\ Searching /\ Errors
  BY DEF CallInv
<1>2. Errors' /\ NothingOnlyWithoutStatic' /\ perr' = e /\ pc' = "done"
  BY <1>1 DEF Errors, P2PReturns, Return, NothingOnlyWithoutStatic
<1>3. ClientTypeOK'
  BY <1>1, <1>2 DEF ClientTypeOK
<1>4. Searching'
  BY <1>1, <1>2 DEF Searching, Offered, Held
<1>5. NoPeerMeansNone'
  <2> SUFFICES ASSUME e = "no peer"
               PROVE  finder = "ended" /\ (found = down \/ ctx = "done")
    BY <1>2 DEF NoPeerMeansNone
  <2>1. ctx = "done" \/ found \subseteq down
    BY <1>1 DEF Searching, Offered, Held
  <2> QED BY <1>1, <2>1 DEF ClientTypeOK
<1> QED BY <1>2, <1>3, <1>4, <1>5 DEF CallInv

\* The steps of Get that return.
LEMMA ReturnStep ==
  ASSUME CallInv, GetLocal \/ FindPeersFails \/ CtxDone \/ NoMore \/ Connect
  PROVE  CallInv'
<1>1. ClientTypeOK /\ Searching
  BY DEF CallInv
<1>2. UNCHANGED <<cfg, ctx, finder, offer, found, cur, down>> /\ cancel' \in BOOLEAN
  BY <1>1 DEF ClientTypeOK, GetLocal, FindPeersFails, CtxDone, NoMore, Connect,
     Leave, search, peers
<1>3. ASSUME NEW c, NEW e, P2PReturns(c, e), c # None \/ e # None, e # "no peer",
             pc \in {"p2p", "recv", "connect"}
      PROVE  CallInv'
  BY <1>2, <1>3, Returned
<1>4. /\ "self" # None /\ "dial" # None /\ "find" # None /\ "ctx" # None
      /\ "no peer" # None
  BY ClientAssumption
<1>5. CASE GetLocal
  <2>1. CASE P2PReturns("self", None)
    BY <1>3, <1>4, <1>5, <2>1 DEF GetLocal
  <2>2. CASE P2PReturns(None, "dial")
    BY <1>3, <1>4, <1>5, <2>2 DEF GetLocal
  <2> QED BY <1>5, <2>1, <2>2 DEF GetLocal
<1>6. CASE FindPeersFails
  BY <1>3, <1>4, <1>6 DEF FindPeersFails
<1>7. CASE CtxDone
  BY <1>3, <1>4, <1>7 DEF CtxDone, Leave
<1>8. CASE NoMore
  BY <1>2, <1>4, <1>8, Returned DEF NoMore, Leave
<1>9. CASE Connect
  <2>1. cur # None
    BY <1>1, <1>9, ClientAssumption DEF Connect, Searching, Held, ClientTypeOK
  <2>2. CASE P2PReturns(cur, None)
    BY <1>3, <1>4, <1>9, <2>1, <2>2 DEF Connect
  <2>3. CASE P2PReturns(None, "dial")
    BY <1>3, <1>4, <1>9, <2>3 DEF Connect
  <2> QED BY <1>9, <2>2, <2>3 DEF Connect, Leave
<1> QED BY <1>5, <1>6, <1>7, <1>8, <1>9

\* The steps of Get that stay in its loop, and those of the search: a peer goes
\* from the channel to Get and from there to the ones that failed.
LEMMA LoopStep ==
  ASSUME CallInv, FindPeers \/ Receive \/ ConnectFails \/ Find \/ FindEnds
  PROVE  CallInv'
<1>1. /\ ClientTypeOK /\ Searching /\ Errors /\ NothingOnlyWithoutStatic
      /\ NoPeerMeansNone
  BY DEF CallInv
<1>2. UNCHANGED <<cfg, ctx, cancel, serr, perr, conn, err>>
  BY DEF FindPeers, Receive, ConnectFails, Find, FindEnds, result, search, peers
<1>3. (pc' = "done" <=> pc = "done") /\ (pc' # pc => pc \in {"p2p", "recv", "connect"}
                                             /\ pc' \in {"recv", "connect"})
  BY DEF FindPeers, Receive, ConnectFails, Find, FindEnds
<1>4. Errors' /\ NothingOnlyWithoutStatic'
  BY <1>1, <1>2, <1>3 DEF Errors, NothingOnlyWithoutStatic
<1>5. ClientTypeOK' /\ Searching'
  <2>1. CASE FindPeers
    BY <1>1, <2>1 DEF FindPeers, ClientTypeOK, Searching, Offered, Held, result,
       peers
  <2>2. CASE Receive
    BY <1>1, <2>2 DEF Receive, ClientTypeOK, Searching, Offered, Held, result
  <2>3. CASE ConnectFails
    BY <1>1, <2>3 DEF ConnectFails, ClientTypeOK, Searching, Offered, Held, result,
       search
  <2>4. CASE Find
    BY <1>1, <2>4 DEF Find, ClientTypeOK, Searching, Offered, Held, result, peers
  <2>5. CASE FindEnds
    BY <1>1, <2>5 DEF FindEnds, ClientTypeOK, Searching, Offered, Held, result,
       peers
  <2> QED BY <2>1, <2>2, <2>3, <2>4, <2>5
<1>6. NoPeerMeansNone'
  <2>1. perr # "no peer" \/ (pc = "done" /\ finder = "ended")
    BY <1>1, ClientAssumption DEF Errors, NoPeerMeansNone
  <2>2. CASE perr # "no peer"
    BY <1>2, <2>2 DEF NoPeerMeansNone
  <2>3. CASE pc = "done" /\ finder = "ended"
    <3>1. UNCHANGED <<finder, found, down>>
      BY <2>3 DEF FindPeers, Receive, ConnectFails, Find, FindEnds, peers
    <3> QED BY <1>1, <1>2, <3>1 DEF NoPeerMeansNone
  <2> QED BY <2>1, <2>2, <2>3
<1> QED BY <1>4, <1>5, <1>6 DEF CallInv

\* The end of the caller's context, and the dialers, which only look at the
\* connection that was returned.
LEMMA OtherStep ==
  ASSUME CallInv, EndCtx \/ Dialer \/ UNCHANGED clientVars
  PROVE  CallInv'
<1>1. /\ UNCHANGED <<cfg, pc, finder, cancel, offer, cur, found, down, serr, perr,
                     conn, err>>
      /\ ctx' \in {ctx, "done"}
  BY DEF EndCtx, Dialer, CallDialer, Dialed, DialerReturns, DialerCtxDone,
     clientVars, search, peers, result
<1>2. ClientTypeOK' /\ Searching'
  BY <1>1 DEF CallInv, ClientTypeOK, Searching, Offered, Held
<1>3. Errors' /\ NothingOnlyWithoutStatic' /\ NoPeerMeansNone'
  BY <1>1 DEF CallInv, Errors, NothingOnlyWithoutStatic, NoPeerMeansNone
<1> QED BY <1>2, <1>3 DEF CallInv

\* The invariant holds in every reachable state of a call.
THEOREM CallInvariance == ClientSpec => []CallInv
<1>1. ASSUME CallInv, [ClientNext]_clientVars PROVE CallInv'
  BY <1>1, ClientStep, ReturnStep, LoopStep, OtherStep DEF ClientNext, Call, Get,
     Finder
<1> QED BY <1>1, CallInit, PTL DEF ClientSpec

\* The p2p Get gives up with ErrNoPeerForSvc only after Connect failed for every
\* peer that was found, or after the end of its context.
THEOREM NoPeerIsTrue == ClientSpec => []NoPeerMeansNone
<1>1. CallInv => NoPeerMeansNone
  BY DEF CallInv
<1> QED BY <1>1, CallInvariance, PTL

\* With a static client, Client never returns neither a connection nor an error.
THEOREM NothingLost == ClientSpec => []NothingOnlyWithoutStatic
<1>1. CallInv => NothingOnlyWithoutStatic
  BY DEF CallInv
<1> QED BY <1>1, CallInvariance, PTL

-----------------------------------------------------------------------------
(* The advertiser *)

\* The time of the failed rounds and of their retries.
Debt == behind * (Retry + Round)

\* How old an advertisement is at most: from the last complete round, or from
\* this round for the services that it has done.
AgeBound(s) ==
  /\ task = "advertise" /\ s < svc => age[s] <= spent
  /\ task = "advertise" /\ s >= svc => age[s] <= Wait + Round + Debt + spent
  /\ task = "wait" => age[s] <= Round + (Wait - timer)
  /\ task = "retry" => age[s] <= Wait + Round + Debt - timer

AdvertiserInv ==
  /\ AdvTypeOK
  /\ task = "wait" => timer <= Wait /\ behind = 0
  /\ task = "retry" => timer <= Retry /\ behind >= 1
  /\ \A s \in up : AgeBound(s)

\* One more failed round adds a retry and a round to what the failures cost.
LEMMA DebtFacts ==
  ASSUME behind \in Nat
  PROVE  /\ Debt \in Nat
         /\ (behind + 1) * (Retry + Round) = Debt + Retry + Round
         /\ behind = 0 => Debt = 0
BY AdvertiserAssumption DEF Debt

\* The pause between two rounds is a number.
LEMMA WaitNat == Wait \in Nat
<1>1. TTL \in Nat /\ 7 * TTL \in Nat
  BY AdvertiserAssumption
<1> QED BY <1>1 DEF Wait

\* Before the first round nothing is advertised: the invariant holds.
LEMMA AdvertiserInit == AdvInit => AdvertiserInv
<1> SUFFICES ASSUME AdvInit PROVE AdvertiserInv
  OBVIOUS
<1>1. age \in [Service -> Nat] /\ svc \in 1..(N + 1) /\ spent \in 0..Round
  BY AdvertiserAssumption DEF AdvInit
<1> QED BY <1>1 DEF AdvInit, AdvertiserInv, AdvTypeOK

\* Every step keeps the bounds: time passes for all, and a failed round is paid
\* for by the debt.
LEMMA AdvertiserStep ==
  ASSUME AdvertiserInv, [AdvNext]_advVars
  PROVE  AdvertiserInv'
<1>1. /\ AdvTypeOK /\ (task = "wait" => timer <= Wait /\ behind = 0)
      /\ (task = "retry" => timer <= Retry /\ behind >= 1)
      /\ \A s \in up : AgeBound(s)
  BY DEF AdvertiserInv
<1>2. Debt \in Nat /\ Wait \in Nat /\ (behind = 0 => Debt = 0)
  BY <1>1, DebtFacts, WaitNat DEF AdvTypeOK
<1> USE AdvertiserAssumption
<1>3. CASE Tick
  <2>1. AdvTypeOK'
    BY <1>1, <1>3 DEF Tick, AdvTypeOK
  <2>2. Debt' = Debt
    BY <1>3 DEF Tick, Debt
  <2>3. ASSUME NEW s \in up' PROVE AgeBound(s)'
    <3>1. s \in up /\ s \in Service /\ age'[s] = age[s] + 1 /\ age[s] \in Nat
      BY <1>1, <1>3 DEF Tick, AdvTypeOK
    <3>2. CASE task = "advertise"
      BY <1>1, <1>2, <1>3, <2>2, <3>1, <3>2 DEF Tick, AdvTypeOK, AgeBound
    <3>3. CASE task = "wait"
      BY <1>1, <1>2, <1>3, <2>2, <3>1, <3>3 DEF Tick, AdvTypeOK, AgeBound
    <3>4. CASE task = "retry"
      BY <1>1, <1>2, <1>3, <2>2, <3>1, <3>4 DEF Tick, AdvTypeOK, AgeBound
    <3> QED BY <1>3, <3>2, <3>3, <3>4 DEF Tick
  <2>4. task' = task /\ behind' = behind /\ timer' \in Nat /\ timer' <= timer
    BY <1>1, <1>3 DEF Tick, AdvTypeOK
  <2>5. /\ task' = "wait" => timer' <= Wait /\ behind' = 0
        /\ task' = "retry" => timer' <= Retry /\ behind' >= 1
    BY <1>1, <1>2, <2>4 DEF AdvTypeOK
  <2> QED BY <2>1, <2>3, <2>5 DEF AdvertiserInv
<1>4. CASE Advertise
  <2>1. AdvTypeOK'
    BY <1>1, <1>4 DEF Advertise, AdvTypeOK, Service
  <2>2. Debt' = Debt
    BY <1>4 DEF Advertise, Debt
  <2>3. ASSUME NEW s \in up' PROVE AgeBound(s)'
    <3>1. CASE s = svc
      BY <1>1, <1>2, <1>4, <2>2, <3>1 DEF Advertise, AdvTypeOK, AgeBound, Service
    <3>2. CASE s # svc
      <4>1. s \in up /\ s \in Service /\ age'[s] = age[s] /\ age[s] \in Nat
        BY <1>1, <1>4, <3>2 DEF Advertise, AdvTypeOK
      <4> QED BY <1>1, <1>2, <1>4, <2>2, <3>2, <4>1 DEF Advertise, AdvTypeOK,
                 AgeBound, Service
    <3> QED BY <3>1, <3>2
  <2> QED BY <1>1, <1>4, <2>1, <2>3 DEF AdvertiserInv, Advertise
<1>5. CASE AdvertiseFails
  <2>1. AdvTypeOK'
    BY <1>1, <1>5 DEF AdvertiseFails, AdvTypeOK
  <2>2. Debt' = Debt + Retry + Round
    BY <1>1, <1>5, DebtFacts DEF AdvertiseFails, Debt, AdvTypeOK
  <2>3. ASSUME NEW s \in up' PROVE AgeBound(s)'
    <3>1. s \in up /\ s \in Service /\ age'[s] = age[s] /\ age[s] \in Nat
      BY <1>1, <1>5 DEF AdvertiseFails, AdvTypeOK
    <3>2. age[s] <= Wait + Round + Debt + spent
      BY <1>1, <1>2, <1>5, <3>1 DEF AdvertiseFails, AdvTypeOK, AgeBound, Service
    <3> QED BY <1>1, <1>2, <1>5, <2>2, <3>1, <3>2 DEF AdvertiseFails, AdvTypeOK,
               AgeBound
  <2> QED BY <1>1, <1>5, <2>1, <2>3 DEF AdvertiserInv, AdvertiseFails, AdvTypeOK
<1>6. CASE RoundDone
  <2>1. AdvTypeOK'
    BY <1>1, <1>2, <1>6 DEF RoundDone, AdvTypeOK
  <2>2. ASSUME NEW s \in up' PROVE AgeBound(s)'
    <3>1. s \in up /\ s \in Service /\ age'[s] = age[s] /\ age[s] \in Nat
      BY <1>1, <1>6 DEF RoundDone, AdvTypeOK
    <3>2. age[s] <= spent
      BY <1>1, <1>6, <3>1 DEF RoundDone, AdvTypeOK, AgeBound, Service
    <3> QED BY <1>1, <1>2, <1>6, <3>1, <3>2 DEF RoundDone, AdvTypeOK, AgeBound
  <2> QED BY <1>2, <1>6, <2>1, <2>2 DEF AdvertiserInv, RoundDone
<1>7. CASE Again
  <2>1. AdvTypeOK'
    BY <1>1, <1>7 DEF Again, AdvTypeOK
  <2>2. Debt' = Debt
    BY <1>7 DEF Again, Debt
  <2>3. ASSUME NEW s \in up' PROVE AgeBound(s)'
    <3>1. s \in up /\ s \in Service /\ age'[s] = age[s] /\ age[s] \in Nat
      BY <1>1, <1>7 DEF Again, AdvTypeOK
    <3> QED BY <1>1, <1>2, <1>7, <2>2, <3>1 DEF Again, AdvTypeOK, AgeBound, Service
  <2> QED BY <1>7, <2>1, <2>3 DEF AdvertiserInv, Again
<1>8. CASE Done
  BY <1>1, <1>8 DEF Done, AdvertiserInv, AdvTypeOK, AgeBound
<1>9. CASE Stop
  BY <1>1, <1>9 DEF Stop, AdvertiserInv, AdvTypeOK, AgeBound, Debt
<1>10. CASE UNCHANGED advVars
  BY <1>1, <1>10 DEF advVars, AdvertiserInv, AdvTypeOK, AgeBound, Debt
<1> QED BY <1>3, <1>4, <1>5, <1>6, <1>7, <1>8, <1>9, <1>10 DEF AdvNext, Execute

\* The invariant holds in every reachable state.
THEOREM AdvertiserInvariance == AdvSpec => []AdvertiserInv
BY AdvertiserInit, AdvertiserStep, PTL DEF AdvSpec

\* The gap of any service is bounded by its failed rounds.
THEOREM GapsBounded == AdvSpec => []GapBounded
<1>1. AdvertiserInv => GapBounded
  <2> SUFFICES ASSUME AdvertiserInv, NEW s \in up, task # "done"
               PROVE  age[s] < TTL + behind * (Retry + Round)
    BY DEF GapBounded
  <2>1. Debt \in Nat /\ Wait \in Nat /\ (behind = 0 => Debt = 0)
    BY DebtFacts, WaitNat DEF AdvertiserInv, AdvTypeOK
  <2>2. age[s] \in Nat /\ s \in Service /\ AgeBound(s)
    BY DEF AdvertiserInv, AdvTypeOK
  <2>3. age[s] < TTL + Debt
    BY <2>1, <2>2, AdvertiserAssumption DEF AdvertiserInv, AdvTypeOK, AgeBound,
       Service
  <2> QED BY <2>3 DEF Debt
<1> QED BY AdvertiserInvariance, <1>1, PTL

\* Without failures no advertisement ends before it is renewed.
THEOREM AlwaysRenewed == AdvSpec => []NeverExpires
<1>1. AdvertiserInv => NeverExpires
  <2> SUFFICES ASSUME AdvertiserInv, NEW s \in up, behind = 0, task # "done"
               PROVE  age[s] < TTL
    BY DEF NeverExpires
  <2>1. Debt = 0 /\ Wait \in Nat
    BY DebtFacts, WaitNat DEF AdvertiserInv, AdvTypeOK
  <2>2. age[s] \in Nat /\ s \in Service /\ AgeBound(s)
    BY DEF AdvertiserInv, AdvTypeOK
  <2> QED BY <2>1, <2>2, AdvertiserAssumption DEF AdvertiserInv, AdvTypeOK,
             AgeBound, Service
<1> QED BY AdvertiserInvariance, <1>1, PTL

\* The advertiser does not notice the clients of its node: whatever is proved of
\* it alone holds when they look its services up.
LEMMA LookupAdvertises == Spec => AdvSpec
<1>1. Init => AdvInit
  BY DEF Init
<1>2. [Next]_vars => [AdvNext]_advVars
  BY DEF Next, vars
<1> QED BY <1>1, <1>2, PTL DEF Spec, AdvSpec

\* A lookup is a call of Client whose search is bound to the advertisements:
\* whatever is proved of every search holds for this one.
LEMMA LookupCalls == Spec => ClientSpec
<1>1. Init => ClientInit
  BY DEF Init
<1>2. [Next]_vars => [ClientNext]_clientVars
  BY DEF Next, vars, ClientSide, FindAdvertised, SearchEnds, ClientNext, Finder
<1> QED BY <1>1, <1>2, PTL DEF Spec, ClientSpec

\* In a lookup, too, the node is told that no peer has the service only after each
\* one that was found has been tried, and a call says why it has no connection.
THEOREM LookupAnswers == Spec => [](NoPeerMeansNone /\ NothingOnlyWithoutStatic)
BY LookupCalls, NoPeerIsTrue, NothingLost, PTL

\* A search by itself ends without the node of a running service only before the
\* first advertisement, or after a failed round.
THEOREM FoundInPauses == Spec => FoundUnlessLapsed
<1> DEFINE A == finder = "search" /\ finder' = "ended" /\ Server \notin found =>
                  \/ Wanted \notin up \/ behind > 0 \/ task = "done"
                  \/ cancel \/ ctx = "done"
<1>1. ASSUME NeverExpires, AdvertiserInv, [Next]_vars PROVE [A]_vars
  <2> SUFFICES ASSUME Next, finder = "search", finder' = "ended", Server \notin found,
                      Wanted \in up, ~(behind > 0), task # "done"
               PROVE  cancel \/ ctx = "done"
    BY <1>1
  <2>1. age[Wanted] < TTL
    <3>1. behind = 0
      BY <1>1 DEF AdvertiserInv, AdvTypeOK
    <3> QED BY <1>1, <3>1 DEF NeverExpires
  <2>2. SearchEnds
    <3>1. finder' # finder
      OBVIOUS
    <3>2. ~(AdvNext /\ UNCHANGED clientVars) /\ ~EndCtx /\ ~Dialer /\ ~FindAdvertised
      BY <3>1 DEF clientVars, EndCtx, Dialer, CallDialer, Dialed, DialerReturns,
         DialerCtxDone, search, FindAdvertised, Find
    <3>3. ~Call
      BY <3>1 DEF Call, Start, StaticFails, StaticGet, Get, GetLocal, FindPeers,
         FindPeersFails, CtxDone, Receive, NoMore, ConnectFails, Connect, Leave,
         search
    <3> QED BY <3>2, <3>3 DEF Next, ClientSide
  <2> QED BY <2>1, <2>2 DEF SearchEnds, Advertised
<1> QED BY <1>1, LookupAdvertises, AdvertiserInvariance, AlwaysRenewed, PTL DEF
           Spec, FoundUnlessLapsed
=============================================================================
