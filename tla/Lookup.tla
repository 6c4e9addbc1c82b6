------------------------------- MODULE Lookup -------------------------------
(***************************************************************************)
(* A service looked up by name while the node that runs it advertises it:   *)
(* the call of Client on one node and the advertiser's task on another,     *)
(* Server, meet in the discovery service.                                   *)
(*                                                                         *)
(* The discovery is external.  FindPeers returns Server only while its      *)
(* advertisement of the service lives, and does not end by itself without   *)
(* it while the advertiser keeps one alive.  Other peers come and go.       *)
(***************************************************************************)
EXTENDS Client, Advertiser

CONSTANTS
  Server,   \* the peer with the advertiser
  Wanted    \* the service that is looked up

ASSUME LookupAssumption == Server \in Peer /\ Wanted \in Service

vars == <<clientVars, advVars>>

Init == ClientInit /\ AdvInit

-----------------------------------------------------------------------------

\* An advertisement ends with its lifetime.
Advertised == Wanted \in up /\ age[Wanted] < TTL

FindAdvertised == Find /\ (offer' = Server => Advertised)

\* The end of its context ends the search at any time; after the advertiser's
\* end the advertisement runs out.
SearchEnds ==
  /\ FindEnds
  /\ cancel \/ ctx = "done" \/ Server \in found \/ ~Advertised \/ task = "done"

-----------------------------------------------------------------------------

ClientSide == Call \/ FindAdvertised \/ SearchEnds \/ EndCtx \/ Dialer

Next == (ClientSide /\ UNCHANGED advVars) \/ (AdvNext /\ UNCHANGED clientVars)

Spec == Init /\ [][Next]_vars

\* Nothing is assumed of the advertiser's node.
FairSpec == Spec /\ ClientFair

-----------------------------------------------------------------------------
(* Properties *)

\* The search for a running service ends without its node only before the first
\* advertisement, after a failed round, in the end of the advertiser, or because
\* of the caller: in the pauses of the advertiser the service stays found.
FoundUnlessLapsed ==
  [][finder = "search" /\ finder' = "ended" /\ Server \notin found =>
       \/ Wanted \notin up \/ behind > 0 \/ task = "done"
       \/ cancel \/ ctx = "done"]_vars
=============================================================================
