----------------------------- MODULE Advertiser -----------------------------
(***************************************************************************)
(* The task that advertises a node's services: discoveryProvider.Execute of *)
(* modules/grpc/client/client.go.  Each advertisement lives for TTL; a      *)
(* round advertises all services in order, a failing one ends the round.    *)
(*                                                                         *)
(* Time passes in units, an eighth of a minute in the runs.  The discovery  *)
(* is external: Advertise takes time, at most Round for the calls of one    *)
(* round, and may fail.                                                     *)
(***************************************************************************)
EXTENDS Integers

CONSTANTS
  N,         \* number of services
  TTL,       \* discoveryTTL, 15 minutes
  Retry,     \* 2 minutes
  Round,     \* bound: the time of one round's calls
  Failures   \* bound: how many calls fail

\* 7 * discoveryTTL / 8
Wait == (7 * TTL) \div 8

ASSUME AdvertiserAssumption ==
  /\ N \in Nat /\ TTL \in Nat /\ Retry \in Nat /\ Round \in Nat
  /\ Failures \in Nat
  /\ Wait + 2 * Round < TTL

Service == 1..N

VARIABLES
  task,      \* "advertise", "wait", "retry", "done"
  svc,     \* the service Advertise is called for
  spent,   \* time since the begin of the round
  timer,   \* what is left of time.After
  up,      \* services that have been advertised
  age,     \* time since a service was advertised
  failed,  \* calls that have failed
  behind,  \* failed rounds since the last complete one
  stop     \* the context is cancelled

advVars == <<task, svc, spent, timer, up, age, failed, behind, stop>>

AdvInit ==
  /\ task = "advertise" /\ svc = 1 /\ spent = 0 /\ timer = 0
  /\ up = {} /\ age = [s \in Service |-> 0]
  /\ failed = 0 /\ behind = 0 /\ stop = FALSE

-----------------------------------------------------------------------------

\* A unit of time passes: in a call of Advertise, or while the task waits.  A
\* select with a cancelled context does not wait.
Tick ==
  /\ \/ task = "advertise" /\ spent < Round /\ spent' = spent + 1 /\ UNCHANGED timer
     \/ /\ task \in {"wait", "retry"} /\ timer > 0 /\ ~stop
        /\ timer' = timer - 1 /\ UNCHANGED spent
  /\ age' = [s \in Service |-> IF s \in up THEN age[s] + 1 ELSE 0]
  /\ UNCHANGED <<task, svc, up, failed, behind, stop>>

Advertise ==
  /\ task = "advertise" /\ svc \in Service
  /\ svc' = svc + 1 /\ up' = up \cup {svc} /\ age' = [age EXCEPT ![svc] = 0]
  /\ UNCHANGED <<task, spent, timer, failed, behind, stop>>

\* The round ends with the service that fails; also because of the context.
AdvertiseFails ==
  /\ task = "advertise" /\ svc \in Service
  /\ stop \/ failed < Failures
  /\ failed' = IF stop THEN failed ELSE failed + 1
  /\ task' = "retry" /\ timer' = Retry /\ behind' = behind + 1
  /\ UNCHANGED <<svc, spent, up, age, stop>>

\* Mutation of RoundDone: the whole lifetime is waited for.
RoundDoneLate ==
  /\ task = "advertise" /\ svc > N
  /\ task' = "wait" /\ timer' = TTL /\ behind' = 0
  /\ UNCHANGED <<svc, spent, up, age, failed, stop>>

RoundDone ==
  /\ task = "advertise" /\ svc > N
  /\ task' = "wait" /\ timer' = Wait /\ behind' = 0
  /\ UNCHANGED <<svc, spent, up, age, failed, stop>>

\* Mutation of Again: after a failure the other select is taken as well.
AgainWaits ==
  /\ task \in {"wait", "retry"} /\ timer = 0
  /\ IF task = "retry" THEN task' = "wait" /\ timer' = Wait /\ UNCHANGED <<spent, svc>>
     ELSE task' = "advertise" /\ spent' = 0 /\ svc' = 1 /\ UNCHANGED timer
  /\ UNCHANGED <<up, age, failed, behind, stop>>

\* time.After fires: the next round begins with the first service.
Again ==
  /\ task \in {"wait", "retry"} /\ timer = 0
  /\ task' = "advertise" /\ spent' = 0 /\ svc' = 1
  /\ UNCHANGED <<timer, up, age, failed, behind, stop>>

Done ==
  /\ stop /\ task \in {"wait", "retry"} /\ task' = "done"
  /\ UNCHANGED <<svc, spent, timer, up, age, failed, behind, stop>>

Stop ==
  /\ ~stop /\ stop' = TRUE
  /\ UNCHANGED <<task, svc, spent, timer, up, age, failed, behind>>

-----------------------------------------------------------------------------

Execute == Advertise \/ AdvertiseFails \/ RoundDone \/ Again \/ Done

AdvNext == Tick \/ Execute \/ Stop

AdvSpec == AdvInit /\ [][AdvNext]_advVars

-----------------------------------------------------------------------------
(* Properties *)

AdvTypeOK ==
  /\ task \in {"advertise", "wait", "retry", "done"} /\ svc \in 1..(N + 1)
  /\ spent \in 0..Round /\ timer \in Nat
  /\ up \in SUBSET Service /\ age \in [Service -> Nat]
  /\ failed \in Nat /\ behind \in Nat /\ stop \in BOOLEAN

\* While no call fails, an advertisement never ends before it is renewed.
NeverExpires ==
  \A s \in up : behind = 0 /\ task # "done" => age[s] < TTL

\* With failures a service goes without an advertisement for no longer than the
\* failed rounds and their retries take.
GapBounded ==
  \A s \in up :
    task # "done" => age[s] < TTL + behind * (Retry + Round)
=============================================================================
