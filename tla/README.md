# A TLA+ verification of go-msuite

go-msuite assembles a service node from options: a repository, a task manager,
gRPC and HTTP servers, a libp2p host with what runs on it. This directory holds
TLA+ models of its parts, the TLC runs that check them on small instances, and
TLAPS proofs of the most important properties for all instances.

1. [Inventory](#1-inventory)
2. [Modules and correspondence](#2-modules-and-correspondence)
3. [Runs](#3-runs)
4. [Bounds](#4-bounds)
5. [Fairness](#5-fairness)
6. [Proofs](#6-proofs)
7. [Where code and documentation part](#7-where-code-and-documentation-part)
8. [Not modelled](#8-not-modelled)

Running: `tlc -workers 2 -config X.cfg M` for a run (section 3 gives the module
of each configuration), `tlapm M.tla` for a module of proofs.

## 1. Inventory

| Part | State | Operations | Hard behaviours | What must hold |
|---|---|---|---|---|
| On-disk repository (`repo/fsrepo`) | config.json, datastore directory, `ActiveMap` with reference counts, open mounts, `pkgLock` | CreateOrOpen, Open, SetConfig, Close | concurrent callers, CreateOrOpen in three sections, failing writes and mounts, crash inside a write | exact counting, no datastore closed under a user or left open, stable identity, memory = disk |
| In-memory repository (`repo/inmem`) | pointers to configuration and datastore | CreateOrOpen, SetConfig, Close | which identity is kept | the identity given is the identity used |
| Configuration (`config/json`) | a JSON map | Get, Set, IsSet, Reader, FromFile | conversions through JSON, missing keys | what an option sets is what a constructor reads |
| Listener mux (`grpc/mux`) | listeners, tasks, `connChan`, wait group, status, `muxCtx` | Start, Accept, Close, Execute, Status | tasks against Start and Close, full channel, refused task, three timeouts, two calls of Close | no connection lost or duplicated, Close means stopped, the server ends |
| Node (`node/node.go`, `msuite.go`) | options, constructors, hooks, `deps` | New, Start, Stop, accessors | construction order depends on the options; any constructor or hook can fail, the contexts of Start and Stop can end | every combination can be built, gives what was asked for, stops in layers |
| gRPC and HTTP servers (`node/grpc`, `node/http`) | server, hooks, interceptors | constructors, OnStart, OnStop | served in goroutines of their own, clients that hold Shutdown back, contexts that end | the status is true, servers end with Stop |
| Host, discovery, bootstrap (`node/ipfs`) | libp2p hosts, bootstrap task | constructors, tick | contexts that end before the task that uses them | configured peers are connected again and again |
| Events (`events`) | handlers per topic, subscription | RegisterHandler, Broadcast, Execute | unlocked load and store, a slow handler | no registration lost, every handler called |
| Protocols (`protocols`) | streams | Register, SendMsg, ReadMsg, WriteMsg | 16-bit lengths, short reads, deadlines | what is written is read, one answer per request |
| Mesher (`node/internal/mesher`) | connections, peerstore, worker | HandleMsg, BroadcastPeers, notifier | nodes waiting for one another, addresses known late | connected peers become a mesh |
| Client (`grpc/client`) | advertised services with a lifetime | Execute, Get (p2p, static), node.Client | failing rounds, lifetimes | a running service can be found; no connection means an error |
| Shared storage (`sharedStorage`) | callbacks under a read-write lock | SharedStorage, Put, Delete | notifications against registrations, a callback that calls the provider | every callback of a prefix is called once; only such a callback blocks |
| Access control (`auth`) | role per resource, in a store on disk, in memory or shared by all nodes | Configure, Delete, Authorized, Allowed, interceptors | applied one by one at start; lists and tokens change under a request | a start applies what is configured; an answer fits some moment of its request |
| Locker, metrics, tracing, status | handles of libraries | constructors, OnStop | – | released on Stop |

How they interact: `msuite.New` turns options into configuration keys; `node.New`
opens the repository, lets the saved configuration replace the given one, and
hands providers and invocations to fx, which builds what the invocations need.
Constructors append hooks; `Start` runs them in that order, `Stop` backwards.
The gRPC server reads connections from the mux, whose listeners run as tasks on
the task manager. Events, mesher, advertiser and bootstrapper are tasks too.

`PROJECT.json` lists under "hazards" what can go wrong at which line.

## 2. Modules and correspondence

**FsRepo** (`repo/fsrepo`, `utils/files.go`). Goroutines `Proc` use the
repository of one path; `ActiveMap` keeps paths apart, so one is enough.
`pc` says where a goroutine is in its call, `pkgLock` who is inside a section.
`CreateOrOpen` is `Call`, `IsInitialized`, `RepoInit` + `WriteConfig`, then the
actions of Open: `OpenRefused`, `OpenShared`, or `OpenFirst` + `OpenMount`* +
`Opened`. A section that only touches memory is one action. One that writes
config.json or opens mounts is several that keep `pkgLock`, so that a failure
(`…Fails`) or a `Crash` can come between them. `cfgFile` is `torn` from
`os.Create` until `io.Copy` is done. A configuration is its identity and its
set of mounts. `Close` works on the path's entry, as in the code, whatever
handle the caller has; `closeAgain`, chosen at the beginning, says whether callers
keep their handle after Close and may close again. An fsRepo is known by a handle;
one that nobody refers to can be used again (`Fresh`).

**SharedRepo** is what the repository promises: one resource, open exactly while
somebody holds it. FsRepo implements it with `holders <- owners`,
`open <- active.h # NoHandle`, for callers that do not close again.

**Mux** (`grpc/mux`, with the hooks of `node/grpc`). Actors: Start (`start`,
`cur`), one Execute per listener (`task`, `hand`), Serve (`server`), Close
(`closing`, `closed`), the task manager's stop (`tmDone`). `wg` is the wait
group, `muxDone` the cancelled context. Waiting with a timeout is two actions:
`StartScheduled`/`StartTimesOut`, `CloseStopped`/`CloseTimesOut`. Close is
called twice because `rpcSrv.Stop` closes the listener and the mux's own OnStop
closes it again. `CancelRoot` is the node's cancel hook, which comes before the
server's stop in some nodes (property `StopsInLayers` of Node). `Schedule`
(the pool) is external.

**Node** (`node/node.go`, the constructors of all modules, `msuite.go`). A
constructor is a record of its parameters in order, what it provides and the
hook it appends, copied from its Go signature. `Provided` and `Invokes` are the
fx options that the keys enable. `Invoke`, `Demand`, `Construct`,
`ConstructFails` are fx building depth first (external, as fx 1.16 and dig 1.12
do it); `Start…` and `Stop…` are its lifecycle. `CtxEnds` is the end of the context
that Start or Stop was given: after it, hooks that are left may be left out, also
those of a rollback, which has the same context. The accessors of the service are
predicates over `dp`.

**Servers** (the hooks of `node/grpc/grpc.go` and `node/http/http.go`,
`diag/status`). The two hooks in either order (`order`, `pos`, `hook`), the
goroutine each OnStart leaves behind (`thread`: launched, begun, serving, served,
ended), the reporters (`mp`) and one `/status` request that visits them one by one.
The context of Start and Stop may end at any time or never (`ctx`); `failed` and
`left` are the servers whose OnStart gave up, or whose OnStop was left out, with it.
Shutdown waits for the request, gRPC's Stop for Serve; both libraries, like the
lifecycle, are external.

**Config** (`config/json`, `msuite.go`, `repo/inmem`, `node.New`, constructors of
the task manager and the locker). A value is what was given and its Go type;
`Get` succeeds if the JSON form of that type (`Marshal`) is one that the type asked
for takes (`Unmarshal`), and saving turns a type into what JSON gives back
(`Decoded`). A locker is asked for with any part of its settings. A node is
configured, started and stopped several times over one store; a constructor that
fails leaves it in phase "failed".

**Events** (`events`). A handler list is a Go slice: a length and an array that
other slices may share, because append writes in place while there is capacity.
`RegisterHandler` is load, append and store; `Execute` is the listener's steps.
`raced` remembers registrations that overlapped another of the same topic. The
handlers of a topic are numbered in the order in which they load the list.
pubsub is external: it loses, repeats and reorders.

**Protocols** (`protocols`). Both sides' positions, the bytes sent and taken, what each
side wrote and read. A length is two bytes of base `Base`; 256 in the code. A Read
returns any part of what has arrived. The stream takes `Window` bytes more than the
reader has taken, so a writer can be held back in the middle of a body; a window holds
at least a frame whose length is right. NewStream, which the code calls with a context
of no deadline (`protocols.go:105`), is taken as returning. Writing, reading, the
handler, its failures, Reset and both deadlines are actions; the stream is external.

**Mesher** (`node/internal/mesher`). On each node the callbacks that wait on the
channel (`pend`), the worker (`worker[n] = n`: idle) and the handlers (`req`). A
request is one SendMsg: answered, or given up with the handler going on.

**Client**, **Advertiser**, **Lookup** (`grpc/client`, `node.Client`). Client is one
call, the goroutine of FindPeers that feeds it, and gRPC's dialer. Advertiser is
Execute's loop in discrete time: `age` of each advertisement, `spent` of a round,
`behind` for the rounds that failed. Lookup composes them as two nodes: every step is
one of the call or one of the advertiser, and the discovery service (external) is
where they meet: it returns the advertiser's node only while the advertisement
lives (`FindAdvertised`), and a search does not end by itself without it while it
does (`SearchEnds`).

**SharedStorage** (`sharedStorage`). The read-write lock as Go's (a waiting writer
holds back new readers), notifications that iterate over the map callback by
callback, registrations that load, extend and store. A callback in `Reentrant`
calls the provider for another namespace with a callback (`Reenter`), and waits for
the lock that its own notification holds.

**Acl** (`auth`, the interceptors of `node/grpc` and `node/http`). Lists in a
store, applied one by one at start; a request reads the list and then looks at the
token, with changes and expiry in between. The store is on disk and survives
restarts, in memory and does not, or is shared in P2P mode, where other nodes change
it at any time (`Remote`) and it may or may not be kept. What a client sends as
authorization is a token alone, which gRPC verifies, two words, of which HTTP
verifies the second, or neither.

**Service** composes Config and Acl: options are given and nodes started (`Build`),
and a node that is up gives the lists of its configuration to NewAclManager
(`Launch`), whose starts, changes and requests follow (`Serve`).

**Bootstrap** (`node/ipfs`). The hook, the task in the pool, ticks, peers that come
and go, and the context of Start that the task goes on using.

Theorems: **FsRepoProofs**, **MuxProofs**, **NodeProofs**, **EventsProofs** and, on top
of it, **EventCallsProofs**, **LookupProofs** (Client, Advertiser and Lookup),
**ExchangeProofs** (Protocols and SharedStorage), **ServiceProofs** (Acl, Servers and
Config).
Values of the constants for TLC: **MCFsRepo**, **MCNode**, **MCEvents**,
**MCProtocols**, **MCService**, **MCSharedStorage**, **MCBootstrap**; the other
configurations need no definitions.

A definition whose comment begins with "Mutation of" is a version of the next
one with a plausible mistake; `PROJECT.json` names for every property a mutation
that TLC must reject, and no specification uses them.

## 3. Runs

Each part has one configuration, with its safety and its liveness properties; Config and
Acl have that of Service. PrivateKey is violated, as section 7 explains; all others pass.

| Configuration | Module | Checks | Shows |
|---|---|---|---|
| FsRepo | MCFsRepo | OwnerDatastoreOpen, NoLeakedMounts, ConfigMatchesDisk, IdentityStable, RefinesSharedRepo, CallsReturn | with a fault or crash anywhere no mount stays open, the identity is kept and every call returns; for callers that close once no datastore is closed under its user and the repository is the shared resource SharedRepo describes |
| Mux | Mux | ConnConserved, CloseMeansStopped, ConnServed, CloseDrains, ShutdownEnds | the hand-over of connections, what Close promises, progress, and exactly which cases let Close run into its timeout |
| Node | MCNode | AssemblyComplete, OptionsReachable, RepoReleased, StopsInLayers | every combination of options, every failing constructor and hook, contexts that end |
| Service | MCService | SavedWins, OptionsArrive, IdentityOrigin, AnswerExplained, ServersAgree, StartApplies | what reaches a constructor of the options of this and of earlier starts; what starts leave in the store; that an answer is right for some moment of its request, and the two servers and Authorized decide alike |
| PrivateKey | MCService | GivenKeyUsed | violated: a node in memory does not use the key that it is given |
| Servers | Servers | StatusExact, ServersEnd | both orders of the hooks, failing servers, clients that never read, contexts that end at any time or never |
| Events | MCEvents | KeptUnlessRaced, NoSpuriousCall, KeptHandlersRun | only overlapping registrations can be lost, each received event runs its handlers, and once for each time it was received |
| Protocols | MCProtocols | AnswerIsReply, Prompt, DeadlinesEnd | what arrives is what was sent, up to two named cases; where both sides run only a request that the stream does not take waits; each side ends by its own deadline |
| Mesher | Mesher | NobodyBlocked, Discovery | callbacks, workers and handlers that wait for one another on three nodes all get through; nodes meet unless something named was missed |
| Lookup | Lookup | NothingOnlyWithoutStatic, NoPeerMeansNone, GapBounded, SearchReleased, FoundUnlessLapsed | what the errors of a lookup mean, that it releases its search, that advertisements are renewed in time, and that a lookup in between finds the service |
| SharedStorage | MCSharedStorage | CalledExactly, NobodyWaits | each callback of a prefix is called once, and nobody waits for ever unless a callback has called the provider |
| Bootstrap | MCBootstrap | Reconnects, HookAndTaskEnd | a reachable peer is connected again while the context of Start lives; hook and task end |

The type invariants, and properties that are proved and not among these (`ActiveIsOpen`,
`RefCountExact`, `ConfigImpliesDatastoreDir`, `FailedIsDead`, `NoNilHandler`,
`RequestIntact`, `NeverExpires`, `Registered`, `MapFixed`), have no run of their own:
section 6.

Deadlock is checked for FsRepo. In the other runs the system may stop: a node is
stopped or has failed, an exchange or a call is over, all starts of the bound are done,
a callback has blocked the provider.

## 4. Bounds

- FsRepo: two goroutines (every race of the code is between two callers of one
  path), three handles (two held, one being opened), one fault or crash, two
  configurations (without identity; with one, and a mount that does not
  validate), one mount that locks its directory.
- Mux: three listeners, three connections and a channel of one, so that the
  channel fills with tasks blocked on it. Close is called at most twice, as in the code.
- Node: all subsets of ten options, and the two whose constructors differ from
  others only in name (Unix sockets, static discovery) with all subsets of five.
  `WithDebug` adds one handler and no constructor with parameters of its own
  beyond the HTTP mux; it is left out.
- Service: three options per start and three starts; numbers of workers of which
  NewTaskManager refuses one, WithTaskManager raises one and takes one as it is; two
  resources; configured roles with an unknown one among them, so that a start can fail
  with one list applied; at run time the least and the greatest role, users below and
  at the greatest.
- Events: four handlers of one topic, because append grows an array at the first,
  second and third handler and writes in place at the fourth; two registrations at a
  time, an event that pubsub delivers twice, a message that is no event, a buffer of
  one, one handler that does not return and one that cannot decode. A fifth handler
  (the next growth) or a second topic takes TLC more than five minutes; the safety
  properties are proved for any number of both.
- Protocols: bytes of base 2, so that a length holds up to 3; messages of 0 to 6
  bytes lie on both sides of it, four announces itself as empty, and one of ten is
  more than the stream takes, with a window of 5.
- Mesher: a hub and two nodes, one of which may stop.
- Lookup: two peers, one of them the advertiser's; two services, the second one
  looked up, so that a round can end before it; a lifetime of 17 units, the
  shortest in which two rounds of calls fit in what is left after the pause; one failure.
- SharedStorage: two notifications that can overlap, three registrations, one of
  them of a callback that calls the provider, two namespaces, keys with one or both
  prefixes.
- Bootstrap: three peers, of which any may be down while another is up.

The proofs of section 6 remove the bounds for the safety properties they cover.

## 5. Fairness

- FsRepo: strong fairness of each goroutine's steps inside a call. Go's
  `sync.Mutex` hands the lock to a waiter that has starved for 1 ms, so a waiter
  that finds the lock free again and again gets it. Making calls, closing and
  crashing are not fair.
- Mux: weak fairness of runnable goroutines, of the pool's scheduling, of
  Accept and of the timers; strong fairness of sending on `connChan`, because Go
  queues blocked senders in order; Accept of a listener that has been closed
  returns. Clients, failing listeners, cancellation and the calls of Close and
  tm.Stop are not fair: the properties start from them. Accept's `select` is fair
  between its ready cases (Go chooses at random), hence weak fairness of
  `AcceptEOF` beside that of `Accept`.
- Servers: goroutines run, a stopped server's Serve returns, and Shutdown returns once
  its context has ended. The end of a context, clients and the callers of Stop are not
  fair.
- Events: only the listener's task; a Blocking handler does not return. Nothing is
  assumed of pubsub or of those who register.
- Protocols: none in the specification. The properties name what they need:
  `SenderRuns`, `HandlerRuns` (one side's goroutine and its deadline), `BothRun`
  (both sides, but no deadline).
- Mesher: workers, handlers and the deadline of SendMsg. Nodes need not join, and
  addresses need not become known.
- Lookup: the call's goroutine, with Connect returning; nothing of the advertiser's
  node. FindPeers may search for ever; `SearchReleased` assumes of it only that it
  notices the end of its context (`FinderRuns`).
- SharedStorage: goroutines run and callbacks return, but for one that waits for the
  lock; strong fairness of taking the mutex, as in FsRepo. Notifications keep coming or
  not.
- Bootstrap: hook, task and ticker run and a dial returns; strong fairness of the
  task's `ctx.Done()` case, which `select` chooses at random among the ready ones. A
  worker may never come.

Node and Service have no liveness properties.

## 6. Proofs

The theorems hold for every value of the constants that the named ASSUMEs of the
modules allow. `Invariance` of each module proves its inductive invariant `IInv`.
LookupProofs, ExchangeProofs and ServiceProofs hold the proofs of several
specifications, which is why those have names of their own for Init, Next and Spec
(`ClientSpec`, `AdvSpec`, `StoreSpec`, `ServersSpec`, `ConfigSpec`).

*FsRepo*: any set of goroutines, handles, mounts and configurations, any number of
faults. `IInv` is the type invariant, `ActiveIsOpen`, `NoLeakedMounts` and what they
need to be inductive: `LockInv` (the goroutine between the steps of a section is the
one that holds `pkgLock`), `OwnerInv` (a holder has a handle and is not inside an
open), `OpeningInv` (the repository being opened is known to nobody else and there is
no active one beside it), `FileInv` (the directory is there before the file; nothing
was saved before Init wrote). From it follow `TypeCorrect`, `ActiveAlwaysOpen`,
`MountsReleased`, `DirectoryFirst` and the action property `IdentityKept`. `Counting`
adds `RefCountExact` and `ConfigInv` (without faults the file is torn only while it is
written): `RefCountCorrect`, `OwnersServed`, `MemoryMatchesDisk`. `Refinement` shows
that FsRepo implements SharedRepo: every action is a stutter, an Acquire, a Release
or a Crash.

*Mux*: any number of listeners and connections, any capacity. `StartInv` (Start takes
the listeners in order; those it has not reached are untouched), `CountInv` (the wait
group is the number of listeners counted and not done), `CloseInv` (Close comes after
Start), `HandInv` (a task has a connection in hand exactly while it sends).
`TypeCorrect` includes that `wg.Done` never goes below zero, where Go would panic, and
that the channel keeps its capacity.

*Events*: any number of nodes, topics, handlers and concurrent registrations.
`GoodInv` (every slice in use covers written cells only), `OwnInv` (an array belongs
to one topic), `RaceInv` (of two registrations under way both are raced) and `KeepInv`
(a kept handler stays at its place in every later list): `NeverNil`,
`RegistrationsKept`.
The calls (EventCallsProofs) need a second invariant, because a listener ranges over
the slice that it has loaded while others append to the same array or to a copy of it.
`PlaceInv` says that a handler has one place number in all arrays that hold it; the
listener goes up through the places, so it meets a handler at most once for a message.
`RoundInv` says that nobody ahead of it has been called for this message yet, `KeyInv`
and `PubInv` that only what was broadcast is handled, and under its own topic:
`CallsAreDue`, which is `NoSpuriousCall`.

*Protocols*: any base, any messages and any window above `Base * Base`.
`LengthRoundTrip` and `FramingExact` are about the operators: two bytes give back a
length exactly when it is below `Base * Base`, and a frame its body exactly then. The
invariant says what each side has written, read of the length and handed to HandleMsg:
`RequestArrives`, `AnswerArrives`.

*Lookup*: any number of services and peers, any
durations with `Wait + 2 * Round < TTL`. `AgeBound` bounds the age of an
advertisement in every phase of a round by the time since the last complete one and
what failures cost (`Debt`): `GapsBounded`, `AlwaysRenewed`. `LookupAdvertises` shows
that the composition implements the advertiser's specification, so both carry over, and
`FoundInPauses` follows: between two rounds a search finds the service. For the call,
`Searching` accounts for each peer found (in the channel, in Get's hands, or failed):
`NoPeerIsTrue`, `NothingLost`. These two are proved of Client alone, whose discovery
is free to find and to end as it likes. `LookupCalls` shows that every step of Lookup is
one of Client or leaves the call alone, so both hold there too (`LookupAnswers`).

*SharedStorage* (in ExchangeProofs): any number of goroutines, keys and namespaces, any
set of callbacks that call the provider. `LockInv` (who is where holds the lock how),
`IterInv` (what an iteration has called so far), `RegInv` (what a registration has read
is still the list): `NotifiesExactly`, `NoneLost`, `IterationsUndisturbed`.

*Acl*: any resources, configured roles and users. `StartInv` (while starting each list
is the old one or, if its turn has come, the configured one, unless another node has
touched it since), `RequestInv` (what the interceptor has read was in force since the
request came, and so was the token): `AnswersExplained`, `StartIsComplete`, which is
about starts that succeed and starts that fail. `AnswersAgree` goes through the levels
that a list can have, and needs the type of the store: a list that no role gave would
part Allowed and Authorized.

*Servers* (in ServiceProofs; the module has no constants): `LaunchInv` (a server whose
OnStart is still to come has no goroutine) and `DocumentInv` (an entry of the document
was right when it was made and stays so, since a server that has ended never runs
again): `DocumentExact`.

*Config* (in ServiceProofs): any keys, resources, roles, options and starts, any
numbers of workers. `WellFormed` says that each key an option writes
has the JSON form its readers ask for, in the configuration, in the file and in what
the node runs with; the rest of `ConfInv` that the file is the first configuration after
its pass through JSON, and that a node with a root path runs with the file:
`SavedConfigurationWins`, `OptionsAreRead`, `IdentityIsTheGivenOne`. The theorems are
about ConfigSpec and Acl's Spec; what a step of Service does to the variables of
one of them is a step of it, or the reset at `Launch`.

*Node*: any set of option sets, that is, also the combinations that the run leaves out.
The first half is about the tables of constructors: `Rank` puts each one above all that
give what it takes, so construction, which goes depth first, cannot meet a constructor
that is under way, and `Types` lists what the keys provide, each by one constructor. The
invariant of New, Start and Stop then has `StackInv` (the constructors under way grow in
rank from the top of the stack down, and stand on the invocation that asked for them),
`Closed` (what a built constructor takes is built), `HookInv` (hooks belong to built
constructors and come in the order of `Precedes`), `CancelInv` (without Prometheus only
the last invocation asks for the server and the mux), `PopulateInv` (`dp` is what is
provided) and `LifeInv` (the started hooks are a prefix of the list, and the stopped
ones are those that come after it, also if the context has ended): `NewIsComplete`,
`OptionsAreReachable`, `RepoIsReleased`, `LayersStopInOrder`.

Every safety property that a run checks is proved; the properties of Mesher and
Bootstrap are all temporal. Only model-checked are the liveness
properties (`CallsReturn`, `ConnServed`, `CloseDrains`, `ShutdownEnds`, `ServersEnd`,
`KeptHandlersRun`, `Prompt`, `DeadlinesEnd`, `NobodyBlocked`, `Discovery`,
`SearchReleased`, `NobodyWaits`, `Reconnects`, `HookAndTaskEnd`): fairness and ENABLED
are out of the prover's reach. So are induction over data (what recursive definitions
compute) and RECURSIVE operators, which no module here uses.

## 7. Where code and documentation part

The properties are stated as they hold. In these places a comment, a test or the
repository's README says more than the code does, and the property carries the
exception; the model takes the step in question.

- `fsrepo.go:135`: of two concurrent CreateOrOpen of a new path both find no
  config.json; the second then gets "already initialized" from Init (action
  `RepoInitRefused`). The comment at `node.go:70-71` says an initialized repository
  yields the saved configuration.
- `mux.go:99`: a task's Accept fails before Start has stored "running"; Start overwrites
  the failure, and Status says "running" for a listener without task, also after
  Close, where `mux_test.go:125-127` expects "failed". `FailedIsDead`, which is
  proved, is one direction.
- `mux.go:73`: when Start fails, the listeners it opened before stay open, since the
  lifecycle does not stop a hook whose start failed, and their tasks stay in Accept,
  which the task manager's stop does not interrupt; `README.md:39` of the repository:
  "All the tasks are stopped on app close." `ShutdownEnds` asks for `start = "ok"`.
- `node.go:135`: New ignores the application's error; after a failing constructor it
  returns a service whose `Repo()` and `TM()` are nil, which `core.go:32` lists as
  packages a service must have. `OptionsReachable` leaves out the phase "failed".
- `node.go:292`: without a static client a failed p2p lookup returns neither connection
  nor error, where `msuite_test.go:454-458` takes a nil error for a connection:
  `NothingOnlyWithoutStatic`.
- `client.go:196`: the static dialer takes tcp for what `net.ParseIP` accepts, an address
  without port, and `net.Dial` needs one; only a unix socket can be dialed
  (`Outcomes` of Client). `README.md:58` speaks of known IP addresses.
- `inmem.go:24`: a node in memory asks for its identity with a map instead of its
  address, so Get never succeeds and a given key is replaced; `README.md:22`: "It is
  possible to use existing keys or create new ones." This is the run PrivateKey, which
  violates `GivenKeyUsed`; `IdentityOrigin` is about nodes over a repository.
- `locker/handler.go:41`: the port of zookeeper is written as a string and read into an
  int, which JSON refuses, so that no node with this locker comes up; `README.md:42`
  names zookeeper. `OptionsArrive` asks for `LockerMade` of "inmem" and "redis" only;
  TLC refutes `LockerMade("zookeeper")` in three states.
- `grpc/middleware.go:101` verifies the authorization value as it is,
  `http/middleware.go:52-58` the second of its two words. No value that one of the two
  takes is taken by the other, also where the gateway stands behind the HTTP
  middleware and passes the value on (`http.go:89-95`). `ServersAgree` compares them
  with the token in the form that each takes.
- `mesher.go:96`: a broadcast leaves out peers whose addresses are not known yet and is
  not repeated (`missed` in `Discovery`); `mesher_test.go:18-19`: "all nodes will be able
  to discover each other".
- `protocols.go:175` and `:144`: the length is modulo 2^16, and one Read takes its two
  bytes (the exceptions in `Intact`); `protocols.go:33`: "Request can be any type". A
  request beyond the stream's window whose length says less waits for the deadline of
  SendMsg (`HeldBack` in `Prompt`).
- `sharedStorage.go:76`: callbacks are called under the read lock, and a callback that
  calls `SharedStorage` waits for the write lock (`:97`) for ever, and everybody after
  it (`Deadlocked` in `NobodyWaits`).

What other properties say beside their positive part: `CloseDrains` names the two ways
Close runs into its 3 s (a refused task stays counted; a task blocked on a full
channel); `StopsInLayers` says that with Prometheus the root context is cancelled under
a running server; `ConfigMatchesDisk` holds only while no write fails; `RefCountExact`
only while nobody closes again, because a second Close takes another caller's reference;
`ServersEnd` leaves out the server whose OnStart gave up on its context or whose OnStop
was left out because of it, and lets a client hold Stop back that was given a context
without end; `RepoReleased` leaves out a Start or Stop whose context ends before the
repository's turn; `Reconnects` holds only while the context of Start lives
(`host.go:199` goes on using it); of two overlapping registrations of a topic one can be
lost (`KeptUnlessRaced`).

## 8. Not modelled

- Libraries, which appear only as external actions: libp2p (hosts, streams, DHT, mDNS,
  pubsub), gRPC and HTTP request handling, fx and dig, the task manager's pool, the CRDT
  store, flatfs and leveldb, the servers behind the lockers, the collectors of metrics and
  traces, the signature of a token.
- Contents of the key-value stores, log output, error texts, and interceptors that only
  log, recover, measure or trace: they change no state of the node.
- The data race on the map that Status of the mux returns after unlocking
  (`mux.go:67`): its outcome is the end of the process or some value, and no line of
  the repository says more.
- Resources of constructors whose hook comes after a failing one (hosts, subscriptions):
  the lifecycle library never stops them. `RepoReleased` says that the repository is not
  among them.
- fx, whose source is not part of the repository, is modelled from what its version 1.16
  does: a failed Start is rolled back with the same context, and whether hooks still run
  once it has ended is left open. A second call of Start or Stop is not modelled.
- Whether libp2p frees a stream whose handler did not close its half after a successful
  exchange (`protocols.go:92`).
- Interfaces and wiring without behaviour (`core`, `modules/repo/repo.go`,
  `modules/config/config.go`), and the examples.
