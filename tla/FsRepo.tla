------------------------------- MODULE FsRepo -------------------------------
(***************************************************************************)
(* The on-disk repository of a node: modules/repo/fsrepo/fsrepo.go with     *)
(* datastore.go, utils/files.go and the JSON configuration it stores.       *)
(*                                                                         *)
(* Goroutines (Proc) of one operating-system process call CreateOrOpen,     *)
(* Open, SetConfig and Close for ONE root path (ActiveMap keeps the paths   *)
(* apart).  Every exported function is one section under pkgLock, except    *)
(* that CreateOrOpen is three sections with gaps between them.  A section   *)
(* that writes config.json or opens datastores is split into steps that     *)
(* keep pkgLock, because the process may crash, or the step may fail,       *)
(* between them.                                                            *)
(*                                                                         *)
(* A configuration is abstracted to its identity and to the set of mounts   *)
(* it lists; a mount of Invalid stands for an entry that                    *)
(* openDatastoreFromCfg rejects (not a map, no prefix, unknown type, bad    *)
(* shard function).                                                         *)
(***************************************************************************)
EXTENDS Naturals, FiniteSets

CONSTANTS
  Proc,        \* goroutines that use the repository
  Ident,       \* identities initIdentity can generate
  NoIdent,     \* "Identity" is absent from a configuration
  Mount,       \* datastore entries a configuration can list
  Invalid,     \* the entries openDatastoreFromCfg rejects
  Exclusive,   \* the datastores that lock their directory (leveldb)
  Configs,     \* the configurations callers pass
  Handle,      \* names for fsRepo objects; one nobody refers to is free again
  NoHandle,    \* the nil *fsRepo
  MaxFaults,   \* bound: crashes and failing system calls
  Free         \* pkgLock is not held

Config == [ident : Ident \cup {NoIdent}, mounts : SUBSET Mount]

ASSUME ProcAssumption == IsFiniteSet(Proc) /\ Free \notin Proc
ASSUME ConfigAssumption == Configs \subseteq Config
ASSUME MountAssumption == Invalid \subseteq Mount /\ Exclusive \subseteq Mount
ASSUME BoundAssumption ==
  MaxFaults \in Nat /\ NoHandle \notin Handle

VARIABLES
  pkgLock,   \* the goroutine in a section, or Free
  pc,        \* where each goroutine is in the call it makes
  arg,       \* the config.Config object each goroutine passed to its call
  held,      \* the *fsRepo its last successful open returned, or NoHandle
  owns,      \* it has not yet called Close for that open
  cfgFile,   \* config.json: absent, torn (truncated, partly written), saved
  saved,     \* the contents of config.json when it is "saved"
  dsDir,     \* the datastore directory exists
  active,    \* ActiveMap[path]: handle (NoHandle: not found) and RefCnt
  obj,       \* the fsRepo objects: cfg, and whether rootDS is set
  opening,   \* the fsRepo the running open() has made
  todo,      \* mounts the running openDatastoreFromCfg has still to open
  openMnts,  \* <<handle, mount>>: datastores that are open
  faults,    \* crashes and failures so far
  closeAgain \* whether callers Close a repository again that they closed before

vars == <<pkgLock, pc, arg, held, owns, cfgFile, saved, dsDir, active,
          obj, opening, todo, openMnts, faults, closeAgain>>

disk == <<cfgFile, saved, dsDir>>
stores == <<active, obj, opening, todo, openMnts>>

Phase == {"idle", "isInit", "init", "initWrite", "open", "mount", "setWrite"}

NotActive == [h |-> NoHandle, refs |-> 0]
NoObj == [cfg |-> [ident |-> NoIdent, mounts |-> {}], rootDS |-> FALSE]

Init ==
  /\ pkgLock = Free
  /\ pc = [p \in Proc |-> "idle"]
  /\ arg = [p \in Proc |-> NoObj.cfg]
  /\ held = [p \in Proc |-> NoHandle]
  /\ owns = [p \in Proc |-> FALSE]
  /\ cfgFile = "absent" /\ saved = NoObj.cfg /\ dsDir = FALSE
  /\ active = NotActive
  /\ obj = [h \in Handle |-> NoObj] /\ opening = NoHandle
  /\ todo = {} /\ openMnts = {}
  /\ faults = 0 /\ closeAgain \in BOOLEAN

-----------------------------------------------------------------------------
(* Helpers *)

isInitialized == cfgFile # "absent"

\* A call of p returns, with success (Acquire) or with an error.
Return(p) ==
  /\ pkgLock' = Free
  /\ pc' = [pc EXCEPT ![p] = "idle"]
  /\ arg' = [arg EXCEPT ![p] = NoObj.cfg]

\* The section ends, the goroutine goes on with the next one of its call.
Goto(p, phase) ==
  /\ pkgLock' = Free
  /\ pc' = [pc EXCEPT ![p] = phase]

\* The section goes on, holding pkgLock.
Keep(p, phase) ==
  /\ pkgLock' = p
  /\ pc' = [pc EXCEPT ![p] = phase]

Fault == faults < MaxFaults /\ faults' = faults + 1

MountsOf(h) == {hm \in openMnts : hm[1] = h}

\* Names for a new fsRepo; which of them it gets makes no difference.
Unused == Handle \ {held[q] : q \in Proc}
Fresh == CHOOSE h \in Unused : TRUE

\* p obtains handle h: one more call of Close to make.
Acquire(p, h) ==
  /\ held' = [held EXCEPT ![p] = h]
  /\ owns' = [owns EXCEPT ![p] = TRUE]

-----------------------------------------------------------------------------
(* CreateOrOpen, Init and Open *)

\* A goroutine that has no open repository calls CreateOrOpen(c) or Open.
Call(p) ==
  /\ pc[p] = "idle" /\ ~owns[p]
  /\ \/ \E c \in Configs :
          /\ arg' = [arg EXCEPT ![p] = c]
          /\ pc' = [pc EXCEPT ![p] = "isInit"]
     \/ pc' = [pc EXCEPT ![p] = "open"] /\ UNCHANGED arg
  /\ UNCHANGED <<pkgLock, held, owns, disk, stores, faults>>

\* First section of CreateOrOpen.
IsInitialized(p) ==
  /\ pc[p] = "isInit" /\ pkgLock = Free
  /\ Goto(p, IF isInitialized THEN "open" ELSE "init")
  /\ UNCHANGED <<arg, held, owns, disk, stores, faults>>

\* Mutation of RepoInit: it does not look again whether config.json exists.
RepoInitUnchecked(p) ==
  /\ pc[p] = "init" /\ pkgLock = Free
  /\ dsDir' = TRUE
  /\ \E i \in Ident : arg' = [arg EXCEPT ![p].ident = i]
  /\ cfgFile' = "torn"
  /\ Keep(p, "initWrite")
  /\ UNCHANGED <<held, owns, saved, stores, faults>>

\* Second section: Init up to the os.Create that truncates config.json.
RepoInit(p) ==
  /\ pc[p] = "init" /\ pkgLock = Free
  /\ ~isInitialized
  /\ dsDir' = TRUE
  /\ IF arg[p].ident = NoIdent
       THEN \E i \in Ident : arg' = [arg EXCEPT ![p].ident = i]
       ELSE UNCHANGED arg
  /\ cfgFile' = "torn"
  /\ Keep(p, "initWrite")
  /\ UNCHANGED <<held, owns, saved, stores, faults>>

RepoInitRefused(p) ==
  /\ pc[p] = "init" /\ pkgLock = Free
  /\ isInitialized
  /\ Return(p)
  /\ UNCHANGED <<held, owns, disk, stores, faults>>

\* A directory, the key or config.json cannot be created.
RepoInitFails(p) ==
  /\ pc[p] = "init" /\ pkgLock = Free
  /\ ~isInitialized /\ Fault
  /\ dsDir' \in {dsDir, TRUE}
  /\ Return(p)
  /\ UNCHANGED <<held, owns, cfgFile, saved, stores>>

\* io.Copy of WriteToFile, for Init (then Open follows) and for SetConfig.
WriteConfig(p) ==
  /\ pkgLock = p
  /\ cfgFile' = "saved" /\ saved' = arg[p]
  /\ \/ pc[p] = "initWrite" /\ Goto(p, "open") /\ UNCHANGED arg
     \/ pc[p] = "setWrite" /\ Return(p)
  /\ UNCHANGED <<held, owns, dsDir, stores, faults>>

WriteConfigFails(p) ==
  /\ pkgLock = p
  /\ pc[p] \in {"initWrite", "setWrite"} /\ Fault
  /\ Return(p)
  /\ UNCHANGED <<held, owns, disk, stores>>

\* Mutation of OpenRefused: an error return that does not unlock.
OpenRefusedLocked(p) ==
  /\ pc[p] = "open" /\ pkgLock = Free
  /\ active.h = NoHandle /\ cfgFile # "saved"
  /\ pkgLock' = p /\ pc' = [pc EXCEPT ![p] = "idle"]
  /\ UNCHANGED <<arg, held, owns, disk, stores, faults>>

\* Open when there is nothing to open, or config.json does not parse or cannot
\* be read.
OpenRefused(p) ==
  /\ pc[p] = "open" /\ pkgLock = Free
  /\ \/ ~isInitialized /\ UNCHANGED faults
     \/ active.h = NoHandle /\ cfgFile = "torn" /\ UNCHANGED faults
     \/ active.h = NoHandle /\ cfgFile = "saved" /\ Fault
  /\ Return(p)
  /\ UNCHANGED <<held, owns, disk, stores>>

\* repoOpener.Open finds the path in ActiveMap.
OpenShared(p) ==
  /\ pc[p] = "open" /\ pkgLock = Free
  /\ isInitialized /\ active.h # NoHandle
  /\ active' = [active EXCEPT !.refs = @ + 1]
  /\ Acquire(p, active.h)
  /\ Return(p)
  /\ UNCHANGED <<disk, obj, opening, todo, openMnts, faults>>

\* open(): a new fsRepo reads its configuration; a missing datastore directory
\* is created and rootDS stays nil, otherwise the mounts are opened.
OpenFirst(p, h) ==
  /\ pc[p] = "open" /\ pkgLock = Free
  /\ active.h = NoHandle /\ cfgFile = "saved"
  /\ h \in Unused /\ h = Fresh
  /\ obj' = [obj EXCEPT ![h] = [cfg |-> saved, rootDS |-> FALSE]]
  /\ dsDir' = TRUE
  /\ IF dsDir
       THEN /\ Keep(p, "mount") /\ opening' = h /\ todo' = saved.mounts
            /\ UNCHANGED <<arg, active, held, owns>>
       ELSE /\ active' = [h |-> h, refs |-> 1] /\ Acquire(p, h)
            /\ Return(p) /\ UNCHANGED <<opening, todo>>
  /\ UNCHANGED <<cfgFile, saved, openMnts, faults>>

Locked(m) == m \in Exclusive /\ \E h \in Handle : <<h, m>> \in openMnts

\* openDatastoreFromCfg opens one mount; the map is ranged over in any order.
OpenMount(p, m) ==
  /\ pc[p] = "mount" /\ pkgLock = p
  /\ m \in todo \ Invalid /\ ~Locked(m)
  /\ todo' = todo \ {m}
  /\ openMnts' = openMnts \cup {<<opening, m>>}
  /\ UNCHANGED <<pkgLock, pc, arg, held, owns, disk, active, obj, opening,
                 faults>>

\* Mutation of OpenMountFails: without the deferred Close of the other mounts.
OpenMountFailsLeaking(p, m) ==
  /\ pc[p] = "mount" /\ pkgLock = p
  /\ m \in todo \cap Invalid
  /\ todo' = {} /\ opening' = NoHandle
  /\ Return(p)
  /\ UNCHANGED <<held, owns, disk, active, obj, openMnts, faults>>

\* A mount cannot be opened: the deferred function closes the others.
OpenMountFails(p, m) ==
  /\ pc[p] = "mount" /\ pkgLock = p
  /\ m \in todo
  /\ \/ (m \in Invalid \/ Locked(m)) /\ UNCHANGED faults
     \/ m \notin Invalid /\ Fault
  /\ openMnts' = openMnts \ MountsOf(opening)
  /\ todo' = {} /\ opening' = NoHandle
  /\ Return(p)
  /\ UNCHANGED <<held, owns, disk, active, obj>>

\* All mounts are open: rootDS and kvStore are set, ActiveMap gets the entry.
Opened(p) ==
  /\ pc[p] = "mount" /\ pkgLock = p
  /\ todo = {}
  /\ obj' = [obj EXCEPT ![opening].rootDS = TRUE]
  /\ active' = [h |-> opening, refs |-> 1] /\ opening' = NoHandle
  /\ Acquire(p, opening)
  /\ Return(p)
  /\ UNCHANGED <<disk, todo, openMnts, faults>>

-----------------------------------------------------------------------------
(* SetConfig and Close *)

\* Mutation of SetConfig: only the file gets the new configuration.
SetConfigFileOnly(p) ==
  /\ pc[p] = "idle" /\ owns[p] /\ pkgLock = Free
  /\ \E c \in Configs : arg' = [arg EXCEPT ![p] = c]
  /\ cfgFile' = "torn"
  /\ Keep(p, "setWrite")
  /\ UNCHANGED <<held, owns, saved, dsDir, stores, faults>>

\* SetConfig assigns f.cfg, then os.Create truncates config.json.
SetConfig(p) ==
  /\ pc[p] = "idle" /\ owns[p] /\ pkgLock = Free
  /\ \E c \in Configs :
       /\ arg' = [arg EXCEPT ![p] = c]
       /\ obj' = [obj EXCEPT ![held[p]].cfg = c]
  /\ cfgFile' = "torn"
  /\ Keep(p, "setWrite")
  /\ UNCHANGED <<held, owns, saved, dsDir, active, opening, todo, openMnts, faults>>

\* The configuration cannot be marshalled or config.json not be created.
SetConfigFails(p) ==
  /\ pc[p] = "idle" /\ owns[p] /\ pkgLock = Free /\ Fault
  /\ \E c \in Configs : obj' = [obj EXCEPT ![held[p]].cfg = c]
  /\ Return(p)
  /\ UNCHANGED <<held, owns, disk, active, opening, todo, openMnts>>

\* What the mutations of Close share.
CloseWith(p, Effect(_)) ==
  /\ pc[p] = "idle" /\ held[p] # NoHandle /\ pkgLock = Free
  /\ owns[p] \/ closeAgain
  /\ owns' = [owns EXCEPT ![p] = FALSE]
  /\ Effect(active.h)
  /\ held' = IF closeAgain THEN held ELSE [held EXCEPT ![p] = NoHandle]
  /\ Return(p)
  /\ UNCHANGED <<disk, opening, todo, faults>>

\* Mutation of Close: it does not return when RefCnt is still positive.
CloseAlways(p) ==
  LET Effect(h) ==
        /\ active' = NotActive
        /\ obj' = [x \in Handle |->
                     IF x = h THEN [obj[x] EXCEPT !.rootDS = FALSE] ELSE obj[x]]
        /\ openMnts' = openMnts \ MountsOf(h)
  IN  CloseWith(p, Effect)

\* Mutation of Close: RefCnt is compared before it is decremented.
CloseOffByOne(p) ==
  LET Effect(h) ==
        /\ active' = IF active.refs > 0 THEN [active EXCEPT !.refs = @ - 1]
                                        ELSE NotActive
        /\ UNCHANGED <<obj, openMnts>>
  IN  CloseWith(p, Effect)

\* fsRepo.Close goes by path: it drops a reference of whatever repository is
\* active there, and closes that repository with the last one.  A caller that
\* does not Close again drops its handle.
Close(p) ==
  /\ pc[p] = "idle" /\ held[p] # NoHandle /\ pkgLock = Free
  /\ owns[p] \/ closeAgain
  /\ owns' = [owns EXCEPT ![p] = FALSE]
  /\ IF active.h = NoHandle
       THEN UNCHANGED <<active, obj, openMnts>>
       ELSE IF active.refs > 1
         THEN /\ active' = [active EXCEPT !.refs = @ - 1]
              /\ UNCHANGED <<obj, openMnts>>
         ELSE /\ active' = NotActive
              /\ obj' = [obj EXCEPT ![active.h].rootDS = FALSE]
              /\ openMnts' = openMnts \ MountsOf(active.h)
  /\ held' = IF closeAgain THEN held ELSE [held EXCEPT ![p] = NoHandle]
  /\ Return(p)
  /\ UNCHANGED <<disk, opening, todo, faults>>

-----------------------------------------------------------------------------
\* The process dies and is started again: only the disk survives.
Crash ==
  /\ Fault
  /\ pkgLock' = Free
  /\ pc' = [p \in Proc |-> "idle"]
  /\ arg' = [p \in Proc |-> NoObj.cfg]
  /\ held' = [p \in Proc |-> NoHandle]
  /\ owns' = [p \in Proc |-> FALSE]
  /\ active' = NotActive
  /\ obj' = [h \in Handle |-> NoObj] /\ opening' = NoHandle
  /\ todo' = {} /\ openMnts' = {}
  /\ UNCHANGED disk

\* The steps of p inside a call it has made.
Step(p) ==
  \/ IsInitialized(p)
  \/ RepoInit(p) \/ RepoInitRefused(p) \/ RepoInitFails(p)
  \/ WriteConfig(p) \/ WriteConfigFails(p)
  \/ OpenRefused(p) \/ OpenShared(p)
  \/ \E h \in Handle : OpenFirst(p, h)
  \/ \E m \in Mount : OpenMount(p, m) \/ OpenMountFails(p, m)
  \/ Opened(p)

Next ==
  /\ UNCHANGED closeAgain
  /\ \/ \E p \in Proc :
          Call(p) \/ Step(p) \/ SetConfig(p) \/ SetConfigFails(p) \/ Close(p)
     \/ Crash

Spec == Init /\ [][Next]_vars

\* Lock acquisition is strongly fair (Go's sync.Mutex hands a starving waiter
\* the lock); a goroutine that is inside a section goes on.
FairSpec == Spec /\ \A p \in Proc : SF_vars(Step(p) /\ UNCHANGED closeAgain)

-----------------------------------------------------------------------------
(* Properties *)

TypeOK ==
  /\ pkgLock \in Proc \cup {Free}
  /\ pc \in [Proc -> Phase]
  /\ arg \in [Proc -> Config]
  /\ held \in [Proc -> Handle \cup {NoHandle}]
  /\ owns \in [Proc -> BOOLEAN]
  /\ cfgFile \in {"absent", "torn", "saved"}
  /\ saved \in Config
  /\ dsDir \in BOOLEAN
  /\ active \in [h : Handle \cup {NoHandle}, refs : Nat]
  /\ obj \in [Handle -> [cfg : Config, rootDS : BOOLEAN]]
  /\ opening \in Handle \cup {NoHandle}
  /\ todo \in SUBSET Mount
  /\ openMnts \in SUBSET (Handle \X Mount)
  /\ faults \in 0..MaxFaults /\ closeAgain \in BOOLEAN

owners == {p \in Proc : owns[p]}

\* Unless callers Close again: RefCnt of the ActiveMap entry is the number of
\* callers that have still to Close, all of them have the entry's fsRepo, and
\* there is no entry when there is no such caller (Open, Close of repoOpener).
RefCountExact ==
  ~closeAgain =>
  /\ active.refs = Cardinality(owners)
  /\ owners = {} <=> active.h = NoHandle
  /\ \A p \in owners : held[p] = active.h

\* A caller that has not closed its repository has a repository whose datastore
\* is open: no other caller's first Close, failing open or race takes it away.
OwnerDatastoreOpen == ~closeAgain => \A p \in owners : obj[held[p]].rootDS

\* However often callers Close, the fsRepo that ActiveMap hands out is never a
\* closed one: close() runs only after the entry is deleted.
ActiveIsOpen ==
  active.h # NoHandle => active.refs > 0 /\ obj[active.h].rootDS

\* Datastores are open only for the active fsRepo, or for the one an open()
\* in progress is filling: a failing open releases the mounts it had opened,
\* so that a later open is not refused by their directory locks.
NoLeakedMounts ==
  \A hm \in openMnts :
    \/ hm[1] = active.h
    \/ hm[1] = opening /\ pkgLock # Free

\* config.json never appears before the datastore directory (initRepo runs
\* first in Init), also when Init fails or the process dies inside it:
\* openDatastore never takes the branch that leaves rootDS nil.
ConfigImpliesDatastoreDir == isInitialized => dsDir

\* Outside a section, config.json is unreadable only if a write failed or the
\* process died in one; otherwise the active repository's in-memory
\* configuration is the one on disk, while nobody Closes again.
ConfigMatchesDisk ==
  ~closeAgain /\ pkgLock = Free /\ faults = 0 =>
    /\ cfgFile # "torn"
    /\ active.h # NoHandle => cfgFile = "saved" /\ obj[active.h].cfg = saved

\* The identity a node was given when its config.json was first written
\* outlives every crash and every later CreateOrOpen, with whatever
\* configuration: only SetConfig can replace it.
IdentityStable ==
  [][saved'.ident # saved.ident =>
       saved = NoObj.cfg \/ pc[pkgLock] = "setWrite"]_vars

\* Every call returns: no section keeps pkgLock forever, and nobody waits for
\* a lock that is never released.
CallsReturn == \A p \in Proc : pc[p] # "idle" ~> pc[p] = "idle"

\* The repository as its callers see it: one shared resource that is open
\* exactly while somebody has it (SharedRepo).  Callers that Close again are
\* promised nothing: what they do maps to the initial state.
Shared ==
  INSTANCE SharedRepo WITH User <- Proc,
                           holders <- IF closeAgain THEN {} ELSE owners,
                           open <- ~closeAgain /\ active.h # NoHandle

RefinesSharedRepo == Shared!Spec
=============================================================================
