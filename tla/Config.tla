------------------------------- MODULE Config -------------------------------
(***************************************************************************)
(* The way of an option to the component that reads it: the options of      *)
(* msuite.go, Get and Set of modules/config/json/jsonConfig.go, the         *)
(* configuration that New of modules/node/node.go takes from an in-memory or *)
(* a file repository, and the constructors of the task manager and the      *)
(* locker.                                                                  *)
(*                                                                         *)
(* Get goes through JSON: it succeeds if the JSON form of the Go value fits *)
(* the type that the caller asks for.  A saved configuration is encoded and *)
(* decoded: its values have the Go types that JSON gives back.              *)
(***************************************************************************)
EXTENDS Integers

CONSTANTS
  PrivKey,      \* private keys that users have
  Resource,     \* access lists: resources
  AskedRole,    \* and the roles that are given for them
  Max,          \* workers that are asked for
  MaxOptions,   \* bound on the options of one start
  MaxStarts,    \* bound on the starts
  None

ASSUME ConfigAssumption == Max \subseteq Int /\ None \notin PrivKey

\* json.Marshal: the JSON form of a value, by its Go type.  A map[string]interface
\* has that of its elements.
Marshal(type) ==
  CASE type \in {"int", "float64"} -> "number"
    [] type = "string" -> "string"
    [] type \in {"map[string]string", "map[string]interface of string"} -> "strings"
    [] type \in {"map[string]int", "map[string]interface of float64"} -> "numbers"

\* json.Unmarshal into an interface: the Go type of the result.
Decoded(json) ==
  CASE json = "number" -> "float64"
    [] json = "string" -> "string"
    [] json = "strings" -> "map[string]interface of string"
    [] json = "numbers" -> "map[string]interface of float64"

\* json.Unmarshal into a variable: the JSON forms it takes.  What is not the
\* address of a variable ("value") takes none.
Unmarshal(type) ==
  CASE type = "int" -> {"number"}
    [] type = "string" -> {"string"}
    [] type = "map[string]string" -> {"strings"}
    [] type = "map[string]int" -> {"numbers"}
    [] type = "map[string]interface" -> {"strings", "numbers"}
    [] type = "value" -> {}

VARIABLES
  cfg,      \* startupCfg: key -> Go type and value
  count,    \* options given, starts so far
  phase,    \* "build", "up", "failed" (the application has an error)
  saved,    \* config.json, or None
  eff,      \* r.Config() of the node
  workers,  \* Max of the task manager, 0 if it was not made
  locker,   \* "none", the locker that was made, or "error"
  asked,    \* history: what the options of this start asked for
  first,    \* history: the configuration the file repository was initialized with,
            \* and what was asked for then
  made      \* keys generated so far

configVars == <<cfg, count, phase, saved, eff, workers, locker, first, asked, made>>
nodeVars == <<saved, eff, workers, locker, first, made>>

Value(type, v) == [type |-> type, val |-> v]
Empty == [k \in {} |-> None]
Set(c, key, v) == [k \in DOMAIN c \cup {key} |-> IF k = key THEN v ELSE c[k]]

\* No option: the task manager has twenty workers.
Nothing == [key |-> None, acl |-> Empty, max |-> 20, locker |-> "none", settings |-> {}]

ConfigInit ==
  /\ cfg = Empty /\ count = [options |-> 0, starts |-> 0] /\ phase = "build"
  /\ saved = None /\ eff = Empty /\ workers = 0 /\ locker = "none"
  /\ first = [cfg |-> Empty, asked |-> Nothing] /\ asked = Nothing /\ made = 0

Get(c, key, type) == key \in DOMAIN c /\ Marshal(c[key].type) \in Unmarshal(type)

-----------------------------------------------------------------------------
(* Options *)

Option(c) ==
  /\ phase = "build" /\ count.options < MaxOptions
  /\ cfg' = c /\ count' = [count EXCEPT !.options = @ + 1]
  /\ UNCHANGED <<phase, nodeVars>>

WithP2PPrivateKey(key) ==
  /\ Option(Set(cfg, "Identity", Value("map[string]interface of string", key)))
  /\ asked' = [asked EXCEPT !.key = key]

WithRepositoryRoot ==
  /\ Option(Set(cfg, "RootPath", Value("string", "path")))
  /\ UNCHANGED asked

\* Mutation of WithServiceACL: the list takes the place of the one that is there.
WithServiceACLOnly(r, role) ==
  /\ Option(Set(cfg, "ACL", Value("map[string]string", Set(Empty, r, role))))
  /\ asked' = [asked EXCEPT !.acl = Set(@, r, role)]

WithServiceACL(r, role) ==
  /\ LET existing == IF Get(cfg, "ACL", "map[string]string") THEN cfg["ACL"].val
                     ELSE Empty
     IN Option(Set(cfg, "ACL", Value("map[string]string", Set(existing, r, role))))
  /\ asked' = [asked EXCEPT !.acl = Set(@, r, role)]

WithTaskManager(max) ==
  /\ Option(Set(cfg, "TMWorkers",
                Value("map[string]int", IF max < 20 THEN max + 20 ELSE max)))
  /\ asked' = [asked EXCEPT !.max = max]

\* The settings come as a map of strings, which may lack some.
WithLocker(lkr, settings) ==
  /\ Option([k \in DOMAIN cfg \cup {"Locker"} \cup settings |->
               IF k = "Locker" THEN Value("string", lkr)
               ELSE IF k \in settings THEN Value("string", "setting") ELSE cfg[k]])
  /\ asked' = [asked EXCEPT !.locker = lkr, !.settings = @ \cup settings]

-----------------------------------------------------------------------------
(* New *)

\* NewTaskManager: Max, or 0 for the error of a Max that is not positive.
Workers(c) ==
  LET max == IF Get(c, "TMWorkers", "map[string]int") THEN c["TMWorkers"].val ELSE 20
  IN IF max <= 0 THEN 0 ELSE max

Lockers == {"inmem", "zookeeper", "redis"}
Settings(lkr) ==
  CASE lkr = "zookeeper" -> {"ZookeeperHost", "ZookeeperPort"}
    [] lkr = "redis" -> {"RedisHost", "RedisNetwork"}
    [] OTHER -> {}

\* NewLocker, for UseLocker: a setting is absent or not of the type that is read,
\* or there is no such locker.
NewLocker(c) ==
  IF "Locker" \notin DOMAIN c THEN "none"
  ELSE LET lkr == c["Locker"].val
       IN IF /\ Get(c, "Locker", "string") /\ lkr \in Lockers
             /\ \A key \in Settings(lkr) :
                  Get(c, key, IF key = "ZookeeperPort" THEN "int" ELSE "string")
          THEN lkr ELSE "error"

\* initIdentity: a new key.
NewIdentity(c) ==
  Set(c, "Identity", Value("map[string]interface of string", <<"new", made + 1>>))

\* Mutation of Identified: there is always a new key.
IdentifiedAnew(c, type) == NewIdentity(c)

\* The configuration with an identity; type is what the repository's check asks for.
Identified(c, type) == IF Get(c, "Identity", type) THEN c ELSE NewIdentity(c)

\* The configuration is written to config.json and read back.
File(c) == [k \in DOMAIN c |-> [c[k] EXCEPT !.type = Decoded(Marshal(@))]]

\* A service is returned also when a constructor has failed, NewTaskManager first.
Up(c) ==
  /\ phase = "build" /\ count' = [count EXCEPT !.starts = @ + 1]
  /\ eff' = c /\ workers' = Workers(c)
  /\ locker' = IF Workers(c) = 0 THEN "none" ELSE NewLocker(c)
  /\ phase' = IF workers' = 0 \/ locker' = "error" THEN "failed" ELSE "up"
  /\ cfg' = c /\ UNCHANGED asked

NewInMem ==
  /\ ~Get(cfg, "RootPath", "string")
  /\ Up(Identified(cfg, "value"))
  /\ made' = made + 1 /\ UNCHANGED <<saved, first>>

\* The first start in a directory saves the configuration and reads it back.
NewInit ==
  /\ Get(cfg, "RootPath", "string") /\ saved = None
  /\ LET c == Identified(cfg, "map[string]interface")
     IN Up(File(c)) /\ saved' = File(c) /\ first' = [cfg |-> c, asked |-> asked]
  /\ made' = IF Get(cfg, "Identity", "map[string]interface") THEN made ELSE made + 1

\* Mutation of NewSaved: the node goes on with the options that it was given.
NewSavedOptions ==
  /\ Get(cfg, "RootPath", "string") /\ saved # None
  /\ Up(cfg) /\ UNCHANGED <<saved, first, made>>

\* A later one reads what is saved, whatever its options are.
NewSaved ==
  /\ Get(cfg, "RootPath", "string") /\ saved # None
  /\ Up(saved) /\ UNCHANGED <<saved, first, made>>

StopNode ==
  /\ phase # "build" /\ count.starts < MaxStarts
  /\ phase' = "build" /\ cfg' = Empty /\ asked' = Nothing
  /\ count' = [count EXCEPT !.options = 0]
  /\ eff' = Empty /\ workers' = 0 /\ locker' = "none"
  /\ UNCHANGED <<saved, first, made>>

-----------------------------------------------------------------------------

Options ==
  \/ \E key \in PrivKey : WithP2PPrivateKey(key)
  \/ WithRepositoryRoot
  \/ \E r \in Resource, role \in AskedRole : WithServiceACL(r, role)
  \/ \E max \in Max : WithTaskManager(max)
  \/ \E lkr \in Lockers \cup {"other"} :
       \E settings \in SUBSET Settings(lkr) : WithLocker(lkr, settings)
ConfigNext == Options \/ NewInMem \/ NewInit \/ NewSaved \/ StopNode

ConfigSpec == ConfigInit /\ [][ConfigNext]_configVars

-----------------------------------------------------------------------------
(* Properties *)

Types == {"string", "int", "map[string]string", "map[string]int",
          "map[string]interface"}

FromRepo == phase # "build" /\ saved # None /\ "RootPath" \in DOMAIN eff

\* What was asked for by the options whose configuration is in force.
InForce == IF FromRepo THEN first.asked ELSE asked

\* A node over a repository has the configuration of its first start, whatever
\* options it is started with, only the root path included.  Although JSON has
\* changed the Go types, every key of it can be read as the types it could be read
\* as before it was saved, and as no other.
SavedWins ==
  FromRepo => /\ DOMAIN eff = DOMAIN first.cfg
              /\ \A key \in DOMAIN eff :
                   /\ eff[key].val = first.cfg[key].val
                   /\ \A type \in Types : Get(eff, key, type) <=> Get(first.cfg, key, type)

\* The locker that is asked for is made if all its settings are given.
LockerMade(lkr) ==
  phase # "build" /\ workers > 0 /\ InForce.locker = lkr
    /\ Settings(lkr) \subseteq InForce.settings => locker = lkr

\* What options ask for, in any order and number, is what constructors get, also
\* from a saved configuration: each resource has the role that was given for it
\* last; the task manager has at least the workers that were asked for last, and
\* the node fails for want of workers only if that number is -20 or less; the
\* in-memory locker and redis are made if their settings were given, by whichever
\* option, no locker is made that was not asked for, and the node is up unless a
\* constructor has failed.
OptionsArrive ==
  phase # "build" =>
    /\ InForce.acl # Empty =>
         Get(eff, "ACL", "map[string]string") /\ eff["ACL"].val = InForce.acl
    /\ workers = 0 => InForce.max <= -20
    /\ workers > 0 => workers >= InForce.max
    /\ locker \in {InForce.locker, "none", "error"}
    /\ LockerMade("inmem") /\ LockerMade("redis")
    /\ phase = "up" <=> workers > 0 /\ locker # "error"

\* Over a repository the identity that was given at the first start is the node's
\* at every start, and a generated one only if none was given.
IdentityOrigin ==
  FromRepo => /\ "Identity" \in DOMAIN eff
              /\ IF first.asked.key # None
                 THEN eff["Identity"].val = first.asked.key
                 ELSE eff["Identity"].val \in {"new"} \X Nat

\* "It is possible to use existing keys": a node that is given a key has it as its
\* identity.  The in-memory repository asks for the identity in a way that always
\* fails, and generates another one.
GivenKeyUsed ==
  phase # "build" /\ InForce.key # None => eff["Identity"].val = InForce.key
=============================================================================
