--------------------------- MODULE SharedStorage ---------------------------
(***************************************************************************)
(* The callbacks of the shared store: Put, Delete and SharedStorage of      *)
(* modules/sharedStorage/sharedStorage.go, called by any number of          *)
(* goroutines.                                                              *)
(*                                                                         *)
(* Put and Delete differ in the method of the callback that they call; both *)
(* are Notify here.  A callback is named by the call of SharedStorage that  *)
(* registers it; it returns, or calls SharedStorage with a callback itself. *)
(* A call with a nil callback takes no lock and changes nothing.  The lock  *)
(* is sync.RWMutex: a writer that waits holds back new readers, and the     *)
(* readers that wait for it go first when it is done.                       *)
(***************************************************************************)
EXTENDS Naturals, Sequences

CONSTANTS
  Notifier,     \* goroutines of the store that call Put or Delete
  Caller,       \* calls of SharedStorage
  Ns, Key,
  Matches,      \* pairs of a key and a namespace that is a prefix of it
  Reentrant,    \* callbacks that call SharedStorage with a callback
  Nobody

ASSUME StoreAssumption ==
  Nobody \notin Caller \cup Ns \cup Notifier /\ Caller \cap Notifier = {}

VARIABLES
  callbacks,    \* namespace -> callbacks; without callbacks if it is not there
  readers, waiting,     \* notifiers that hold, and wait for, the read lock
  writer,       \* who holds the write lock or is next to hold it
  npc, key,     \* a notifier: "idle", "wait", "iter", "call", "lock"; and the key
  todo, cur,    \* namespaces the iteration has still to visit, the one it is at
  cbs, idx,     \* the callbacks of cur, the next of them
  called,       \* callbacks called for each namespace
  rpc, ns, app  \* a call of SharedStorage: "idle", "lock", "read", "store", "done"

reg == <<rpc, ns, app>>
iter == <<key, todo, cur, cbs, idx, called>>
storeVars == <<callbacks, readers, waiting, writer, npc, iter, reg>>

StoreInit ==
  /\ callbacks = [k \in Ns |-> <<>>]
  /\ readers = {} /\ waiting = {} /\ writer = Nobody
  /\ npc = [t \in Notifier |-> "idle"]
  /\ key = [t \in Notifier |-> Nobody]
  /\ todo = [t \in Notifier |-> {}] /\ cur = [t \in Notifier |-> Nobody]
  /\ cbs = [t \in Notifier |-> <<>>] /\ idx = [t \in Notifier |-> 1]
  /\ called = [t \in Notifier |-> [k \in Ns |-> 0]]
  /\ rpc = [c \in Caller |-> "idle"] /\ ns \in [Caller -> Ns]
  /\ app = [c \in Caller |-> <<>>]

-----------------------------------------------------------------------------
(* Put and Delete *)

\* RLock.
Notify(t, k) ==
  /\ npc[t] = "idle"
  /\ key' = [key EXCEPT ![t] = k]
  /\ todo' = [todo EXCEPT ![t] = Ns]
  /\ called' = [called EXCEPT ![t] = [n \in Ns |-> 0]]
  /\ IF writer = Nobody
     THEN npc' = [npc EXCEPT ![t] = "iter"] /\ readers' = readers \cup {t}
          /\ UNCHANGED waiting
     ELSE npc' = [npc EXCEPT ![t] = "wait"] /\ waiting' = waiting \cup {t}
          /\ UNCHANGED readers
  /\ UNCHANGED <<callbacks, writer, cur, cbs, idx, reg>>

\* The next entry of the map, in no order; its callbacks if the key has the prefix.
Entry(t) ==
  /\ npc[t] = "iter"
  /\ \E n \in todo[t] :
       /\ todo' = [todo EXCEPT ![t] = @ \ {n}]
       /\ IF <<key[t], n>> \in Matches
          THEN /\ npc' = [npc EXCEPT ![t] = "call"]
               /\ cur' = [cur EXCEPT ![t] = n]
               /\ cbs' = [cbs EXCEPT ![t] = callbacks[n]]
               /\ idx' = [idx EXCEPT ![t] = 1]
          ELSE UNCHANGED <<npc, cur, cbs, idx>>
  /\ UNCHANGED <<callbacks, readers, waiting, writer, key, called, reg>>

\* Where a notifier is in the callback that it calls.
Within(cb) == IF cb \in Reentrant THEN "lock" ELSE "call"

\* Mutation of Call: the last callback is left out.
CallAllButLast(t) ==
  /\ npc[t] = "call"
  /\ IF idx[t] < Len(cbs[t])
     THEN /\ called' = [called EXCEPT ![t][cur[t]] = @ + 1]
          /\ idx' = [idx EXCEPT ![t] = @ + 1]
          /\ npc' = [npc EXCEPT ![t] = Within(cbs[t][idx[t]])]
     ELSE npc' = [npc EXCEPT ![t] = "iter"] /\ UNCHANGED <<called, idx>>
  /\ UNCHANGED <<callbacks, readers, waiting, writer, key, todo, cur, cbs, reg>>

Call(t) ==
  /\ npc[t] = "call"
  /\ IF idx[t] <= Len(cbs[t])
     THEN /\ called' = [called EXCEPT ![t][cur[t]] = @ + 1]
          /\ idx' = [idx EXCEPT ![t] = @ + 1]
          /\ npc' = [npc EXCEPT ![t] = Within(cbs[t][idx[t]])]
     ELSE npc' = [npc EXCEPT ![t] = "iter"] /\ UNCHANGED <<called, idx>>
  /\ UNCHANGED <<callbacks, readers, waiting, writer, key, todo, cur, cbs, reg>>

\* Lock, called by a callback: a new reader has to wait for it, and it waits for
\* the readers, of which its own goroutine is one.
Reenter(t) ==
  /\ npc[t] = "lock" /\ writer = Nobody
  /\ writer' = t
  /\ UNCHANGED <<callbacks, readers, waiting, npc, iter, reg>>

\* Mutation of Return: RUnlock only when a namespace matched.
ReturnLocked(t) ==
  /\ npc[t] = "iter" /\ todo[t] = {}
  /\ npc' = [npc EXCEPT ![t] = "idle"]
  /\ readers' = IF \E n \in Ns : called[t][n] > 0 THEN readers \ {t} ELSE readers
  /\ UNCHANGED <<callbacks, waiting, writer, iter, reg>>

\* The deferred RUnlock.
Return(t) ==
  /\ npc[t] = "iter" /\ todo[t] = {}
  /\ npc' = [npc EXCEPT ![t] = "idle"] /\ readers' = readers \ {t}
  /\ UNCHANGED <<callbacks, waiting, writer, iter, reg>>

-----------------------------------------------------------------------------
(* SharedStorage *)

\* Lock is called: nobody else holds the write lock or is next.
Lock(c) ==
  /\ rpc[c] = "idle" /\ writer = Nobody
  /\ rpc' = [rpc EXCEPT ![c] = "lock"] /\ writer' = c
  /\ UNCHANGED <<callbacks, readers, waiting, npc, iter, ns, app>>

Locked(c) ==
  /\ rpc[c] = "lock" /\ readers = {}
  /\ rpc' = [rpc EXCEPT ![c] = "read"]
  /\ UNCHANGED <<callbacks, readers, waiting, writer, npc, iter, ns, app>>

\* The callbacks of the namespace and the new one.
Extend(c) ==
  /\ rpc[c] = "read"
  /\ app' = [app EXCEPT ![c] = Append(callbacks[ns[c]], c)]
  /\ rpc' = [rpc EXCEPT ![c] = "store"]
  /\ UNCHANGED <<callbacks, readers, waiting, writer, npc, iter, ns>>

\* They are stored, and the deferred Unlock lets the waiting readers in.
Store(c) ==
  /\ rpc[c] = "store"
  /\ callbacks' = [callbacks EXCEPT ![ns[c]] = app[c]]
  /\ rpc' = [rpc EXCEPT ![c] = "done"]
  /\ writer' = Nobody /\ readers' = readers \cup waiting /\ waiting' = {}
  /\ npc' = [t \in Notifier |-> IF t \in waiting THEN "iter" ELSE npc[t]]
  /\ UNCHANGED <<iter, ns, app>>

-----------------------------------------------------------------------------

Going(t) == Entry(t) \/ Call(t) \/ Reenter(t) \/ Return(t)
NotifierNext(t) == (\E k \in Key : Notify(t, k)) \/ Going(t)
CallerNext(c) == Lock(c) \/ Locked(c) \/ Extend(c) \/ Store(c)

StoreNext == (\E t \in Notifier : NotifierNext(t)) \/ (\E c \in Caller : CallerNext(c))

StoreSpec == StoreInit /\ [][StoreNext]_storeVars

\* Goroutines run and callbacks that take no lock return.  A goroutine that waits for the mutex of
\* the writers gets it: sync.Mutex does not starve one.
FairStoreSpec ==
  /\ StoreSpec
  /\ \A t \in Notifier : WF_storeVars(Going(t))
  /\ \A c \in Caller :
       WF_storeVars(Locked(c) \/ Extend(c) \/ Store(c)) /\ SF_storeVars(Lock(c))

-----------------------------------------------------------------------------
(* Properties *)

StoreTypeOK ==
  /\ callbacks \in [Ns -> Seq(Caller)]
  /\ readers \in SUBSET Notifier /\ waiting \in SUBSET Notifier
  /\ writer \in Caller \cup Notifier \cup {Nobody}
  /\ npc \in [Notifier -> {"idle", "wait", "iter", "call", "lock"}]
  /\ key \in [Notifier -> Key \cup {Nobody}] /\ todo \in [Notifier -> SUBSET Ns]
  /\ cur \in [Notifier -> Ns \cup {Nobody}]
  /\ cbs \in [Notifier -> Seq(Caller)] /\ idx \in [Notifier -> Nat \ {0}]
  /\ called \in [Notifier -> [Ns -> Nat]]
  /\ rpc \in [Caller -> {"idle", "lock", "read", "store", "done"}]
  /\ ns \in [Caller -> Ns] /\ app \in [Caller -> Seq(Caller)]

\* The map of callbacks does not change while a notification iterates over it,
\* whatever calls of SharedStorage there are: what a range over a Go map does
\* with a concurrent write is not defined.
MapFixed ==
  [][callbacks' # callbacks =>
       \A t \in Notifier : npc[t] \in {"idle", "wait"}]_storeVars

\* At the end of a notification each callback that is registered under a prefix
\* of the key has been called once, and no other.
CalledExactly ==
  \A t \in Notifier : npc[t] = "iter" /\ todo[t] = {} =>
    \A n \in Ns :
      called[t][n] = IF <<key[t], n>> \in Matches THEN Len(callbacks[n]) ELSE 0

\* The callback of a call of SharedStorage that has returned is registered, and
\* stays so, whatever other calls there are for the same namespace.
Registered ==
  \A c \in Caller : rpc[c] = "done" =>
    \E i \in 1..Len(callbacks[ns[c]]) : callbacks[ns[c]][i] = c

\* Every notification ends, whatever registrations wait for it, and every call of
\* SharedStorage returns, however many notifications keep coming: all that stops
\* them is a callback that calls SharedStorage with a callback, under the read lock.
Deadlocked == \E t \in Notifier : npc[t] = "lock"
NobodyWaits ==
  /\ \A t \in Notifier : []<>(npc[t] = "idle" \/ Deadlocked)
  /\ \A c \in Caller : <>(rpc[c] = "done" \/ Deadlocked)
=============================================================================
