---------------------------- MODULE FsRepoProofs ----------------------------
(***************************************************************************)
(* Proofs about FsRepo, for every set of goroutines, mounts, configurations *)
(* and every number of faults.  The inductive invariant IInv adds to the    *)
(* properties what they rest on: who is inside a section (LockInv), what    *)
(* open() has made so far (OpeningInv), and what config.json holds while    *)
(* it is absent, torn or saved (FileInv, ConfigInv).                        *)
(***************************************************************************)
EXTENDS FsRepo, FiniteSetTheorems, TLAPS

InSection == {"initWrite", "mount", "setWrite"}

\* pkgLock is held between the steps of exactly the section in progress.
LockInv == \A p \in Proc : pc[p] \in InSection <=> pkgLock = p

\* A goroutine that has the repository is between calls or in SetConfig, and
\* has a handle.
OwnerInv ==
  \A p \in Proc : owns[p] => pc[p] \in {"idle", "setWrite"} /\ held[p] \in Handle

\* The fsRepo that open() is filling is known to nobody else, and there is no
\* active one beside it.
OpeningInv ==
  /\ \A p \in Proc :
       pc[p] = "mount" => opening \in Handle /\ active.h = NoHandle
  /\ opening # NoHandle =>
       /\ \E p \in Proc : pc[p] = "mount"
       /\ \A p \in Proc : held[p] # opening

\* Before Init has written, nothing was saved; the directory is there first.
FileInv ==
  /\ ConfigImpliesDatastoreDir
  /\ cfgFile = "absent" => saved = NoObj.cfg
  /\ \A p \in Proc :
       pc[p] = "initWrite" =>
         saved = NoObj.cfg /\ cfgFile = "torn" /\ active.h = NoHandle
  /\ \A p \in Proc : owns[p] \/ pc[p] \in InSection => isInitialized
  /\ active.h # NoHandle => isInitialized

\* Without faults, config.json is torn only while it is being written, and the
\* active fsRepo has the configuration that is on disk or on its way there.
ConfigInv ==
  ~closeAgain /\ faults = 0 =>
    /\ cfgFile = "torn" => \E p \in Proc : pc[p] \in {"initWrite", "setWrite"}
    /\ \A p \in Proc :
         pc[p] = "mount" => cfgFile = "saved" /\ obj[opening].cfg = saved
    /\ active.h # NoHandle /\ cfgFile = "saved" => obj[active.h].cfg = saved
    /\ \A p \in Proc :
         pc[p] = "setWrite" =>
           cfgFile = "torn" /\ active.h # NoHandle /\ obj[active.h].cfg = arg[p]

\* What holds however often callers Close.
IInv ==
  /\ TypeOK
  /\ LockInv
  /\ OwnerInv
  /\ OpeningInv
  /\ FileInv
  /\ ActiveIsOpen
  /\ NoLeakedMounts

\* What holds in addition when every caller closes once per open.
CountInv == RefCountExact /\ ConfigInv

-----------------------------------------------------------------------------
\* The zero value of an fsRepo has its type.
LEMMA NoObjType == NoObj \in [cfg : Config, rootDS : BOOLEAN] /\ NoObj.cfg \in Config
BY DEF NoObj, Config

\* Init establishes the invariants.
LEMMA InitIInv == Init => IInv /\ CountInv
<1> SUFFICES ASSUME Init PROVE IInv /\ CountInv
  OBVIOUS
<1> USE DEF Init, NotActive
<1>1. TypeOK
  <2>1. obj \in [Handle -> [cfg : Config, rootDS : BOOLEAN]]
    BY NoObjType
  <2>2. faults \in 0..MaxFaults
    BY BoundAssumption
  <2>3. owns \in [Proc -> BOOLEAN]
    BY Zenon
  <2>4. QED
    BY <2>1, <2>2, <2>3, NoObjType DEF TypeOK, Phase
<1>2. LockInv /\ OwnerInv /\ OpeningInv
  BY ProcAssumption DEF LockInv, InSection, OwnerInv, OpeningInv
<1>3. FileInv
  BY DEF FileInv, ConfigImpliesDatastoreDir, isInitialized, InSection
<1>4. ActiveIsOpen /\ NoLeakedMounts
  BY DEF ActiveIsOpen, NoLeakedMounts
<1>5. owners = {}
  BY DEF owners
<1>6. RefCountExact
  BY <1>5, FS_EmptySet DEF RefCountExact
<1>7. ConfigInv
  BY DEF ConfigInv
<1>8. QED
  BY <1>1, <1>2, <1>3, <1>4, <1>6, <1>7 DEF IInv, CountInv

\* Every action keeps the types.
LEMMA TypeStep == TypeOK /\ OwnerInv /\ OpeningInv /\ [Next]_vars => TypeOK'
<1> SUFFICES ASSUME TypeOK, OwnerInv, OpeningInv, [Next]_vars,
                    closeAgain' \in BOOLEAN
             PROVE  TypeOK'
  BY SMTT(30) DEF TypeOK, Next, vars
<1> USE DEF TypeOK, disk, stores, Phase, Fault
<1>0. CASE UNCHANGED vars
  BY <1>0 DEF vars
<1>1. ASSUME NEW p \in Proc, Call(p) PROVE TypeOK'
  BY <1>1, ConfigAssumption DEF Call
<1>2. ASSUME NEW p \in Proc, IsInitialized(p) PROVE TypeOK'
  BY <1>2 DEF IsInitialized, Goto
<1>3. ASSUME NEW p \in Proc, RepoInit(p) PROVE TypeOK'
  <2>1. arg' \in [Proc -> Config]
    <3>1. CASE arg[p].ident = NoIdent
      <4>1. PICK i \in Ident : arg' = [arg EXCEPT ![p].ident = i]
        BY <1>3, <3>1 DEF RepoInit
      <4>2. [arg[p] EXCEPT !.ident = i] \in Config
        BY DEF Config
      <4>3. QED
        BY <4>1, <4>2
    <3>2. QED
      BY <1>3, <3>1 DEF RepoInit
  <2>2. QED
    BY Zenon, <1>3, <2>1 DEF RepoInit, Keep
<1> USE NoObjType
<1>4. ASSUME NEW p \in Proc, RepoInitRefused(p) PROVE TypeOK'
  BY <1>4 DEF RepoInitRefused, Return
<1>5. ASSUME NEW p \in Proc, RepoInitFails(p) PROVE TypeOK'
  <2>1. dsDir' \in BOOLEAN
    BY <1>5, Zenon DEF RepoInitFails
  <2>2. QED
    BY <1>5, <2>1, BoundAssumption DEF RepoInitFails, Return
<1>6. ASSUME NEW p \in Proc, WriteConfig(p) PROVE TypeOK'
  BY <1>6 DEF WriteConfig, Return, Goto
<1>7. ASSUME NEW p \in Proc, WriteConfigFails(p) PROVE TypeOK'
  BY <1>7, BoundAssumption DEF WriteConfigFails, Return
<1>8. ASSUME NEW p \in Proc, OpenRefused(p) PROVE TypeOK'
  BY <1>8, BoundAssumption DEF OpenRefused, Return
<1>9. ASSUME NEW p \in Proc, OpenShared(p) PROVE TypeOK'
  BY <1>9 DEF OpenShared, Return, Acquire
<1>10. ASSUME NEW p \in Proc, NEW h \in Handle, OpenFirst(p, h) PROVE TypeOK'
  <2>1. saved.mounts \in SUBSET Mount
    BY DEF Config
  <2>2. obj' \in [Handle -> [cfg : Config, rootDS : BOOLEAN]]
    BY <1>10 DEF OpenFirst
  <2>3. CASE dsDir
    BY <1>10, <2>1, <2>2, <2>3 DEF OpenFirst, Keep
  <2>4. CASE ~dsDir
    <3>1. owns' \in [Proc -> BOOLEAN] /\ dsDir' \in BOOLEAN
      BY Zenon, <1>10, <2>4 DEF OpenFirst, Acquire
    <3>2. QED
      BY SMTT(30), <1>10, <2>2, <2>4, <3>1 DEF OpenFirst, Return, Acquire
  <2>5. QED
    BY <2>3, <2>4
<1>11. ASSUME NEW p \in Proc, NEW m \in Mount, OpenMount(p, m) PROVE TypeOK'
  BY <1>11 DEF OpenMount, OpeningInv
<1>12. ASSUME NEW p \in Proc, NEW m \in Mount, OpenMountFails(p, m) PROVE TypeOK'
  BY <1>12, BoundAssumption DEF OpenMountFails, Return, MountsOf
<1>13. ASSUME NEW p \in Proc, Opened(p) PROVE TypeOK'
  BY Zenon, <1>13 DEF Opened, Return, Acquire, OpeningInv
<1>14. ASSUME NEW p \in Proc, SetConfig(p) PROVE TypeOK'
  BY <1>14, ConfigAssumption DEF SetConfig, Keep, OwnerInv
<1>15. ASSUME NEW p \in Proc, SetConfigFails(p) PROVE TypeOK'
  BY <1>15, ConfigAssumption, BoundAssumption DEF SetConfigFails, Return, OwnerInv
<1>16. ASSUME NEW p \in Proc, Close(p) PROVE TypeOK'
  <2>1. /\ active' \in [h : Handle \cup {NoHandle}, refs : Nat]
        /\ obj' \in [Handle -> [cfg : Config, rootDS : BOOLEAN]]
        /\ openMnts' \in SUBSET (Handle \X Mount)
    <3>1. CASE active.h = NoHandle
      BY <1>16, <3>1 DEF Close
    <3>2. CASE active.h # NoHandle /\ active.refs > 1
      BY <1>16, <3>2 DEF Close
    <3>3. CASE active.h # NoHandle /\ ~(active.refs > 1)
      <4>1. /\ active' = NotActive
            /\ obj' = [obj EXCEPT ![active.h].rootDS = FALSE]
            /\ openMnts' \subseteq openMnts
        BY <1>16, <3>3 DEF Close, MountsOf
      <4>2. active' \in [h : Handle \cup {NoHandle}, refs : Nat]
        BY <4>1 DEF NotActive
      <4>3. obj' \in [Handle -> [cfg : Config, rootDS : BOOLEAN]]
        BY <4>1, <3>3
      <4>4. QED
        BY <4>1, <4>2, <4>3
    <3>4. QED
      BY <3>1, <3>2, <3>3
  <2>2. QED
    BY <1>16, <2>1 DEF Close, Return
<1>17. CASE Crash
  BY <1>17, NoObjType, BoundAssumption DEF Crash, NotActive
<1>18. QED
  BY Zenon, <1>0, <1>1, <1>2, <1>3, <1>4, <1>5, <1>6, <1>7, <1>8, <1>9, <1>10, <1>11,
     <1>12, <1>13, <1>14, <1>15, <1>16, <1>17 DEF Next, Step

\* The section in progress is the one that holds pkgLock.
LEMMA LockStep == TypeOK /\ LockInv /\ [Next]_vars => LockInv'
<1> SUFFICES ASSUME TypeOK, LockInv, [Next]_vars PROVE LockInv'
  OBVIOUS
<1> USE DEF TypeOK, LockInv, InSection, Phase
<1>0. CASE UNCHANGED vars
  BY <1>0 DEF vars
<1>1. ASSUME NEW p \in Proc, Call(p) PROVE LockInv'
  BY <1>1, ProcAssumption DEF Call
<1>2. ASSUME NEW p \in Proc, IsInitialized(p) PROVE LockInv'
  BY <1>2, ProcAssumption DEF IsInitialized, Goto
<1>3. ASSUME NEW p \in Proc, RepoInit(p) PROVE LockInv'
  BY <1>3, ProcAssumption DEF RepoInit, Keep
<1>4. ASSUME NEW p \in Proc, RepoInitRefused(p) PROVE LockInv'
  BY <1>4, ProcAssumption DEF RepoInitRefused, Return
<1>5. ASSUME NEW p \in Proc, RepoInitFails(p) PROVE LockInv'
  BY <1>5, ProcAssumption DEF RepoInitFails, Return
<1>6. ASSUME NEW p \in Proc, WriteConfig(p) PROVE LockInv'
  BY <1>6, ProcAssumption DEF WriteConfig, Return, Goto
<1>7. ASSUME NEW p \in Proc, WriteConfigFails(p) PROVE LockInv'
  BY <1>7, ProcAssumption DEF WriteConfigFails, Return
<1>8. ASSUME NEW p \in Proc, OpenRefused(p) PROVE LockInv'
  BY <1>8, ProcAssumption DEF OpenRefused, Return
<1>9. ASSUME NEW p \in Proc, OpenShared(p) PROVE LockInv'
  BY <1>9, ProcAssumption DEF OpenShared, Return, Acquire
<1>10. ASSUME NEW p \in Proc, NEW h \in Handle, OpenFirst(p, h) PROVE LockInv'
  BY <1>10, ProcAssumption DEF OpenFirst, Keep, Return, Acquire
<1>11. ASSUME NEW p \in Proc, NEW m \in Mount, OpenMount(p, m) PROVE LockInv'
  BY <1>11, ProcAssumption DEF OpenMount
<1>12. ASSUME NEW p \in Proc, NEW m \in Mount, OpenMountFails(p, m) PROVE LockInv'
  BY <1>12, ProcAssumption DEF OpenMountFails, Return, MountsOf
<1>13. ASSUME NEW p \in Proc, Opened(p) PROVE LockInv'
  BY <1>13, ProcAssumption DEF Opened, Return, Acquire
<1>14. ASSUME NEW p \in Proc, SetConfig(p) PROVE LockInv'
  BY <1>14, ProcAssumption DEF SetConfig, Keep
<1>15. ASSUME NEW p \in Proc, SetConfigFails(p) PROVE LockInv'
  BY <1>15, ProcAssumption DEF SetConfigFails, Return
<1>16. ASSUME NEW p \in Proc, Close(p) PROVE LockInv'
  BY <1>16, ProcAssumption DEF Close, Return, MountsOf, NotActive
<1>17. CASE Crash
  BY <1>17, ProcAssumption DEF Crash, NotActive
<1>18. QED
  BY SMTT(30), <1>0, <1>1, <1>2, <1>3, <1>4, <1>5, <1>6, <1>7, <1>8, <1>9, <1>10, <1>11,
     <1>12, <1>13, <1>14, <1>15, <1>16, <1>17 DEF Next, Step

\* A caller that has the repository has a handle and makes no other call.
LEMMA OwnerStep == TypeOK /\ LockInv /\ OwnerInv /\ OpeningInv /\ [Next]_vars => OwnerInv'
<1> SUFFICES ASSUME TypeOK, LockInv, OwnerInv, OpeningInv, [Next]_vars PROVE OwnerInv'
  OBVIOUS
<1> USE DEF TypeOK, OwnerInv, LockInv, OpeningInv, InSection, Phase, disk, stores
<1>0. CASE UNCHANGED vars
  BY <1>0 DEF vars
<1>1. ASSUME NEW p \in Proc, Call(p) PROVE OwnerInv'
  BY <1>1, ProcAssumption, BoundAssumption DEF Call
<1>2. ASSUME NEW p \in Proc, IsInitialized(p) PROVE OwnerInv'
  BY <1>2, ProcAssumption, BoundAssumption DEF IsInitialized, Goto
<1>3. ASSUME NEW p \in Proc, RepoInit(p) PROVE OwnerInv'
  BY <1>3, ProcAssumption, BoundAssumption DEF RepoInit, Keep
<1>4. ASSUME NEW p \in Proc, RepoInitRefused(p) PROVE OwnerInv'
  BY <1>4, ProcAssumption, BoundAssumption DEF RepoInitRefused, Return
<1>5. ASSUME NEW p \in Proc, RepoInitFails(p) PROVE OwnerInv'
  BY <1>5, ProcAssumption, BoundAssumption DEF RepoInitFails, Return
<1>6. ASSUME NEW p \in Proc, WriteConfig(p) PROVE OwnerInv'
  BY <1>6, ProcAssumption, BoundAssumption DEF WriteConfig, Return, Goto
<1>7. ASSUME NEW p \in Proc, WriteConfigFails(p) PROVE OwnerInv'
  BY <1>7, ProcAssumption, BoundAssumption DEF WriteConfigFails, Return
<1>8. ASSUME NEW p \in Proc, OpenRefused(p) PROVE OwnerInv'
  BY <1>8, ProcAssumption, BoundAssumption DEF OpenRefused, Return
<1>9. ASSUME NEW p \in Proc, OpenShared(p) PROVE OwnerInv'
  BY <1>9, ProcAssumption, BoundAssumption DEF OpenShared, Return, Acquire
<1>10. ASSUME NEW p \in Proc, NEW h \in Handle, OpenFirst(p, h) PROVE OwnerInv'
  <2>1. ~owns[p]
    BY <1>10 DEF OpenFirst
  <2>2. CASE dsDir
    <3>1. pc' = [pc EXCEPT ![p] = "mount"] /\ owns' = owns /\ held' = held
      BY <1>10, <2>2 DEF OpenFirst, Keep
    <3>2. QED
      BY SMTT(30), <2>1, <3>1
  <2>3. CASE ~dsDir
    <3>1. /\ pc' = [pc EXCEPT ![p] = "idle"] /\ held' = [held EXCEPT ![p] = h]
          /\ owns' = [owns EXCEPT ![p] = TRUE]
      BY <1>10, <2>3 DEF OpenFirst, Return, Acquire
    <3>2. QED
      BY SMTT(30), <3>1
  <2>4. QED
    BY SMTT(30), <2>2, <2>3
<1>11. ASSUME NEW p \in Proc, NEW m \in Mount, OpenMount(p, m) PROVE OwnerInv'
  BY <1>11, ProcAssumption, BoundAssumption DEF OpenMount
<1>12. ASSUME NEW p \in Proc, NEW m \in Mount, OpenMountFails(p, m) PROVE OwnerInv'
  BY <1>12, ProcAssumption, BoundAssumption DEF OpenMountFails, Return, MountsOf
<1>13. ASSUME NEW p \in Proc, Opened(p) PROVE OwnerInv'
  BY <1>13, ProcAssumption, BoundAssumption DEF Opened, Return, Acquire
<1>14. ASSUME NEW p \in Proc, SetConfig(p) PROVE OwnerInv'
  BY <1>14, ProcAssumption, BoundAssumption DEF SetConfig, Keep
<1>15. ASSUME NEW p \in Proc, SetConfigFails(p) PROVE OwnerInv'
  BY <1>15, ProcAssumption, BoundAssumption DEF SetConfigFails, Return
<1>16. ASSUME NEW p \in Proc, Close(p) PROVE OwnerInv'
  BY <1>16, ProcAssumption, BoundAssumption DEF Close, Return, MountsOf, NotActive
<1>17. CASE Crash
  BY <1>17, ProcAssumption, BoundAssumption DEF Crash, NotActive
<1>18. QED
  BY Zenon, <1>0, <1>1, <1>2, <1>3, <1>4, <1>5, <1>6, <1>7, <1>8, <1>9, <1>10, <1>11,
     <1>12, <1>13, <1>14, <1>15, <1>16, <1>17 DEF Next, Step

\* The fsRepo being opened stays private, and alone.
LEMMA OpeningStep == TypeOK /\ LockInv /\ OpeningInv /\ [Next]_vars => OpeningInv'
<1> SUFFICES ASSUME TypeOK, LockInv, OpeningInv, [Next]_vars PROVE OpeningInv'
  OBVIOUS
<1> USE DEF TypeOK, LockInv, OpeningInv, InSection, Phase, disk, stores
<1>0. CASE UNCHANGED vars
  BY <1>0 DEF vars
<1>1. ASSUME NEW p \in Proc, Call(p) PROVE OpeningInv'
  BY <1>1, ProcAssumption, BoundAssumption DEF Call
<1>2. ASSUME NEW p \in Proc, IsInitialized(p) PROVE OpeningInv'
  BY <1>2, ProcAssumption, BoundAssumption DEF IsInitialized, Goto
<1>3. ASSUME NEW p \in Proc, RepoInit(p) PROVE OpeningInv'
  BY <1>3, ProcAssumption, BoundAssumption DEF RepoInit, Keep
<1>4. ASSUME NEW p \in Proc, RepoInitRefused(p) PROVE OpeningInv'
  BY <1>4, ProcAssumption, BoundAssumption DEF RepoInitRefused, Return
<1>5. ASSUME NEW p \in Proc, RepoInitFails(p) PROVE OpeningInv'
  BY <1>5, ProcAssumption, BoundAssumption DEF RepoInitFails, Return
<1>6. ASSUME NEW p \in Proc, WriteConfig(p) PROVE OpeningInv'
  BY <1>6, ProcAssumption, BoundAssumption DEF WriteConfig, Return, Goto
<1>7. ASSUME NEW p \in Proc, WriteConfigFails(p) PROVE OpeningInv'
  BY <1>7, ProcAssumption, BoundAssumption DEF WriteConfigFails, Return
<1>8. ASSUME NEW p \in Proc, OpenRefused(p) PROVE OpeningInv'
  BY <1>8, ProcAssumption, BoundAssumption DEF OpenRefused, Return
<1>9. ASSUME NEW p \in Proc, OpenShared(p) PROVE OpeningInv'
  BY SMTT(30), <1>9, ProcAssumption, BoundAssumption DEF OpenShared, Return, Acquire
<1>10. ASSUME NEW p \in Proc, NEW h \in Handle, OpenFirst(p, h) PROVE OpeningInv'
  BY <1>10, ProcAssumption, BoundAssumption DEF OpenFirst, Unused, Keep, Return,
     Acquire
<1>11. ASSUME NEW p \in Proc, NEW m \in Mount, OpenMount(p, m) PROVE OpeningInv'
  BY <1>11, ProcAssumption, BoundAssumption DEF OpenMount
<1>12. ASSUME NEW p \in Proc, NEW m \in Mount, OpenMountFails(p, m) PROVE OpeningInv'
  BY <1>12, ProcAssumption, BoundAssumption DEF OpenMountFails, Return, MountsOf
<1>13. ASSUME NEW p \in Proc, Opened(p) PROVE OpeningInv'
  BY <1>13, ProcAssumption, BoundAssumption DEF Opened, Return, Acquire
<1>14. ASSUME NEW p \in Proc, SetConfig(p) PROVE OpeningInv'
  BY <1>14, ProcAssumption, BoundAssumption DEF SetConfig, Keep
<1>15. ASSUME NEW p \in Proc, SetConfigFails(p) PROVE OpeningInv'
  BY <1>15, ProcAssumption, BoundAssumption DEF SetConfigFails, Return
<1>16. ASSUME NEW p \in Proc, Close(p) PROVE OpeningInv'
  BY <1>16, ProcAssumption, BoundAssumption DEF Close, Return, MountsOf, NotActive
<1>17. CASE Crash
  BY <1>17, ProcAssumption, BoundAssumption DEF Crash, NotActive
<1>18. QED
  BY Zenon, <1>0, <1>1, <1>2, <1>3, <1>4, <1>5, <1>6, <1>7, <1>8, <1>9, <1>10, <1>11,
     <1>12, <1>13, <1>14, <1>15, <1>16, <1>17 DEF Next, Step

\* What config.json holds before, during and after Init.
LEMMA FileStep == TypeOK /\ LockInv /\ OpeningInv /\ FileInv /\ [Next]_vars => FileInv'
<1> SUFFICES ASSUME TypeOK, LockInv, OpeningInv, FileInv, [Next]_vars PROVE FileInv'
  OBVIOUS
<1> USE DEF TypeOK, LockInv, OpeningInv, FileInv, ConfigImpliesDatastoreDir,
            isInitialized, InSection, Phase, disk, stores
<1>0. CASE UNCHANGED vars
  BY SMTT(30), <1>0 DEF vars
<1>1. ASSUME NEW p \in Proc, Call(p) PROVE FileInv'
  BY SMTT(30), <1>1, ProcAssumption, BoundAssumption DEF Call
<1>2. ASSUME NEW p \in Proc, IsInitialized(p) PROVE FileInv'
  BY <1>2, ProcAssumption, BoundAssumption DEF IsInitialized, Goto
<1>3. ASSUME NEW p \in Proc, RepoInit(p) PROVE FileInv'
  BY SMTT(30), <1>3, ProcAssumption, BoundAssumption DEF RepoInit, Keep
<1>4. ASSUME NEW p \in Proc, RepoInitRefused(p) PROVE FileInv'
  BY <1>4, ProcAssumption, BoundAssumption DEF RepoInitRefused, Return
<1>5. ASSUME NEW p \in Proc, RepoInitFails(p) PROVE FileInv'
  BY <1>5, ProcAssumption, BoundAssumption DEF RepoInitFails, Return
<1>6. ASSUME NEW p \in Proc, WriteConfig(p) PROVE FileInv'
  BY <1>6, ProcAssumption, BoundAssumption DEF WriteConfig, Return, Goto
<1>7. ASSUME NEW p \in Proc, WriteConfigFails(p) PROVE FileInv'
  BY <1>7, ProcAssumption, BoundAssumption DEF WriteConfigFails, Return
<1>8. ASSUME NEW p \in Proc, OpenRefused(p) PROVE FileInv'
  BY <1>8, ProcAssumption, BoundAssumption DEF OpenRefused, Return
<1>9. ASSUME NEW p \in Proc, OpenShared(p) PROVE FileInv'
  BY SMTT(30), <1>9, ProcAssumption, BoundAssumption DEF OpenShared, Return, Acquire
<1>10. ASSUME NEW p \in Proc, NEW h \in Handle, OpenFirst(p, h) PROVE FileInv'
  BY SMTT(30), <1>10, ProcAssumption, BoundAssumption DEF OpenFirst, Unused, Keep, Return,
     Acquire
<1>11. ASSUME NEW p \in Proc, NEW m \in Mount, OpenMount(p, m) PROVE FileInv'
  BY <1>11, ProcAssumption, BoundAssumption DEF OpenMount
<1>12. ASSUME NEW p \in Proc, NEW m \in Mount, OpenMountFails(p, m) PROVE FileInv'
  BY <1>12, ProcAssumption, BoundAssumption DEF OpenMountFails, Return, MountsOf
<1>13. ASSUME NEW p \in Proc, Opened(p) PROVE FileInv'
  BY <1>13, ProcAssumption, BoundAssumption DEF Opened, Return, Acquire
<1>14. ASSUME NEW p \in Proc, SetConfig(p) PROVE FileInv'
  BY <1>14, ProcAssumption, BoundAssumption DEF SetConfig, Keep
<1>15. ASSUME NEW p \in Proc, SetConfigFails(p) PROVE FileInv'
  BY <1>15, ProcAssumption, BoundAssumption DEF SetConfigFails, Return
<1>16. ASSUME NEW p \in Proc, Close(p) PROVE FileInv'
  BY SMTT(30), <1>16, ProcAssumption, BoundAssumption DEF Close, Return, MountsOf, NotActive
<1>17. CASE Crash
  BY <1>17, ProcAssumption, BoundAssumption DEF Crash, NotActive
<1>18. QED
  BY Zenon, <1>0, <1>1, <1>2, <1>3, <1>4, <1>5, <1>6, <1>7, <1>8, <1>9, <1>10, <1>11,
     <1>12, <1>13, <1>14, <1>15, <1>16, <1>17 DEF Next, Step

\* The entry of ActiveMap stays open.
LEMMA ActiveStep ==
  TypeOK /\ LockInv /\ OwnerInv /\ OpeningInv /\ FileInv /\ ActiveIsOpen /\ [Next]_vars
    => ActiveIsOpen'
<1> SUFFICES ASSUME TypeOK, LockInv, OwnerInv, OpeningInv, FileInv, ActiveIsOpen,
                    [Next]_vars
             PROVE  ActiveIsOpen'
  OBVIOUS
<1> USE DEF TypeOK, LockInv, OwnerInv, OpeningInv, FileInv,
            ConfigImpliesDatastoreDir, isInitialized, ActiveIsOpen, disk, stores
<1>0. CASE UNCHANGED vars
  BY SMTT(30), <1>0 DEF vars
<1>1. ASSUME NEW p \in Proc, Call(p) PROVE ActiveIsOpen'
  BY SMTT(30), <1>1, BoundAssumption DEF Call
<1>2. ASSUME NEW p \in Proc, IsInitialized(p) PROVE ActiveIsOpen'
  BY <1>2, BoundAssumption DEF IsInitialized, Goto
<1>3. ASSUME NEW p \in Proc, RepoInit(p) PROVE ActiveIsOpen'
  BY SMTT(30), <1>3, BoundAssumption DEF RepoInit, Keep
<1>4. ASSUME NEW p \in Proc, RepoInitRefused(p) PROVE ActiveIsOpen'
  BY SMTT(30), <1>4, BoundAssumption DEF RepoInitRefused, Return
<1>5. ASSUME NEW p \in Proc, RepoInitFails(p) PROVE ActiveIsOpen'
  BY <1>5, BoundAssumption DEF RepoInitFails, Return
<1>6. ASSUME NEW p \in Proc, WriteConfig(p) PROVE ActiveIsOpen'
  BY <1>6, BoundAssumption DEF WriteConfig, Return, Goto
<1>7. ASSUME NEW p \in Proc, WriteConfigFails(p) PROVE ActiveIsOpen'
  BY <1>7, BoundAssumption DEF WriteConfigFails, Return
<1>8. ASSUME NEW p \in Proc, OpenRefused(p) PROVE ActiveIsOpen'
  BY <1>8, BoundAssumption DEF OpenRefused, Return
<1>9. ASSUME NEW p \in Proc, OpenShared(p) PROVE ActiveIsOpen'
  BY SMTT(30), <1>9, BoundAssumption DEF OpenShared, Return, Acquire
<1>10. ASSUME NEW p \in Proc, NEW h \in Handle, OpenFirst(p, h) PROVE ActiveIsOpen'
  BY SMTT(30), <1>10, BoundAssumption DEF OpenFirst, Unused, Keep, Return,
     Acquire
<1>11. ASSUME NEW p \in Proc, NEW m \in Mount, OpenMount(p, m) PROVE ActiveIsOpen'
  BY SMTT(30), <1>11, BoundAssumption DEF OpenMount
<1>12. ASSUME NEW p \in Proc, NEW m \in Mount, OpenMountFails(p, m) PROVE ActiveIsOpen'
  BY <1>12, BoundAssumption DEF OpenMountFails, Return, MountsOf
<1>13. ASSUME NEW p \in Proc, Opened(p) PROVE ActiveIsOpen'
  BY <1>13, BoundAssumption DEF Opened, Return, Acquire
<1>14. ASSUME NEW p \in Proc, SetConfig(p) PROVE ActiveIsOpen'
  BY <1>14, BoundAssumption DEF SetConfig, Keep
<1>15. ASSUME NEW p \in Proc, SetConfigFails(p) PROVE ActiveIsOpen'
  BY <1>15, BoundAssumption DEF SetConfigFails, Return
<1>16. ASSUME NEW p \in Proc, Close(p) PROVE ActiveIsOpen'
  BY SMTT(30), <1>16, BoundAssumption DEF Close, Return, MountsOf, NotActive
<1>17. CASE Crash
  BY <1>17, BoundAssumption DEF Crash, NotActive
<1>18. QED
  BY Zenon, <1>0, <1>1, <1>2, <1>3, <1>4, <1>5, <1>6, <1>7, <1>8, <1>9, <1>10, <1>11,
     <1>12, <1>13, <1>14, <1>15, <1>16, <1>17 DEF Next, Step

\* No mount outlives the fsRepo it was opened for.
LEMMA MountsStep ==
  TypeOK /\ LockInv /\ OpeningInv /\ FileInv /\ NoLeakedMounts /\ [Next]_vars
    => NoLeakedMounts'
<1> SUFFICES ASSUME TypeOK, LockInv, OpeningInv, FileInv, NoLeakedMounts,
                    [Next]_vars
             PROVE  NoLeakedMounts'
  OBVIOUS
<1> USE DEF TypeOK, LockInv, OpeningInv, FileInv, ConfigImpliesDatastoreDir,
            isInitialized, NoLeakedMounts, InSection, disk, stores
<1>0. CASE UNCHANGED vars
  BY SMTT(30), <1>0 DEF vars
<1>1. ASSUME NEW p \in Proc, Call(p) PROVE NoLeakedMounts'
  BY SMTT(30), <1>1, ProcAssumption, BoundAssumption DEF Call
<1>2. ASSUME NEW p \in Proc, IsInitialized(p) PROVE NoLeakedMounts'
  BY <1>2, ProcAssumption, BoundAssumption DEF IsInitialized, Goto
<1>3. ASSUME NEW p \in Proc, RepoInit(p) PROVE NoLeakedMounts'
  BY SMTT(30), <1>3, ProcAssumption, BoundAssumption DEF RepoInit, Keep
<1>4. ASSUME NEW p \in Proc, RepoInitRefused(p) PROVE NoLeakedMounts'
  BY SMTT(30), <1>4, ProcAssumption, BoundAssumption DEF RepoInitRefused, Return
<1>5. ASSUME NEW p \in Proc, RepoInitFails(p) PROVE NoLeakedMounts'
  BY SMTT(30), <1>5, ProcAssumption, BoundAssumption DEF RepoInitFails, Return
<1>6. ASSUME NEW p \in Proc, WriteConfig(p) PROVE NoLeakedMounts'
  BY SMTT(30), <1>6, ProcAssumption, BoundAssumption DEF WriteConfig, Return, Goto
<1>7. ASSUME NEW p \in Proc, WriteConfigFails(p) PROVE NoLeakedMounts'
  BY SMTT(30), <1>7, ProcAssumption, BoundAssumption DEF WriteConfigFails, Return
<1>8. ASSUME NEW p \in Proc, OpenRefused(p) PROVE NoLeakedMounts'
  BY <1>8, ProcAssumption, BoundAssumption DEF OpenRefused, Return
<1>9. ASSUME NEW p \in Proc, OpenShared(p) PROVE NoLeakedMounts'
  BY SMTT(30), <1>9, ProcAssumption, BoundAssumption DEF OpenShared, Return, Acquire
<1>10. ASSUME NEW p \in Proc, NEW h \in Handle, OpenFirst(p, h) PROVE NoLeakedMounts'
  BY SMTT(30), <1>10, ProcAssumption, BoundAssumption DEF OpenFirst, Unused, Keep, Return,
     Acquire
<1>11. ASSUME NEW p \in Proc, NEW m \in Mount, OpenMount(p, m) PROVE NoLeakedMounts'
  BY SMTT(30), <1>11, ProcAssumption, BoundAssumption DEF OpenMount
<1>12. ASSUME NEW p \in Proc, NEW m \in Mount, OpenMountFails(p, m) PROVE NoLeakedMounts'
  BY <1>12, ProcAssumption, BoundAssumption DEF OpenMountFails, Return, MountsOf
<1>13. ASSUME NEW p \in Proc, Opened(p) PROVE NoLeakedMounts'
  BY <1>13, ProcAssumption, BoundAssumption DEF Opened, Return, Acquire
<1>14. ASSUME NEW p \in Proc, SetConfig(p) PROVE NoLeakedMounts'
  BY <1>14, ProcAssumption, BoundAssumption DEF SetConfig, Keep
<1>15. ASSUME NEW p \in Proc, SetConfigFails(p) PROVE NoLeakedMounts'
  BY <1>15, ProcAssumption, BoundAssumption DEF SetConfigFails, Return
<1>16. ASSUME NEW p \in Proc, Close(p) PROVE NoLeakedMounts'
  BY SMTT(30), <1>16, ProcAssumption, BoundAssumption DEF Close, Return, MountsOf, NotActive
<1>17. CASE Crash
  BY SMTT(30), <1>17, ProcAssumption, BoundAssumption DEF Crash, NotActive
<1>18. QED
  BY Zenon, <1>0, <1>1, <1>2, <1>3, <1>4, <1>5, <1>6, <1>7, <1>8, <1>9, <1>10, <1>11,
     <1>12, <1>13, <1>14, <1>15, <1>16, <1>17 DEF Next, Step

-----------------------------------------------------------------------------
(* The reference count, when every caller closes once per open *)

\* Finitely many goroutines have the repository open.
LEMMA OwnersFinite == IsFiniteSet(owners) /\ Cardinality(owners) \in Nat
BY ProcAssumption, FS_Subset, FS_CardinalityType DEF owners

\* An open adds its caller to the owners, a Close removes it.
LEMMA OwnersAdd ==
  ASSUME TypeOK, NEW p \in Proc, ~owns[p], owns' = [owns EXCEPT ![p] = TRUE]
  PROVE  owners' = owners \cup {p} /\ Cardinality(owners') = Cardinality(owners) + 1
<1>1. owners' = owners \cup {p} /\ p \notin owners
  BY DEF owners, TypeOK
<1>2. QED
  BY <1>1, OwnersFinite, FS_AddElement

\* The converse of OwnersAdd: a Close takes its caller out of the owners.
LEMMA OwnersRemove ==
  ASSUME TypeOK, NEW p \in Proc, owns[p], owns' = [owns EXCEPT ![p] = FALSE]
  PROVE  owners' = owners \ {p} /\ Cardinality(owners') = Cardinality(owners) - 1
<1>1. owners' = owners \ {p} /\ p \in owners
  BY DEF owners, TypeOK
<1>2. QED
  BY SMTT(30), <1>1, OwnersFinite, FS_RemoveElement

\* Whether callers close again is chosen once.
LEMMA CloseAgainKept == [Next]_vars => closeAgain' = closeAgain
<1>1. CASE Next
  BY <1>1, Zenon DEF Next
<1>2. CASE UNCHANGED vars
  BY <1>2 DEF vars
<1> QED BY <1>1, <1>2

\* The RefCnt of an open repository counts its owners.
LEMMA RefCountStep ==
  IInv /\ RefCountExact /\ [Next]_vars => RefCountExact'
<1> SUFFICES ASSUME IInv, RefCountExact, [Next]_vars, ~closeAgain
             PROVE  RefCountExact'
  BY CloseAgainKept DEF RefCountExact
<1> USE DEF IInv
<1>0. ASSUME owns' = owns, held' = held, active' = active PROVE RefCountExact'
  BY SMTT(30), <1>0 DEF RefCountExact, owners
<1>1. ASSUME NEW p \in Proc, OpenShared(p) PROVE RefCountExact'
  <2>1. ~owns[p]
    BY <1>1 DEF OpenShared, OwnerInv
  <2>2. owners' = owners \cup {p} /\ Cardinality(owners') = Cardinality(owners) + 1
    BY Zenon, <1>1, <2>1, OwnersAdd DEF OpenShared, Acquire
  <2>3. active'.refs = active.refs + 1 /\ active'.h = active.h
    BY <1>1 DEF OpenShared, TypeOK
  <2>4. held' = [held EXCEPT ![p] = active.h]
    BY <1>1 DEF OpenShared, Acquire
  <2>5. QED
    BY <1>1, <2>2, <2>3, <2>4 DEF RefCountExact, OpenShared, TypeOK, owners
<1>2. ASSUME NEW p \in Proc, NEW h \in Handle, OpenFirst(p, h) PROVE RefCountExact'
  BY <1>0, <1>2 DEF OpenFirst, FileInv, ConfigImpliesDatastoreDir, isInitialized
<1>3. ASSUME NEW p \in Proc, Opened(p) PROVE RefCountExact'
  <2>1. ~owns[p] /\ active.h = NoHandle /\ opening \in Handle
    BY SMTT(30), <1>3 DEF Opened, OwnerInv, OpeningInv
  <2>2. owners = {} /\ Cardinality(owners) = 0
    BY <2>1, FS_EmptySet DEF RefCountExact
  <2>3. owners' = {p} /\ Cardinality(owners') = 1
    <3>1. owners' = owners \cup {p} /\ Cardinality(owners') = Cardinality(owners) + 1
      BY Zenon, <1>3, <2>1, OwnersAdd DEF Opened, Acquire
    <3>2. QED
      BY <2>2, <3>1
  <2>4. active' = [h |-> opening, refs |-> 1] /\ held' = [held EXCEPT ![p] = opening]
    BY <1>3 DEF Opened, Acquire
  <2>5. QED
    BY <2>1, <2>3, <2>4, BoundAssumption DEF RefCountExact, TypeOK
<1>4. ASSUME NEW p \in Proc, Close(p) PROVE RefCountExact'
  <2>1. owns[p]
    BY <1>4 DEF Close
  <2>2. owners' = owners \ {p} /\ Cardinality(owners') = Cardinality(owners) - 1
    BY Zenon, <1>4, <2>1, OwnersRemove DEF Close
  <2>3. active.h # NoHandle /\ active.refs = Cardinality(owners)
    BY <2>1 DEF RefCountExact, owners
  <2>4. \A q \in owners' : held'[q] = active.h
    BY <1>4, <2>2 DEF RefCountExact, Close
  <2>5. CASE active.refs > 1
    <3>1. active' = [active EXCEPT !.refs = active.refs - 1]
      BY <1>4, <2>3, <2>5 DEF Close
    <3>2. active'.h = active.h /\ active'.refs = active.refs - 1
      BY <3>1 DEF TypeOK
    <3>3. owners' # {}
      <4>1. Cardinality(owners') # 0
        BY SMTT(30), <2>2, <2>3, <2>5, OwnersFinite
      <4>2. QED
        BY <4>1, FS_EmptySet
    <3>4. QED
      BY <2>2, <2>3, <2>4, <3>2, <3>3 DEF RefCountExact
  <2>6. CASE ~(active.refs > 1)
    <3>1. active' = NotActive
      BY <1>4, <2>3, <2>6 DEF Close
    <3>2. Cardinality(owners') = 0
      <4>1. active.refs = 1
        BY <2>3, <2>6 DEF ActiveIsOpen, TypeOK
      <4>2. QED
        BY <2>2, <2>3, <4>1
    <3>3. owners' = {}
      <4>1. IsFiniteSet(owners')
        BY SMTT(30), <2>2, OwnersFinite, FS_RemoveElement
      <4>2. QED
        BY <3>2, <4>1, FS_EmptySet
    <3>4. QED
      BY <3>1, <3>2, <3>3 DEF RefCountExact, NotActive
  <2>7. QED
    BY <2>5, <2>6
<1>5. CASE Crash
  <2>1. owners' = {}
    BY <1>5 DEF Crash, owners
  <2>2. QED
    BY <1>5, <2>1, FS_EmptySet DEF Crash, RefCountExact, NotActive
<1>6. QED
  BY Zenon, <1>0, <1>1, <1>2, <1>3, <1>4, <1>5
  DEF Next, Step, vars, stores, Call, IsInitialized, RepoInit, RepoInitRefused,
      RepoInitFails, WriteConfig, WriteConfigFails, OpenRefused, OpenMount,
      OpenMountFails, SetConfig, SetConfigFails

\* Without faults, memory and disk agree.
LEMMA ConfigStep ==
  IInv /\ RefCountExact /\ ConfigInv /\ [Next]_vars => ConfigInv'
<1> SUFFICES ASSUME IInv, RefCountExact, ConfigInv, [Next]_vars, ~closeAgain
             PROVE  ConfigInv'
  BY Zenon, CloseAgainKept DEF ConfigInv
<1> USE DEF TypeOK, LockInv, OwnerInv, OpeningInv, FileInv, isInitialized, IInv,
            RefCountExact, owners, ConfigInv, InSection, disk, stores, Fault
<1>0. CASE UNCHANGED vars
  BY SMTT(30), <1>0 DEF vars
<1>1. ASSUME NEW p \in Proc, Call(p) PROVE ConfigInv'
  BY SMTT(30), <1>1, ProcAssumption, BoundAssumption DEF Call
<1>2. ASSUME NEW p \in Proc, IsInitialized(p) PROVE ConfigInv'
  BY <1>2, ProcAssumption, BoundAssumption DEF IsInitialized, Goto
<1>3. ASSUME NEW p \in Proc, RepoInit(p) PROVE ConfigInv'
  BY SMTT(30), <1>3, ProcAssumption, BoundAssumption DEF RepoInit, Keep
<1>4. ASSUME NEW p \in Proc, RepoInitRefused(p) PROVE ConfigInv'
  BY SMTT(30), <1>4, ProcAssumption, BoundAssumption DEF RepoInitRefused, Return
<1>5. ASSUME NEW p \in Proc, RepoInitFails(p) PROVE ConfigInv'
  BY SMTT(30), <1>5, ProcAssumption, BoundAssumption DEF RepoInitFails, Return
<1>6. ASSUME NEW p \in Proc, WriteConfig(p) PROVE ConfigInv'
  BY SMTT(30), <1>6, ProcAssumption, BoundAssumption DEF WriteConfig, Return, Goto
<1>7. ASSUME NEW p \in Proc, WriteConfigFails(p) PROVE ConfigInv'
  BY SMTT(30), <1>7, ProcAssumption, BoundAssumption DEF WriteConfigFails, Return
<1>8. ASSUME NEW p \in Proc, OpenRefused(p) PROVE ConfigInv'
  BY <1>8, ProcAssumption, BoundAssumption DEF OpenRefused, Return
<1>9. ASSUME NEW p \in Proc, OpenShared(p) PROVE ConfigInv'
  BY SMTT(30), <1>9, ProcAssumption, BoundAssumption DEF OpenShared, Return, Acquire
<1>10. ASSUME NEW p \in Proc, NEW h \in Handle, OpenFirst(p, h) PROVE ConfigInv'
  BY SMTT(30), <1>10, ProcAssumption, BoundAssumption DEF OpenFirst, Unused, Keep, Return,
     Acquire
<1>11. ASSUME NEW p \in Proc, NEW m \in Mount, OpenMount(p, m) PROVE ConfigInv'
  BY SMTT(30), <1>11, ProcAssumption, BoundAssumption DEF OpenMount
<1>12. ASSUME NEW p \in Proc, NEW m \in Mount, OpenMountFails(p, m) PROVE ConfigInv'
  BY <1>12, ProcAssumption, BoundAssumption DEF OpenMountFails, Return, MountsOf
<1>13. ASSUME NEW p \in Proc, Opened(p) PROVE ConfigInv'
  BY <1>13, ProcAssumption, BoundAssumption DEF Opened, Return, Acquire
<1>14. ASSUME NEW p \in Proc, SetConfig(p) PROVE ConfigInv'
  BY <1>14, ProcAssumption, BoundAssumption DEF SetConfig, Keep
<1>15. ASSUME NEW p \in Proc, SetConfigFails(p) PROVE ConfigInv'
  BY <1>15, ProcAssumption, BoundAssumption DEF SetConfigFails, Return
<1>16. ASSUME NEW p \in Proc, Close(p) PROVE ConfigInv'
  BY SMTT(30), <1>16, ProcAssumption, BoundAssumption DEF Close, Return, MountsOf, NotActive
<1>17. CASE Crash
  BY <1>17, ProcAssumption, BoundAssumption DEF Crash, NotActive
<1>18. QED
  BY Zenon, <1>0, <1>1, <1>2, <1>3, <1>4, <1>5, <1>6, <1>7, <1>8, <1>9, <1>10, <1>11,
     <1>12, <1>13, <1>14, <1>15, <1>16, <1>17 DEF Next, Step

-----------------------------------------------------------------------------
(* Theorems *)

\* Every step preserves the inductive invariant.
LEMMA IInvStep == IInv /\ [Next]_vars => IInv'
BY TypeStep, LockStep, OwnerStep, OpeningStep, FileStep, ActiveStep, MountsStep
DEF IInv

\* The strengthened invariant holds in every reachable state.
THEOREM Invariance == Spec => []IInv
BY InitIInv, IInvStep, PTL DEF Spec

\* The type invariant of the repository model.
THEOREM TypeCorrect == Spec => []TypeOK
<1>1. IInv => TypeOK
  BY DEF IInv
<1>2. QED
  BY <1>1, Invariance, PTL

\* However often callers Close, ActiveMap never hands out a closed fsRepo.
THEOREM ActiveAlwaysOpen == Spec => []ActiveIsOpen
<1>1. IInv => ActiveIsOpen
  BY DEF IInv
<1>2. QED
  BY <1>1, Invariance, PTL

\* No failing open, Close or crash leaves a datastore open behind.
THEOREM MountsReleased == Spec => []NoLeakedMounts
<1>1. IInv => NoLeakedMounts
  BY DEF IInv
<1>2. QED
  BY <1>1, Invariance, PTL

\* openDatastore never finds a config.json without its datastore directory.
THEOREM DirectoryFirst == Spec => []ConfigImpliesDatastoreDir
<1>1. IInv => ConfigImpliesDatastoreDir
  BY DEF IInv, FileInv
<1>2. QED
  BY <1>1, Invariance, PTL

\* The identity in config.json changes only by SetConfig.
THEOREM IdentityKept == Spec => IdentityStable
<1> DEFINE Kept == saved'.ident # saved.ident =>
                     saved = NoObj.cfg \/ pc[pkgLock] = "setWrite"
<1>1. ASSUME IInv, [Next]_vars PROVE [Kept]_vars
  <2>1. ASSUME NEW p \in Proc, WriteConfig(p) PROVE Kept
    BY Zenon, <1>1, <2>1 DEF WriteConfig, IInv, FileInv
  <2>2. QED
    BY Zenon, <1>1, <2>1
    DEF Next, Step, vars, disk, Call, IsInitialized, RepoInit, RepoInitRefused,
        RepoInitFails, WriteConfigFails, OpenRefused, OpenShared, OpenFirst,
        OpenMount, OpenMountFails, Opened, SetConfig, SetConfigFails, Close, Crash
<1>2. QED
  BY <1>1, Invariance, PTL DEF Spec, IdentityStable

\* While no caller closes again, the reference count is exact and,
\* without faults, memory and disk agree.
THEOREM Counting == Spec => [](RefCountExact /\ ConfigInv)
<1> DEFINE Inv == RefCountExact /\ ConfigInv
<1>1. Init => Inv
  BY InitIInv DEF CountInv
<1>2. IInv /\ Inv /\ [Next]_vars => Inv'
  BY RefCountStep, ConfigStep
<1> HIDE DEF Inv
<1>3. Spec => []Inv
  BY <1>1, <1>2, Invariance, PTL DEF Spec
<1>4. QED
  BY <1>3 DEF Inv

\* RefCnt is the number of callers that have still to Close.
THEOREM RefCountCorrect == Spec => []RefCountExact
BY Counting, PTL

\* No caller's datastore is closed under it.
THEOREM OwnersServed == Spec => []OwnerDatastoreOpen
<1>1. IInv /\ RefCountExact => OwnerDatastoreOpen
  BY DEF IInv, RefCountExact, ActiveIsOpen, OwnerDatastoreOpen
<1>2. QED
  BY <1>1, Invariance, RefCountCorrect, PTL

\* Without faults, what Config() returns is what config.json holds.
THEOREM MemoryMatchesDisk == Spec => []ConfigMatchesDisk
<1>1. IInv /\ RefCountExact /\ ConfigInv => ConfigMatchesDisk
  BY ProcAssumption
  DEF IInv, TypeOK, LockInv, InSection, FileInv, isInitialized, ConfigInv,
      ConfigMatchesDisk
<1>2. QED
  BY <1>1, Invariance, Counting, PTL

\* The reference-counted repository implements the shared resource of
\* SharedRepo: open with the first holder, closed with the last.
THEOREM Refinement == Spec => RefinesSharedRepo
<1>1. Init => Shared!Init
  BY SMTT(30) DEF Init, Shared!Init, owners, NotActive
<1>2. ASSUME IInv, RefCountExact, RefCountExact', [Next]_vars
      PROVE  [Shared!Next]_(Shared!vars)
  <2>a. closeAgain' = closeAgain
    BY <1>2 DEF Next, vars
  <2>b. CASE closeAgain
    BY <2>a, <2>b DEF Shared!vars
  <2>c. SUFFICES ASSUME ~closeAgain PROVE [Shared!Next]_(Shared!vars)
    BY <2>b
  <2> USE <1>2, <2>a, <2>c DEF IInv
  <2>0. ASSUME owns' = owns, active' = active PROVE UNCHANGED Shared!vars
    BY <2>0 DEF Shared!vars, owners
  <2>1. ASSUME NEW p \in Proc, ~owns[p], owns' = [owns EXCEPT ![p] = TRUE]
        PROVE  Shared!Acquire(p)
    <3>1. owners' = owners \cup {p} /\ p \notin owners
      BY Zenon, <2>1, OwnersAdd DEF owners
    <3>2. (active.h # NoHandle)' = TRUE
      BY SMTT(30), <3>1 DEF RefCountExact
    <3>3. QED
      BY <3>1, <3>2 DEF Shared!Acquire
  <2>2. ASSUME NEW p \in Proc, OpenShared(p) PROVE Shared!Next
    BY Zenon, <2>1, <2>2 DEF OpenShared, Acquire, OwnerInv, Shared!Next
  <2>3. ASSUME NEW p \in Proc, NEW h \in Handle, OpenFirst(p, h)
        PROVE  UNCHANGED Shared!vars
    BY Zenon, <2>0, <2>3 DEF OpenFirst, FileInv, ConfigImpliesDatastoreDir, isInitialized
  <2>4. ASSUME NEW p \in Proc, Opened(p) PROVE Shared!Next
    BY Zenon, <2>1, <2>4 DEF Opened, Acquire, OwnerInv, Shared!Next
  <2>5. ASSUME NEW p \in Proc, Close(p) PROVE Shared!Next
    <3>1. owns[p] /\ owns' = [owns EXCEPT ![p] = FALSE]
      BY <2>5 DEF Close
    <3>2. p \in owners /\ owners' = owners \ {p}
      BY Zenon, <3>1, OwnersRemove DEF owners
    <3>3. (active.h # NoHandle)' = (owners' # {})
      BY DEF RefCountExact
    <3>4. QED
      BY <3>2, <3>3 DEF Shared!Release, Shared!Next
  <2>6. CASE Crash
    <3>1. owners' = {} /\ (active.h # NoHandle)' = FALSE
      BY <2>6 DEF Crash, owners, NotActive
    <3>2. QED
      BY <3>1 DEF Shared!Crash, Shared!Next
  <2>7. QED
    BY Zenon, <2>0, <2>2, <2>3, <2>4, <2>5, <2>6
    DEF Next, Step, vars, stores, Call, IsInitialized, RepoInit, RepoInitRefused,
        RepoInitFails, WriteConfig, WriteConfigFails, OpenRefused, OpenMount,
        OpenMountFails, SetConfig, SetConfigFails
<1>3. QED
  BY <1>1, <1>2, Invariance, RefCountCorrect, PTL
  DEF Spec, RefinesSharedRepo, Shared!Spec
=============================================================================
