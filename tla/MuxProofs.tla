----------------------------- MODULE MuxProofs ------------------------------
(***************************************************************************)
(* Proofs about Mux, for any number of listeners, connections and any       *)
(* capacity of connChan.                                                    *)
(***************************************************************************)
EXTENDS Mux, FiniteSetTheorems, SequenceTheorems, TLAPS

\* Start takes the listeners in order: those it has not reached are untouched,
\* the one it waits for has a task.
StartInv ==
  /\ \A l \in Lst :
       l > cur \/ (l = cur /\ start = "listen") =>
         task[l] = "none" /\ socket[l] = "none" /\ status[l] = "not running"
  /\ start = "sched" => cur \in Lst /\ task[cur] # "none" /\ socket[cur] # "none"
  /\ start = "ok" => cur = N + 1

\* The listeners the wait group counts: a task that has not ended, or a task
\* that GoFunc refused.
counted ==
  {l \in Lst : Running(l) \/ (task[l] = "none" /\ socket[l] # "none")}

CountInv == wg = Cardinality(counted)

\* Close is called after Start has returned, so no task is added behind it.
CloseInv == closing = "wait" \/ closed # <<>> => start = "ok"

\* Execute has a connection exactly when it is about to pass it on.
HandInv ==
  \A l \in Lst :
    IF task[l] = "send" THEN \E c \in Conn : hand[l] = {c} ELSE hand[l] = {}

IInv ==
  /\ TypeOK
  /\ StartInv
  /\ CountInv
  /\ CloseInv
  /\ HandInv
  /\ FailedIsDead
  /\ CloseMeansStopped
  /\ ConnConserved

-----------------------------------------------------------------------------
(* Sequences *)

\* A non-empty sequence is its head followed by its tail.
LEMMA HeadConcatTail ==
  ASSUME NEW S, NEW s \in Seq(S), s # <<>>
  PROVE  <<Head(s)>> \o Tail(s) = s
<1>1. Head(s) \in S /\ Tail(s) \in Seq(S) /\ Len(Tail(s)) = Len(s) - 1
  BY HeadTailProperties
<1>2. <<Head(s)>> \in Seq(S) /\ Len(<<Head(s)>>) = 1
  BY <1>1
<1>3. /\ <<Head(s)>> \o Tail(s) \in Seq(S)
      /\ Len(<<Head(s)>> \o Tail(s)) = Len(s)
  BY <1>1, <1>2, ConcatProperties
<1>4. \A i \in 1..Len(s) : (<<Head(s)>> \o Tail(s))[i] = s[i]
  BY <1>1, <1>2, ConcatProperties, HeadTailProperties
<1>5. QED
  BY <1>3, <1>4, SeqEqual

\* Passing a connection from connChan to the server keeps the delivery order.
LEMMA DeliveryAccept ==
  ASSUME NEW S, NEW s \in Seq(S), NEW t \in Seq(S), t # <<>>
  PROVE  Append(s, Head(t)) \o Tail(t) = s \o t
<1>1. Head(t) \in S /\ Tail(t) \in Seq(S)
  BY HeadTailProperties
<1>2. Append(s, Head(t)) \o Tail(t) = (s \o <<Head(t)>>) \o Tail(t)
  BY <1>1, AppendIsConcat
<1>3. (s \o <<Head(t)>>) \o Tail(t) = s \o (<<Head(t)>> \o Tail(t))
  BY <1>1, ConcatAssociative
<1>4. QED
  BY <1>2, <1>3, HeadConcatTail

\* Enqueueing appends to the delivery order.
LEMMA DeliveryEnqueue ==
  ASSUME NEW S, NEW s \in Seq(S), NEW t \in Seq(S), NEW e \in S
  PROVE  s \o Append(t, e) = Append(s \o t, e)
<1>1. s \o t \in Seq(S) /\ <<e>> \in Seq(S)
  BY ConcatProperties
<1>2. s \o Append(t, e) = s \o (t \o <<e>>)
  BY AppendIsConcat
<1>3. s \o (t \o <<e>>) = (s \o t) \o <<e>>
  BY <1>1, ConcatAssociative
<1>4. QED
  BY <1>1, <1>2, <1>3, AppendIsConcat

\* Appending a new element adds that element only, and keeps a sequence
\* without duplicates so.
LEMMA InSeqAppend ==
  ASSUME NEW S, NEW s \in Seq(S), NEW e \in S
  PROVE  /\ \A c : InSeq(c, Append(s, e)) <=> InSeq(c, s) \/ c = e
         /\ Injective(s) /\ ~InSeq(e, s) => Injective(Append(s, e))
BY AppendProperties DEF InSeq, Injective

-----------------------------------------------------------------------------
(* The wait group *)

\* The listeners the wait group counts are finitely many.
LEMMA CountedFinite == IsFiniteSet(counted) /\ Cardinality(counted) \in Nat
<1>1. IsFiniteSet(Lst)
  BY SizeAssumption, FS_Interval DEF Lst
<1>2. QED
  BY <1>1, FS_Subset, FS_CardinalityType DEF counted

\* wg.Add(1) for a listener that was not counted.
LEMMA CountedAdd ==
  ASSUME NEW l, l \notin counted, counted' = counted \cup {l}
  PROVE  Cardinality(counted') = Cardinality(counted) + 1
BY CountedFinite, FS_AddElement

\* wg.Done() of a listener that was counted.
LEMMA CountedRemove ==
  ASSUME NEW l, l \in counted, counted' = counted \ {l}
  PROVE  Cardinality(counted') = Cardinality(counted) - 1
BY CountedFinite, FS_RemoveElement

\* A running task is counted, so wg.Done never takes the counter below zero.
LEMMA CountPositive ==
  ASSUME CountInv, NEW l \in Lst, Running(l)
  PROVE  wg \in Nat \ {0}
<1>1. counted # {}
  BY DEF counted
<1>2. Cardinality(counted) # 0
  BY <1>1, CountedFinite, FS_EmptySet
<1>3. QED
  BY <1>2, CountedFinite DEF CountInv

\* The counter is the number of counted listeners.
LEMMA CountStep == TypeOK /\ StartInv /\ CountInv /\ [Next]_vars => CountInv'
<1> SUFFICES ASSUME TypeOK, StartInv, CountInv, [Next]_vars PROVE CountInv'
  OBVIOUS
<1> USE SizeAssumption DEF CountInv
<1>0. ASSUME counted' = counted, wg' = wg PROVE CountInv'
  BY <1>0
<1>1. ASSUME NEW l \in Lst, StartListener(l) PROVE CountInv'
  <2>1. l \notin counted /\ counted' = counted \cup {l}
    BY <1>1 DEF StartListener, StartInv, counted, Running, TypeOK, Lst
  <2>2. QED
    BY <1>1, <2>1, CountedAdd DEF StartListener
<1>2. ASSUME NEW l \in Lst, StartUnscheduled(l) PROVE CountInv'
  <2>1. l \notin counted /\ counted' = counted \cup {l}
    BY Zenon, <1>2 DEF StartUnscheduled, StartInv, counted, Running, TypeOK, Lst
  <2>2. QED
    BY <1>2, <2>1, CountedAdd DEF StartUnscheduled
<1>3. ASSUME NEW l \in Lst, AcceptFails(l) PROVE CountInv'
  <2>1. l \in counted /\ counted' = counted \ {l}
    BY <1>3 DEF AcceptFails, counted, Running, TypeOK
  <2>2. QED
    BY <1>3, <2>1, CountedRemove DEF AcceptFails
<1>4. ASSUME NEW l \in Lst, Cancelled(l) PROVE CountInv'
  <2>1. l \in counted /\ counted' = counted \ {l}
    BY <1>4 DEF Cancelled, counted, Running, TypeOK
  <2>2. QED
    BY <1>4, <2>1, CountedRemove DEF Cancelled
<1>5. ASSUME NEW l \in Lst, Schedule(l) PROVE CountInv'
  BY <1>0, <1>5 DEF Schedule, counted, Running, TypeOK
<1>6. ASSUME NEW l \in Lst, Enqueue(l) PROVE CountInv'
  BY <1>0, <1>6 DEF Enqueue, counted, Running, TypeOK
<1>7. ASSUME NEW l \in Lst, NEW c \in Conn, AcceptConn(l, c) PROVE CountInv'
  BY <1>0, <1>7 DEF AcceptConn, counted, Running, TypeOK
<1>8. CASE Close
  BY <1>0, <1>8 DEF Close, counted, Running, TypeOK
<1>9. ASSUME task' = task, socket' = socket, wg' = wg PROVE CountInv'
  BY <1>0, <1>9 DEF counted, Running
<1>10. QED
  BY <1>1, <1>2, <1>3, <1>4, <1>5, <1>6, <1>7, <1>8, <1>9
  DEF Next, StartStep, StartFails, StartScheduled, StartTimesOut, StartDone,
      Accept, AcceptEOF, CancelRoot, CloseStopped, CloseTimesOut, StopTasks, vars

-----------------------------------------------------------------------------
(* The other conjuncts *)

\* The three groups of variables that the types concern separately.
TaskType ==
  /\ start \in {"listen", "sched", "ok", "err"}
  /\ socket \in [Lst -> {"none", "open", "shut"}]
  /\ task \in [Lst -> {"none", "pending", "accept", "send", "done"}]
  /\ status \in [Lst -> Status]
  /\ server \in {"off", "accept", "stopped"}

ConnType ==
  /\ hand \in [Lst -> SUBSET Conn]
  /\ connChan \in Seq(Conn) /\ Len(connChan) <= Cap
  /\ arrived \in SUBSET Conn /\ served \in Seq(Conn) /\ dropped \in SUBSET Conn

StopType ==
  /\ muxDone \in BOOLEAN /\ tmDone \in BOOLEAN
  /\ closing \in {"idle", "wait"}
  /\ closed \in Seq({"stopped", "timeout"})

\* The types of Start's, the tasks' and the server's variables.
LEMMA TaskTypeStep == TaskType /\ [Next]_vars => TaskType'
<1> SUFFICES ASSUME TaskType, [Next]_vars PROVE TaskType'
  OBVIOUS
<1> USE DEF TaskType, Status, starting
<1>0. CASE UNCHANGED vars
  BY <1>0 DEF vars
<1>1. ASSUME NEW l \in Lst, StartListener(l) PROVE TaskType'
  BY <1>1 DEF StartListener
<1>2. ASSUME NEW l \in Lst, StartUnscheduled(l) PROVE TaskType'
  BY <1>2 DEF StartUnscheduled
<1>3. ASSUME NEW l \in Lst, StartFails(l) PROVE TaskType'
  BY <1>3 DEF StartFails
<1>4. ASSUME NEW l \in Lst, StartScheduled(l) PROVE TaskType'
  BY <1>4 DEF StartScheduled
<1>5. CASE StartTimesOut
  BY <1>5 DEF StartTimesOut
<1>6. CASE StartDone
  BY <1>6 DEF StartDone
<1>7. ASSUME NEW l \in Lst, Schedule(l) PROVE TaskType'
  BY <1>7 DEF Schedule
<1>8. ASSUME NEW l \in Lst, AcceptFails(l) PROVE TaskType'
  BY <1>8 DEF AcceptFails
<1>9. ASSUME NEW l \in Lst, Enqueue(l) PROVE TaskType'
  BY <1>9 DEF Enqueue
<1>10. ASSUME NEW l \in Lst, Cancelled(l) PROVE TaskType'
  BY <1>10 DEF Cancelled
<1>11. ASSUME NEW l \in Lst, NEW c \in Conn, AcceptConn(l, c) PROVE TaskType'
  BY <1>11 DEF AcceptConn
<1>12. CASE Accept
  BY <1>12 DEF Accept
<1>13. CASE AcceptEOF
  BY <1>13 DEF AcceptEOF
<1>14. CASE Close
  BY <1>14 DEF Close
<1>15. CASE CloseStopped
  BY <1>15 DEF CloseStopped
<1>16. CASE CloseTimesOut
  BY <1>16 DEF CloseTimesOut
<1>17. CASE StopTasks
  BY <1>17 DEF StopTasks
<1>18. CASE CancelRoot
  BY <1>18 DEF CancelRoot
<1>19. QED
  BY Zenon, <1>0, <1>1, <1>2, <1>3, <1>4, <1>5, <1>6, <1>7, <1>8, <1>9, <1>10, <1>11,
     <1>12, <1>13, <1>14, <1>15, <1>16, <1>17, <1>18 DEF Next, StartStep

\* The counters: wg counts a finite set, Start stays within the listeners.
LEMMA CounterStep ==
  TypeOK /\ StartInv /\ CountInv /\ [Next]_vars => wg' \in Nat /\ cur' \in 1..(N + 1)
<1> SUFFICES ASSUME TypeOK, StartInv, CountInv, [Next]_vars
             PROVE  wg' \in Nat /\ cur' \in 1..(N + 1)
  OBVIOUS
<1>1. wg' \in Nat
  <2>1. IsFiniteSet(Lst) /\ counted' \subseteq Lst
    BY SizeAssumption, FS_Interval DEF Lst, counted
  <2>2. Cardinality(counted') \in Nat
    BY <2>1, FS_Subset, FS_CardinalityType
  <2>3. QED
    BY <2>2, CountStep DEF CountInv
<1>2. cur' \in 1..(N + 1)
  <2>1. \/ cur' = cur
        \/ \E l \in Lst : cur' = l + 1
    BY SMTT(30) DEF Next, StartStep, StartListener, StartUnscheduled, StartFails,
           StartScheduled, StartTimesOut, StartDone, Schedule, AcceptFails, Enqueue,
           Cancelled, AcceptConn, Accept, AcceptEOF, CancelRoot, Close, CloseStopped,
           CloseTimesOut, StopTasks, vars, starting
  <2>2. QED
    BY SMTT(30), <2>1, SizeAssumption DEF TypeOK, Lst
<1>3. QED
  BY <1>1, <1>2

\* The types of the connections' variables.
LEMMA ConnTypeStep == ConnType /\ [Next]_vars => ConnType'
<1> SUFFICES ASSUME ConnType, [Next]_vars PROVE ConnType'
  OBVIOUS
<1> USE SizeAssumption DEF ConnType
<1>1. ASSUME NEW l \in Lst, Enqueue(l) PROVE ConnType'
  <2>1. PICK c \in hand[l] : connChan' = Append(connChan, c)
    BY <1>1 DEF Enqueue
  <2>2. connChan' \in Seq(Conn) /\ Len(connChan') <= Cap
    BY <1>1, <2>1, AppendProperties DEF Enqueue
  <2>3. QED
    BY <1>1, <2>2 DEF Enqueue
<1>2. ASSUME NEW l \in Lst, Cancelled(l) PROVE ConnType'
  BY <1>2 DEF Cancelled
<1>3. ASSUME NEW l \in Lst, NEW c \in Conn, AcceptConn(l, c) PROVE ConnType'
  BY <1>3 DEF AcceptConn
<1>4. CASE Accept
  <2>1. Head(connChan) \in Conn /\ Tail(connChan) \in Seq(Conn)
    BY <1>4, HeadTailProperties DEF Accept
  <2>2. Len(Tail(connChan)) <= Cap
    BY <1>4, HeadTailProperties DEF Accept
  <2>3. Append(served, Head(connChan)) \in Seq(Conn)
    BY <2>1, AppendProperties
  <2>4. QED
    BY <1>4, <2>1, <2>2, <2>3 DEF Accept
<1>5. ASSUME UNCHANGED conns PROVE ConnType'
  BY SMTT(30), <1>5 DEF conns
<1>6. QED
  BY <1>1, <1>2, <1>3, <1>4, <1>5
  DEF Next, StartStep, StartListener, StartUnscheduled, StartFails, StartScheduled,
      StartTimesOut, StartDone, Schedule, AcceptFails, AcceptEOF, CancelRoot, Close,
      CloseStopped, CloseTimesOut, StopTasks, vars, conns

\* The types of the variables of Close and tm.Stop.
LEMMA StopTypeStep == StopType /\ [Next]_vars => StopType'
<1> SUFFICES ASSUME StopType, [Next]_vars PROVE StopType'
  OBVIOUS
<1> USE DEF StopType
<1>1. CASE Close
  BY <1>1 DEF Close
<1>2. CASE CloseStopped
  BY <1>2, AppendProperties DEF CloseStopped
<1>3. CASE CloseTimesOut
  BY <1>3, AppendProperties DEF CloseTimesOut
<1>4. CASE StopTasks
  BY <1>4 DEF StopTasks
<1>5. CASE CancelRoot
  BY <1>5 DEF CancelRoot
<1>6. ASSUME UNCHANGED stopping PROVE StopType'
  BY <1>6 DEF stopping
<1>7. QED
  BY <1>1, <1>2, <1>3, <1>4, <1>5, <1>6
  DEF Next, StartStep, StartListener, StartUnscheduled, StartFails, StartScheduled,
      StartTimesOut, StartDone, Schedule, AcceptFails, Enqueue, Cancelled,
      AcceptConn, Accept, AcceptEOF, vars, stopping

\* Every step keeps the types.
LEMMA TypeStep == TypeOK /\ StartInv /\ CountInv /\ [Next]_vars => TypeOK'
BY CounterStep, TaskTypeStep, ConnTypeStep, StopTypeStep
DEF TypeOK, TaskType, ConnType, StopType

\* Start takes the listeners in order.
LEMMA StartInvStep == TypeOK /\ StartInv /\ [Next]_vars => StartInv'
<1> SUFFICES ASSUME TypeOK, StartInv, [Next]_vars PROVE StartInv'
  OBVIOUS
<1> USE DEF starting, stopping, conns
<1>0. CASE UNCHANGED vars
  BY Zenon, <1>0 DEF vars, StartInv
<1>1. ASSUME NEW l \in Lst, StartListener(l) PROVE StartInv'
  <2>1. \A k \in Lst : k # l =>
          task'[k] = task[k] /\ socket'[k] = socket[k] /\ status'[k] = status[k]
    BY <1>1 DEF StartListener, TypeOK
  <2>2. task'[l] # "none" /\ socket'[l] # "none"
    BY <1>1 DEF StartListener, TypeOK
  <2>3. l \in 1..N /\ cur = l /\ cur' = l /\ start' = "sched"
    BY <1>1 DEF StartListener, Lst
  <2>4. ASSUME NEW k \in Lst, k > cur' \/ (k = cur' /\ start' = "listen")
        PROVE  task'[k] = "none" /\ socket'[k] = "none" /\ status'[k] = "not running"
    <3>1. k # l /\ (k > cur \/ (k = cur /\ start = "listen"))
      BY <2>4, <2>3, SizeAssumption DEF Lst
    <3>2. task[k] = "none" /\ socket[k] = "none" /\ status[k] = "not running"
      BY <3>1 DEF StartInv
    <3>3. QED
      BY <2>1, <3>1, <3>2
  <2>5. QED
    BY Zenon, <2>2, <2>3, <2>4 DEF StartInv
<1>2. ASSUME NEW l \in Lst, StartUnscheduled(l) PROVE StartInv'
  <2>1. \A k \in Lst : k # l =>
          task'[k] = task[k] /\ socket'[k] = socket[k] /\ status'[k] = status[k]
    BY <1>2 DEF StartUnscheduled, TypeOK
  <2>2. l \in 1..N /\ cur = l /\ cur' = l + 1 /\ start' = "listen"
    BY <1>2 DEF StartUnscheduled, Lst
  <2>3. ASSUME NEW k \in Lst, k > cur' \/ (k = cur' /\ start' = "listen")
        PROVE  task'[k] = "none" /\ socket'[k] = "none" /\ status'[k] = "not running"
    <3>1. k # l /\ (k > cur \/ (k = cur /\ start = "listen"))
      BY <2>3, <2>2, SizeAssumption DEF Lst
    <3>2. task[k] = "none" /\ socket[k] = "none" /\ status[k] = "not running"
      BY <3>1 DEF StartInv
    <3>3. QED
      BY <2>1, <3>1, <3>2
  <2>4. QED
    BY Zenon, <2>2, <2>3 DEF StartInv
<1>3. ASSUME NEW l \in Lst, StartFails(l) PROVE StartInv'
  BY Zenon, <1>3, SizeAssumption DEF StartFails, TypeOK, StartInv, Lst
<1>4. ASSUME NEW l \in Lst, StartScheduled(l) PROVE StartInv'
  <2>1. \A k \in Lst : k # l =>
          task'[k] = task[k] /\ socket'[k] = socket[k] /\ status'[k] = status[k]
    BY <1>4 DEF StartScheduled, TypeOK
  <2>2. l \in 1..N /\ cur = l /\ cur' = l + 1 /\ start' = "listen"
    BY <1>4 DEF StartScheduled, Lst
  <2>3. ASSUME NEW k \in Lst, k > cur' \/ (k = cur' /\ start' = "listen")
        PROVE  task'[k] = "none" /\ socket'[k] = "none" /\ status'[k] = "not running"
    <3>1. k # l /\ (k > cur \/ (k = cur /\ start = "listen"))
      BY <2>3, <2>2, SizeAssumption DEF Lst
    <3>2. task[k] = "none" /\ socket[k] = "none" /\ status[k] = "not running"
      BY <3>1 DEF StartInv
    <3>3. QED
      BY <2>1, <3>1, <3>2
  <2>4. QED
    BY <2>2, <2>3 DEF StartInv
<1>5. CASE StartTimesOut
  BY <1>5, SizeAssumption DEF StartTimesOut, TypeOK, StartInv, Lst
<1>6. CASE StartDone
  BY Zenon, <1>6, SizeAssumption DEF StartDone, TypeOK, StartInv, Lst
<1>7. ASSUME NEW l \in Lst, Schedule(l) PROVE StartInv'
  BY Zenon, <1>7, SizeAssumption DEF Schedule, TypeOK, StartInv, Lst
<1>8. ASSUME NEW l \in Lst, AcceptFails(l) PROVE StartInv'
  BY <1>8, SizeAssumption DEF AcceptFails, TypeOK, StartInv, Lst
<1>9. ASSUME NEW l \in Lst, Enqueue(l) PROVE StartInv'
  BY <1>9, SizeAssumption DEF Enqueue, TypeOK, StartInv, Lst
<1>10. ASSUME NEW l \in Lst, Cancelled(l) PROVE StartInv'
  BY <1>10, SizeAssumption DEF Cancelled, TypeOK, StartInv, Lst
<1>11. ASSUME NEW l \in Lst, NEW c \in Conn, AcceptConn(l, c) PROVE StartInv'
  BY <1>11, SizeAssumption DEF AcceptConn, TypeOK, StartInv, Lst
<1>12. CASE Accept
  BY <1>12, SizeAssumption DEF Accept, TypeOK, StartInv, Lst
<1>13. CASE AcceptEOF
  BY Zenon, <1>13, SizeAssumption DEF AcceptEOF, TypeOK, StartInv, Lst
<1>14. CASE Close
  BY <1>14, SizeAssumption DEF Close, TypeOK, StartInv, Lst
<1>15. CASE CloseStopped
  BY <1>15, SizeAssumption DEF CloseStopped, TypeOK, StartInv, Lst
<1>16. CASE CloseTimesOut
  BY <1>16, SizeAssumption DEF CloseTimesOut, TypeOK, StartInv, Lst
<1>17. CASE StopTasks
  BY <1>17, SizeAssumption DEF StopTasks, TypeOK, StartInv, Lst
<1>18. CASE CancelRoot
  BY <1>18, SizeAssumption DEF CancelRoot, TypeOK, StartInv, Lst
<1>19. QED
  BY <1>0, <1>1, <1>2, <1>3, <1>4, <1>5, <1>6, <1>7, <1>8, <1>9, <1>10, <1>11,
     <1>12, <1>13, <1>14, <1>15, <1>16, <1>17, <1>18 DEF Next, StartStep

\* Close comes after Start.
LEMMA CloseInvStep == TypeOK /\ StartInv /\ CloseInv /\ [Next]_vars => CloseInv'
<1> SUFFICES ASSUME TypeOK, StartInv, CloseInv, [Next]_vars PROVE CloseInv'
  OBVIOUS
<1> USE SizeAssumption DEF TypeOK, StartInv, CloseInv, Lst, starting, stopping, conns
<1>0. CASE UNCHANGED vars
  BY <1>0 DEF vars
<1>1. ASSUME NEW l \in Lst, StartListener(l) PROVE CloseInv'
  BY <1>1 DEF StartListener
<1>2. ASSUME NEW l \in Lst, StartUnscheduled(l) PROVE CloseInv'
  BY <1>2 DEF StartUnscheduled
<1>3. ASSUME NEW l \in Lst, StartFails(l) PROVE CloseInv'
  BY <1>3 DEF StartFails
<1>4. ASSUME NEW l \in Lst, StartScheduled(l) PROVE CloseInv'
  BY Zenon, <1>4 DEF StartScheduled
<1>5. CASE StartTimesOut
  BY Zenon, <1>5 DEF StartTimesOut
<1>6. CASE StartDone
  BY Zenon, <1>6 DEF StartDone
<1>7. ASSUME NEW l \in Lst, Schedule(l) PROVE CloseInv'
  BY Zenon, <1>7 DEF Schedule
<1>8. ASSUME NEW l \in Lst, AcceptFails(l) PROVE CloseInv'
  BY Zenon, <1>8 DEF AcceptFails
<1>9. ASSUME NEW l \in Lst, Enqueue(l) PROVE CloseInv'
  BY Zenon, <1>9 DEF Enqueue
<1>10. ASSUME NEW l \in Lst, Cancelled(l) PROVE CloseInv'
  BY Zenon, <1>10 DEF Cancelled
<1>11. ASSUME NEW l \in Lst, NEW c \in Conn, AcceptConn(l, c) PROVE CloseInv'
  BY Zenon, <1>11 DEF AcceptConn
<1>12. CASE Accept
  BY Zenon, <1>12 DEF Accept
<1>13. CASE AcceptEOF
  BY Zenon, <1>13 DEF AcceptEOF
<1>14. CASE Close
  BY Zenon, <1>14 DEF Close
<1>15. CASE CloseStopped
  BY Zenon, <1>15 DEF CloseStopped
<1>16. CASE CloseTimesOut
  BY Zenon, <1>16 DEF CloseTimesOut
<1>17. CASE StopTasks
  BY Zenon, <1>17 DEF StopTasks
<1>18. CASE CancelRoot
  BY Zenon, <1>18 DEF CancelRoot
<1>19. QED
  BY Zenon, <1>0, <1>1, <1>2, <1>3, <1>4, <1>5, <1>6, <1>7, <1>8, <1>9, <1>10, <1>11,
     <1>12, <1>13, <1>14, <1>15, <1>16, <1>17, <1>18 DEF Next, StartStep

\* Execute holds at most one connection.
LEMMA HandStep == TypeOK /\ HandInv /\ StartInv /\ [Next]_vars => HandInv'
<1> SUFFICES ASSUME TypeOK, HandInv, StartInv, [Next]_vars PROVE HandInv'
  OBVIOUS
<1> USE SizeAssumption DEF TypeOK, HandInv, StartInv, Lst, starting, stopping, conns
<1>0. CASE UNCHANGED vars
  BY Zenon, <1>0 DEF vars
<1>1. ASSUME NEW l \in Lst, StartListener(l) PROVE HandInv'
  BY Zenon, <1>1 DEF StartListener
<1>2. ASSUME NEW l \in Lst, StartUnscheduled(l) PROVE HandInv'
  BY Zenon, <1>2 DEF StartUnscheduled
<1>3. ASSUME NEW l \in Lst, StartFails(l) PROVE HandInv'
  BY Zenon, <1>3 DEF StartFails
<1>4. ASSUME NEW l \in Lst, StartScheduled(l) PROVE HandInv'
  BY Zenon, <1>4 DEF StartScheduled
<1>5. CASE StartTimesOut
  BY Zenon, <1>5 DEF StartTimesOut
<1>6. CASE StartDone
  BY <1>6 DEF StartDone
<1>7. ASSUME NEW l \in Lst, Schedule(l) PROVE HandInv'
  BY Zenon, <1>7 DEF Schedule
<1>8. ASSUME NEW l \in Lst, AcceptFails(l) PROVE HandInv'
  BY Zenon, <1>8 DEF AcceptFails
<1>9. ASSUME NEW l \in Lst, Enqueue(l) PROVE HandInv'
  BY Zenon, <1>9 DEF Enqueue
<1>10. ASSUME NEW l \in Lst, Cancelled(l) PROVE HandInv'
  BY Zenon, <1>10 DEF Cancelled
<1>11. ASSUME NEW l \in Lst, NEW c \in Conn, AcceptConn(l, c) PROVE HandInv'
  BY Zenon, <1>11 DEF AcceptConn
<1>12. CASE Accept
  BY Zenon, <1>12 DEF Accept
<1>13. CASE AcceptEOF
  BY Zenon, <1>13 DEF AcceptEOF
<1>14. CASE Close
  BY Zenon, <1>14 DEF Close
<1>15. CASE CloseStopped
  BY Zenon, <1>15 DEF CloseStopped
<1>16. CASE CloseTimesOut
  BY Zenon, <1>16 DEF CloseTimesOut
<1>17. CASE StopTasks
  BY Zenon, <1>17 DEF StopTasks
<1>18. CASE CancelRoot
  BY Zenon, <1>18 DEF CancelRoot
<1>19. QED
  BY Zenon, <1>0, <1>1, <1>2, <1>3, <1>4, <1>5, <1>6, <1>7, <1>8, <1>9, <1>10, <1>11,
     <1>12, <1>13, <1>14, <1>15, <1>16, <1>17, <1>18 DEF Next, StartStep

\* A listener reported as failed stays without a task.
LEMMA FailedStep == TypeOK /\ StartInv /\ FailedIsDead /\ [Next]_vars => FailedIsDead'
<1> SUFFICES ASSUME TypeOK, StartInv, FailedIsDead, [Next]_vars PROVE FailedIsDead'
  OBVIOUS
<1> USE SizeAssumption DEF TypeOK, StartInv, FailedIsDead, Running, Lst, starting,
            stopping, conns
<1>0. CASE UNCHANGED vars
  BY Zenon, <1>0 DEF vars
<1>1. ASSUME NEW l \in Lst, StartListener(l) PROVE FailedIsDead'
  BY Zenon, <1>1 DEF StartListener
<1>2. ASSUME NEW l \in Lst, StartUnscheduled(l) PROVE FailedIsDead'
  BY Zenon, <1>2 DEF StartUnscheduled
<1>3. ASSUME NEW l \in Lst, StartFails(l) PROVE FailedIsDead'
  BY Zenon, <1>3 DEF StartFails
<1>4. ASSUME NEW l \in Lst, StartScheduled(l) PROVE FailedIsDead'
  BY Zenon, <1>4 DEF StartScheduled
<1>5. CASE StartTimesOut
  BY Zenon, <1>5 DEF StartTimesOut
<1>6. CASE StartDone
  BY Zenon, <1>6 DEF StartDone
<1>7. ASSUME NEW l \in Lst, Schedule(l) PROVE FailedIsDead'
  BY Zenon, <1>7 DEF Schedule
<1>8. ASSUME NEW l \in Lst, AcceptFails(l) PROVE FailedIsDead'
  BY Zenon, <1>8 DEF AcceptFails
<1>9. ASSUME NEW l \in Lst, Enqueue(l) PROVE FailedIsDead'
  BY Zenon, <1>9 DEF Enqueue
<1>10. ASSUME NEW l \in Lst, Cancelled(l) PROVE FailedIsDead'
  BY Zenon, <1>10 DEF Cancelled
<1>11. ASSUME NEW l \in Lst, NEW c \in Conn, AcceptConn(l, c) PROVE FailedIsDead'
  BY Zenon, <1>11 DEF AcceptConn
<1>12. CASE Accept
  BY Zenon, <1>12 DEF Accept
<1>13. CASE AcceptEOF
  BY Zenon, <1>13 DEF AcceptEOF
<1>14. CASE Close
  BY Zenon, <1>14 DEF Close
<1>15. CASE CloseStopped
  BY Zenon, <1>15 DEF CloseStopped
<1>16. CASE CloseTimesOut
  BY Zenon, <1>16 DEF CloseTimesOut
<1>17. CASE StopTasks
  BY Zenon, <1>17 DEF StopTasks
<1>18. CASE CancelRoot
  BY Zenon, <1>18 DEF CancelRoot
<1>19. QED
  BY Zenon, <1>0, <1>1, <1>2, <1>3, <1>4, <1>5, <1>6, <1>7, <1>8, <1>9, <1>10, <1>11,
     <1>12, <1>13, <1>14, <1>15, <1>16, <1>17, <1>18 DEF Next, StartStep

-----------------------------------------------------------------------------
(* Close *)

\* No task starts once Start has returned.
LEMMA NoTaskStarts ==
  ASSUME TypeOK, Next, start = "ok", NEW l \in Lst, ~Running(l)
  PROVE  ~Running(l)'
BY DEF Next, StartStep, StartListener, StartUnscheduled, StartFails, StartScheduled,
       StartTimesOut, StartDone, Schedule, AcceptFails, Enqueue, Cancelled,
       AcceptConn, Accept, AcceptEOF, CancelRoot, Close, CloseStopped,
       CloseTimesOut, StopTasks, Running, TypeOK

\* The wait group reaches zero only when no task is running.
LEMMA ZeroMeansStopped ==
  ASSUME CountInv, wg = 0
  PROVE  \A l \in Lst : ~Running(l)
BY CountPositive

\* A call of Close that saw the wait group done leaves no task running.
LEMMA CloseMeansStoppedStep ==
  TypeOK /\ CountInv /\ CloseInv /\ CloseMeansStopped /\ [Next]_vars
    => CloseMeansStopped'
<1> SUFFICES ASSUME TypeOK, CountInv, CloseInv, CloseMeansStopped, [Next]_vars
             PROVE  CloseMeansStopped'
  OBVIOUS
<1>0. CASE UNCHANGED vars
  BY <1>0 DEF vars, CloseMeansStopped, Running
<1>1. CASE CloseStopped
  <2>1. \A l \in Lst : ~Running(l)
    BY <1>1, ZeroMeansStopped DEF CloseStopped
  <2>2. QED
    BY <1>1, <2>1 DEF CloseStopped, CloseMeansStopped, Running
<1>2. CASE CloseTimesOut
  <2>1. closed' = Append(closed, "timeout") /\ task' = task
    BY SMTT(30), <1>2 DEF CloseTimesOut
  <2>2. ASSUME NEW k \in DOMAIN closed', closed'[k] = "stopped"
        PROVE  \E j \in DOMAIN closed : closed[j] = "stopped"
    BY <2>1, <2>2, AppendProperties DEF TypeOK
  <2>3. QED
    BY <2>1, <2>2 DEF CloseMeansStopped, Running
<1>3. ASSUME Next, closed' = closed PROVE CloseMeansStopped'
  <2> SUFFICES ASSUME NEW k \in DOMAIN closed, closed[k] = "stopped", NEW l \in Lst
               PROVE  ~Running(l)'
    BY <1>3 DEF CloseMeansStopped
  <2>1. ~Running(l)
    BY DEF CloseMeansStopped
  <2>2. closed # <<>>
    OBVIOUS
  <2>3. start = "ok"
    BY <2>2 DEF CloseInv
  <2>4. QED
    BY <1>3, <2>1, <2>3, NoTaskStarts
<1>4. Next /\ ~CloseStopped /\ ~CloseTimesOut => closed' = closed
  BY Zenon DEF Next, StartStep, StartListener, StartUnscheduled, StartFails, StartScheduled,
         StartTimesOut, StartDone, Schedule, AcceptFails, Enqueue, Cancelled,
         AcceptConn, Accept, AcceptEOF, CancelRoot, Close, StopTasks, stopping
<1>5. QED
  BY <1>0, <1>1, <1>2, <1>3, <1>4

-----------------------------------------------------------------------------
(* Connections *)

\* Every accepted connection stays in exactly one place.
LEMMA ConnStep ==
  TypeOK /\ HandInv /\ ConnConserved /\ [Next]_vars => ConnConserved'
<1> SUFFICES ASSUME TypeOK, HandInv, ConnConserved, [Next]_vars
             PROVE  ConnConserved'
  OBVIOUS
<1>1. ASSUME NEW l \in Lst, NEW c \in Conn, AcceptConn(l, c) PROVE ConnConserved'
  <2>1. delivery' = delivery /\ dropped' = dropped
    BY <1>1 DEF AcceptConn, delivery
  <2>2. /\ c \notin arrived /\ arrived' = arrived \cup {c}
        /\ hand' = [hand EXCEPT ![l] = {c}] /\ hand[l] = {}
    BY SMTT(30), <1>1 DEF AcceptConn, HandInv
  <2>3. QED
    BY SMTT(30), <2>1, <2>2 DEF ConnConserved, InSeq, Injective, TypeOK
<1>2. ASSUME NEW l \in Lst, Enqueue(l) PROVE ConnConserved'
  <2>1. PICK c \in Conn : hand[l] = {c}
    BY <1>2 DEF Enqueue, HandInv
  <2>2. connChan' = Append(connChan, c) /\ served' = served
    BY SMTT(30), <1>2, <2>1 DEF Enqueue
  <2>3. delivery' = Append(delivery, c) /\ delivery \in Seq(Conn)
    BY <2>2, DeliveryEnqueue, ConcatProperties DEF delivery, TypeOK
  <2>4. ~InSeq(c, delivery) /\ c \notin dropped /\ c \in arrived
    BY SMTT(30), <2>1 DEF ConnConserved
  <2>5. /\ \A d : InSeq(d, delivery') <=> InSeq(d, delivery) \/ d = c
        /\ Injective(delivery')
    BY <2>3, <2>4, InSeqAppend DEF ConnConserved
  <2>6. /\ hand' = [hand EXCEPT ![l] = {}]
        /\ arrived' = arrived /\ dropped' = dropped
    BY SMTT(30), <1>2 DEF Enqueue
  <2>7. QED
    BY <2>1, <2>4, <2>5, <2>6 DEF ConnConserved, TypeOK
<1>3. ASSUME NEW l \in Lst, Cancelled(l) PROVE ConnConserved'
  <2>1. delivery' = delivery /\ arrived' = arrived
    BY <1>3 DEF Cancelled, delivery
  <2>2. dropped' = dropped \cup hand[l] /\ hand' = [hand EXCEPT ![l] = {}]
    BY SMTT(30), <1>3 DEF Cancelled
  <2>3. QED
    BY <2>1, <2>2 DEF ConnConserved, InSeq, Injective, TypeOK
<1>4. CASE Accept
  <2>1. delivery' = delivery
    BY SMTT(30), <1>4, DeliveryAccept DEF Accept, delivery, TypeOK
  <2>2. hand' = hand /\ arrived' = arrived /\ dropped' = dropped
    BY <1>4 DEF Accept
  <2>3. QED
    BY <2>1, <2>2 DEF ConnConserved, InSeq, Injective
<1>5. ASSUME UNCHANGED conns PROVE ConnConserved'
  BY <1>5 DEF conns, ConnConserved, InSeq, Injective, delivery
<1>6. QED
  BY <1>1, <1>2, <1>3, <1>4, <1>5
  DEF Next, StartStep, StartListener, StartUnscheduled, StartFails, StartScheduled,
      StartTimesOut, StartDone, Schedule, AcceptFails, AcceptEOF, CancelRoot, Close,
      CloseStopped, CloseTimesOut, StopTasks, vars, conns

-----------------------------------------------------------------------------
(* The theorems *)

\* The initial state satisfies the inductive invariant.
LEMMA InitIInv == Init => IInv
<1> SUFFICES ASSUME Init PROVE IInv
  OBVIOUS
<1>0. /\ cur = 1 /\ wg = 0 /\ connChan = <<>> /\ served = <<>> /\ closed = <<>>
      /\ arrived = {} /\ dropped = {}
  BY Zenon DEF Init
<1>1. TypeOK
  <2>1. cur \in 1..(N + 1) /\ wg \in Nat
    BY <1>0, SizeAssumption
  <2>2. connChan \in Seq(Conn) /\ served \in Seq(Conn)
    BY <1>0
  <2>3. Len(connChan) <= Cap
    BY <1>0, SizeAssumption
  <2>4. TaskType
    BY Zenon DEF Init, TaskType, Status
  <2>5. closed \in Seq({"stopped", "timeout"})
    BY <1>0
  <2>6. /\ muxDone \in BOOLEAN /\ tmDone \in BOOLEAN /\ closing \in {"idle", "wait"}
        /\ hand \in [Lst -> SUBSET Conn]
    BY Zenon DEF Init
  <2>7. arrived \in SUBSET Conn /\ dropped \in SUBSET Conn
    BY <1>0
  <2>8. QED
    BY <2>1, <2>2, <2>3, <2>4, <2>5, <2>6, <2>7 DEF TypeOK, TaskType
<1>2. StartInv /\ CloseInv /\ HandInv /\ FailedIsDead /\ CloseMeansStopped
  BY Zenon DEF Init, StartInv, CloseInv, HandInv, FailedIsDead, CloseMeansStopped, Running
<1>3. CountInv
  <2>1. counted = {}
    BY Zenon DEF Init, counted, Running
  <2>2. QED
    BY Zenon, <2>1, FS_EmptySet DEF Init, CountInv
<1>4. ConnConserved
  <2>1. /\ served \in Seq(Conn) /\ connChan \in Seq(Conn)
        /\ Len(served) = 0 /\ Len(connChan) = 0
    BY <1>0
  <2>2. delivery \in Seq(Conn) /\ Len(delivery) = 0
    BY <2>1, ConcatProperties DEF delivery
  <2>3. DOMAIN delivery = {}
    BY <2>2
  <2>4. QED
    BY Zenon, <2>3 DEF Init, ConnConserved, InSeq, Injective
<1>5. QED
  BY <1>1, <1>2, <1>3, <1>4 DEF IInv

\* Every step preserves it.
LEMMA IInvStep == IInv /\ [Next]_vars => IInv'
BY TypeStep, StartInvStep, CountStep, CloseInvStep, HandStep, FailedStep,
   CloseMeansStoppedStep, ConnStep DEF IInv

\* The mux never leaves its inductive invariant.
THEOREM Invariance == Spec => []IInv
BY InitIInv, IInvStep, PTL DEF Spec

\* The channel never exceeds its capacity, the wait group never goes below
\* zero (wg.Done would panic), every variable keeps its type.
THEOREM TypeCorrect == Spec => []TypeOK
BY Invariance, PTL DEF IInv

\* Every connection a listener accepted is in exactly one place, none is lost
\* or delivered twice between Execute, connChan and Accept.
THEOREM ConnectionsConserved == Spec => []ConnConserved
BY Invariance, PTL DEF IInv

\* A Close that returned on the wait group leaves no Execute running.
THEOREM CloseStops == Spec => []CloseMeansStopped
BY Invariance, PTL DEF IInv

\* A listener reported as failed has no Execute.
THEOREM FailedStaysDead == Spec => []FailedIsDead
BY Invariance, PTL DEF IInv
=============================================================================
