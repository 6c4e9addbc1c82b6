-------------------------- MODULE EventCallsProofs --------------------------
(***************************************************************************)
(* The calls of the listener, for every number of nodes, topics, handlers,  *)
(* events and deliveries: a handler is called only with what is due to it.   *)
(* A handler has one place number in all arrays that hold it, and the        *)
(* listener goes up through the places: it meets a handler at most once for  *)
(* a message, whatever is appended meanwhile.                                *)
(***************************************************************************)
EXTENDS EventsProofs

InRange(n) == lis[n].pc \in {"range", "handle"}

CallTypes ==
  /\ copies \in [Event -> [Node -> Nat]]
  /\ received \in [Event -> [Node -> Nat]]
  /\ calls \in [Handler -> [Event -> Nat]]

\* Cell k of array a holds h.
At(a, k, h) == a \in 1..Len(arrays) /\ k \in 1..Len(arrays[a]) /\ arrays[a][k] = h

\* Every array has a first handler, and only append writes a handler.
CellInv ==
  /\ \A a \in 1..Len(arrays) : \E h \in Handler : At(a, 1, h)
  /\ \A h \in Handler, a, k \in Nat : At(a, k, h) => reg[h] \in {"appended", "done"}

\* A handler is at the same place of all arrays that hold it.
PlaceInv ==
  \A h \in Handler, a, b, k, j \in Nat : At(a, k, h) /\ At(b, j, h) => k = j

\* The array of the slice s holds handlers of topic t on node n only.
Owned(s, n, t) ==
  \A h \in Handler, k \in Nat : At(s.arr, k, h) => NodeOf[h] = n /\ TopicOf[h] = t

KeyInv ==
  /\ \A n \in Node, t \in Topic : Owned(handlrMap[n][t], n, t)
  /\ \A h \in Handler : Owned(hdlrs[h], NodeOf[h], TopicOf[h])
  /\ \A n \in Node : InRange(n) => Owned(lis[n].hs, n, TopicOfEvent[lis[n].ev])

\* Only what was broadcast is delivered and handled.
PubInv ==
  /\ \A e \in Event, n \in Node : copies[e][n] > 0 => e \in published
  /\ \A n \in Node : \A k \in 1..Len(sub[n]) : sub[n][k] \in published
  /\ \A n \in Node : InRange(n) => lis[n].ev \in (Event \cap published) \ Foreign

\* The place k is still to come in the listener's loop.
Ahead(n, k) == IF lis[n].pc = "range" THEN k >= lis[n].i ELSE k > lis[n].i

\* The handlers ahead have not been called for the message that is handled.
RoundInv ==
  \A n \in Node : InRange(n) =>
    /\ received[lis[n].ev][n] > 0
    /\ \A h \in Handler, a, k \in Nat :
         At(a, k, h) /\ NodeOf[h] = n /\ Ahead(n, k)
           => calls[h][lis[n].ev] < received[lis[n].ev][n]

CallInv ==
  /\ CallTypes /\ CellInv /\ PlaceInv /\ KeyInv /\ PubInv /\ RoundInv
  /\ NoSpuriousCall

\* Before the first registration and the first broadcast.
LEMMA InitCalls == Init => CallInv
<1> SUFFICES ASSUME Init PROVE CallInv
  OBVIOUS
<1>1. \A a, k, h : ~At(a, k, h)
  BY DEF Init, At
<1>2. \A n \in Node : ~InRange(n)
  BY DEF Init, InRange, Idle
<1>3. CallTypes
  BY DEF Init, CallTypes
<1>4. CellInv
  BY <1>1 DEF CellInv, Init
<1>5. PlaceInv /\ KeyInv
  BY <1>1, <1>2 DEF PlaceInv, KeyInv, Owned
<1>6. PubInv
  BY <1>2 DEF PubInv, Init
<1>7. RoundInv
  BY <1>2 DEF RoundInv
<1>8. NoSpuriousCall
  BY EventsAssumption DEF Init, NoSpuriousCall
<1> QED BY <1>3, <1>4, <1>5, <1>6, <1>7, <1>8 DEF CallInv

\* What append can have put into a cell: what was there, what its slice had
\* there, or its handler.
LEMMA AppendCells ==
  ASSUME TypeInv, NEW h \in Handler, Good(hdlrs[h]), AppendHandler(h),
         NEW a, NEW k, NEW g \in Handler, At(a, k, g)'
  PROVE  \/ At(a, k, g)
         \/ a = hdlrs'[h].arr /\ At(hdlrs[h].arr, k, g)
         \/ a = hdlrs'[h].arr /\ k = hdlrs[h].len + 1 /\ g = h
<1> DEFINE s == hdlrs[h]
           cap == IF s.arr = 0 THEN 0 ELSE Len(arrays[s.arr])
           room == IF cap = 0 THEN 1 ELSE 2 * cap
           copy == [j \in 1..room |->
                      IF j <= s.len THEN arrays[s.arr][j]
                      ELSE IF j = s.len + 1 THEN h ELSE Nil]
<1>1. /\ s.arr \in 0..Len(arrays) /\ s.len \in Nat
      /\ s.len > 0 => s.arr > 0
      /\ arrays \in Seq(Seq(HandlerOrNil)) /\ Len(arrays) \in Nat
      /\ hdlrs \in [Handler -> Slice]
  BY DEF TypeInv, Good, Slice
<1>2. s.arr > 0 => arrays[s.arr] \in Seq(HandlerOrNil) /\ s.len <= Len(arrays[s.arr])
  BY <1>1 DEF Good
<1>3. a \in 1..Len(arrays') /\ k \in 1..Len(arrays'[a]) /\ arrays'[a][k] = g
  BY DEF At
<1>4. CASE /\ s.len < cap
           /\ arrays' = [arrays EXCEPT ![s.arr][s.len + 1] = h]
           /\ hdlrs' = [hdlrs EXCEPT ![h] = [arr |-> s.arr, len |-> s.len + 1]]
  <2>1. s.arr \in 1..Len(arrays) /\ hdlrs'[h].arr = s.arr /\ Len(arrays') = Len(arrays)
    BY <1>1, <1>4
  <2>2. CASE a # s.arr
    BY <1>1, <1>3, <1>4, <2>1, <2>2 DEF At
  <2>3. CASE a = s.arr
    <3>1. arrays'[a] = [arrays[a] EXCEPT ![s.len + 1] = h]
      BY <1>1, <1>4, <2>1, <2>3
    <3>2. Len(arrays'[a]) = Len(arrays[a]) /\ (k # s.len + 1 => arrays'[a][k] = arrays[a][k])
      BY <1>2, <1>3, <2>1, <2>3, <3>1
    <3>3. k = s.len + 1 => arrays'[a][k] = h
      <4>1. s.len + 1 \in 1..Len(arrays[a])
        <5>1. s.len < cap
          BY Zenon, <1>4
        <5>2. s.len \in Nat /\ s.arr # 0 /\ Len(arrays[s.arr]) \in Nat
          BY <1>1, <1>2, <2>1
        <5> QED BY <2>3, <5>1, <5>2
      <4>2. arrays[a] \in Seq(HandlerOrNil)
        BY <1>2, <2>1, <2>3
      <4> HIDE DEF s
      <4> QED BY <3>1, <4>1, <4>2
    <3> QED BY <1>3, <2>1, <2>3, <3>2, <3>3 DEF At
  <2> QED BY <2>2, <2>3
<1>5. CASE /\ s.len = cap
           /\ arrays' = Append(arrays, copy)
           /\ hdlrs' = [hdlrs EXCEPT ![h] = [arr |-> Len(arrays) + 1, len |-> s.len + 1]]
  <2>1. hdlrs'[h].arr = Len(arrays) + 1
    BY <1>1, <1>5
  <2>2. cap \in Nat /\ room \in Nat /\ room >= 1
    BY <1>1, <1>2
  <2>3. DOMAIN copy = 1..room /\ \A j \in 1..room : copy[j] =
          IF j <= s.len THEN arrays[s.arr][j] ELSE IF j = s.len + 1 THEN h ELSE Nil
    OBVIOUS
  <2> HIDE DEF copy, room
  <2>4. Len(arrays') = Len(arrays) + 1 /\ arrays'[Len(arrays) + 1] = copy
        /\ \A b \in 1..Len(arrays) : arrays'[b] = arrays[b]
    BY <1>1, <1>5
  <2>5. CASE a # Len(arrays) + 1
    <3>1. a \in 1..Len(arrays)
      BY <1>1, <1>3, <2>4, <2>5
    <3> QED BY Zenon, <1>3, <2>4, <3>1 DEF At
  <2>6. CASE a = Len(arrays) + 1
    <3>1. Len(copy) = room
      BY <2>2, <2>3
    <3>2. k \in 1..room /\ copy[k] = g
      BY <1>3, <2>4, <2>6, <3>1
    <3>3. CASE k <= s.len
      <4>1. s.arr \in 1..Len(arrays) /\ k \in 1..Len(arrays[s.arr])
        BY <1>1, <1>2, <3>2, <3>3
      <4> QED BY <2>1, <2>3, <2>6, <3>2, <3>3, <4>1 DEF At
    <3>4. CASE k > s.len
      BY <1>1, <2>1, <2>2, <2>3, <2>6, <3>2, <3>4, EventsAssumption
    <3> QED BY <1>1, <2>2, <3>2, <3>3, <3>4
  <2> QED BY <2>5, <2>6
<1> QED BY <1>4, <1>5 DEF AppendHandler

\* append makes one new array at most.
LEMMA AppendLen ==
  ASSUME TypeInv, NEW h \in Handler, AppendHandler(h), NEW a \in 1..Len(arrays')
  PROVE  a \in 1..Len(arrays) \/ a = hdlrs'[h].arr
<1>1. arrays \in Seq(Seq(HandlerOrNil)) /\ hdlrs \in [Handler -> Slice]
  BY DEF TypeInv
<1>2. CASE \E x, y : arrays' = [arrays EXCEPT ![hdlrs[h].arr][x] = y]
  BY <1>1, <1>2
<1>3. CASE \E x, y : arrays' = Append(arrays, x)
                    /\ hdlrs' = [hdlrs EXCEPT ![h] = [arr |-> Len(arrays) + 1, len |-> y]]
  BY <1>1, <1>3
<1> QED BY <1>2, <1>3, Zenon DEF AppendHandler

\* A handler that is not appended has been called for nothing.
LEMMA NotCalled ==
  ASSUME CallInv, NEW h \in Handler, reg[h] \notin {"appended", "done"}, NEW e \in Event
  PROVE  calls[h][e] = 0
<1>1. calls[h][e] \in Nat
  BY DEF CallInv, CallTypes
<1>2. ~(calls[h][e] > 0)
  BY Zenon DEF CallInv, NoSpuriousCall
<1> QED BY <1>1, <1>2

\* append gives its handler a place that it has nowhere else, in an array of its
\* own topic, and the listener, if the place is ahead, has not called it before.
LEMMA AppendCalls ==
  ASSUME IInv, CallInv, NEW h \in Handler, AppendHandler(h)
  PROVE  CallInv'
<1> DEFINE s == hdlrs[h]
           r == hdlrs'[h]
           After(a, k, g) ==
             a \in 1..Len(arrays') /\ k \in 1..Len(arrays'[a]) /\ arrays'[a][k] = g
<1>1. TypeInv /\ GoodInv /\ Good(hdlrs[h])
  BY DEF IInv, GoodInv
<1>2. /\ reg[h] = "loaded" /\ reg' = [reg EXCEPT ![h] = "appended"]
      /\ UNCHANGED <<handlrMap, raced, published, copies, sub, lis, received, calls>>
  BY Zenon DEF AppendHandler, pubsub, listener
<1>3. /\ hdlrs' = [hdlrs EXCEPT ![h] = r] /\ r \in Slice
      /\ arrays' \in Seq(Seq(HandlerOrNil)) /\ Len(arrays') >= Len(arrays)
      /\ r.len = s.len + 1
      /\ r.arr \in 1..Len(arrays') /\ r.len <= Len(arrays'[r.arr])
      /\ r.arr = s.arr \/ r.arr = Len(arrays) + 1
      /\ arrays'[r.arr][r.len] = h
      /\ \A k \in 1..s.len : arrays'[r.arr][k] = arrays[s.arr][k]
      /\ \A a \in 1..Len(arrays) :
           /\ Len(arrays'[a]) = Len(arrays[a])
           /\ \A k \in 1..Len(arrays[a]) :
                \/ arrays'[a][k] = arrays[a][k]
                \/ a = s.arr /\ k = s.len + 1 /\ arrays'[a][k] = h
  BY <1>1, AppendFacts, Zenon
<1>4. \A g \in Handler, a, k \in Nat : After(a, k, g) =>
        \/ At(a, k, g)
        \/ a = r.arr /\ At(s.arr, k, g)
        \/ a = r.arr /\ k = s.len + 1 /\ g = h
  <2> SUFFICES ASSUME NEW g \in Handler, NEW a \in Nat, NEW k \in Nat, At(a, k, g)'
               PROVE  \/ At(a, k, g)
                      \/ a = r.arr /\ At(s.arr, k, g)
                      \/ a = r.arr /\ k = s.len + 1 /\ g = h
    BY Zenon DEF At
  <2> QED BY <1>1, AppendCells, Zenon
<1>5. /\ s.arr \in 0..Len(arrays) /\ Len(arrays) \in Nat /\ s.len \in Nat
      /\ s.len > 0 => s.arr > 0
      /\ Len(arrays') \in Nat
  BY SMTT(20), <1>1, <1>3 DEF TypeInv, Good, Slice
<1>6. \A a, k \in Nat : ~At(a, k, h)
  BY <1>2 DEF CallInv, CellInv
<1>7. /\ reg'[h] = "appended"
      /\ \A g \in Handler : g # h => reg'[g] = reg[g] /\ hdlrs'[g] = hdlrs[g]
  BY <1>1, <1>2, <1>3 DEF TypeInv
<1>8. \A g \in Handler, a, k \in Nat : After(a, k, g) =>
        (\E b \in Nat : At(b, k, g)) \/ (g = h /\ k = s.len + 1)
  <2>1. s.arr \in Nat
    BY <1>5
  <2> QED BY <1>4, <2>1, Zenon
<1>9. /\ r.arr \in Nat /\ r.arr \in 1..Len(arrays')
      /\ r.arr = s.arr \/ r.arr = Len(arrays) + 1
      /\ r.len \in 1..Len(arrays'[r.arr]) /\ 1 \in 1..Len(arrays'[r.arr])
  <2>1. /\ arrays' \in Seq(Seq(HandlerOrNil)) /\ r.arr \in 1..Len(arrays')
        /\ r.len = s.len + 1 /\ r.len <= Len(arrays'[r.arr])
        /\ r.arr = s.arr \/ r.arr = Len(arrays) + 1
    BY Zenon, <1>3
  <2>2. Len(arrays'[r.arr]) \in Nat /\ s.len \in Nat
    BY <1>5, <2>1
  <2> HIDE DEF s, r
  <2>3. r.len \in 1..Len(arrays'[r.arr]) /\ 1 \in 1..Len(arrays'[r.arr])
    BY <2>1, <2>2
  <2> QED BY <2>1, <2>3
<1> HIDE DEF s, r, After
<1>10. CallTypes'
  BY <1>2 DEF CallInv, CallTypes
<1>11. CellInv'
  <2>1. ASSUME NEW a \in 1..Len(arrays') PROVE \E g \in Handler : After(a, 1, g)
    <3>1. CASE a \in 1..Len(arrays)
      <4>1. PICK g \in Handler : At(a, 1, g)
        BY <3>1 DEF CallInv, CellInv
      <4>2. 1 \in 1..Len(arrays'[a]) /\ (arrays'[a][1] = g \/ arrays'[a][1] = h)
        BY <1>3, <3>1, <4>1, Zenon DEF At
      <4> QED BY <2>1, <4>2 DEF After
    <3>2. CASE a = r.arr /\ s.len = 0
      BY <1>3, <1>9, <3>2 DEF After
    <3>3. CASE a = r.arr /\ s.len > 0
      <4>1. s.arr \in 1..Len(arrays) /\ 1 \in 1..s.len
        BY <1>5, <3>3
      <4>2. PICK g \in Handler : At(s.arr, 1, g)
        BY <4>1 DEF CallInv, CellInv
      <4>3. arrays'[r.arr][1] = g
        BY <1>3, <4>1, <4>2, Zenon DEF At
      <4> QED BY <1>9, <3>3, <4>3 DEF After
    <3>4. a \in 1..Len(arrays) \/ a = r.arr
      BY <1>1, <2>1, AppendLen DEF r
    <3> QED BY <1>5, <3>1, <3>2, <3>3, <3>4
  <2>2. \A g \in Handler, a, k \in Nat : After(a, k, g) => reg'[g] \in {"appended", "done"}
    BY <1>7, <1>8 DEF CallInv, CellInv
  <2> QED BY <2>1, <2>2, Zenon DEF CellInv, At, After
<1>12. PlaceInv'
  <2> SUFFICES ASSUME NEW g \in Handler, NEW a \in Nat, NEW b \in Nat, NEW k \in Nat,
                      NEW j \in Nat, After(a, k, g), After(b, j, g)
               PROVE  k = j
    BY SMTT(20) DEF PlaceInv, At, After
  <2> QED BY <1>6, <1>8 DEF CallInv, PlaceInv
<1>13. KeyInv'
  <2>1. ASSUME NEW q \in Slice, NEW n, NEW t, Good(q), Owned(q, n, t), NEW g \in Handler,
               NEW k \in Nat, After(q.arr, k, g)
        PROVE  NodeOf[g] = n /\ TopicOf[g] = t
    <3>1. q.arr \in Nat /\ q.arr <= Len(arrays)
      BY <1>5, <2>1 DEF Good, Slice
    <3>2. CASE At(q.arr, k, g)
      BY <2>1, <3>2 DEF Owned
    <3>3. CASE q.arr = r.arr /\ At(s.arr, k, g)
      <4>1. s.arr = q.arr
        BY <1>3, <1>5, <3>1, <3>3
      <4> QED BY <2>1, <3>3, <4>1 DEF Owned
    <3>4. CASE q.arr = r.arr /\ g = h
      <4>1. s.arr = q.arr /\ q.arr \in 1..Len(arrays)
        BY <1>3, <1>5, <3>1, <3>4
      <4>2. PICK f \in Handler : At(q.arr, 1, f)
        BY <4>1 DEF CallInv, CellInv
      <4>3. Owned(s, NodeOf[h], TopicOf[h])
        BY DEF CallInv, KeyInv, s
      <4> QED BY <2>1, <3>4, <4>1, <4>2, <4>3 DEF Owned
    <3> QED BY <1>4, <2>1, <3>1, <3>2, <3>3, <3>4
  <2>2. ASSUME NEW g \in Handler, NEW k \in Nat, After(r.arr, k, g)
        PROVE  NodeOf[g] = NodeOf[h] /\ TopicOf[g] = TopicOf[h]
    <3>1. Owned(s, NodeOf[h], TopicOf[h])
      BY DEF CallInv, KeyInv, s
    <3>2. At(r.arr, k, g) => r.arr = s.arr
      BY <1>5, <1>9 DEF At
    <3> QED BY <1>4, <1>9, <2>2, <3>1, <3>2 DEF Owned
  <2>3. ASSUME NEW n \in Node, NEW t \in Topic PROVE Owned(handlrMap[n][t], n, t)'
    <3>1. handlrMap[n][t] \in Slice /\ Good(handlrMap[n][t]) /\ Owned(handlrMap[n][t], n, t)
      BY <1>1 DEF TypeInv, GoodInv, CallInv, KeyInv
    <3>2. handlrMap' = handlrMap
      BY <1>2
    <3>3. \A g \in Handler, k \in Nat :
            After(handlrMap[n][t].arr, k, g) => NodeOf[g] = n /\ TopicOf[g] = t
      BY <2>1, <3>1
    <3> QED BY <3>2, <3>3, Zenon DEF Owned, At, After
  <2>4. ASSUME NEW f \in Handler PROVE Owned(hdlrs[f], NodeOf[f], TopicOf[f])'
    <3>1. CASE f = h
      BY <2>2, <3>1, Zenon DEF Owned, At, After, r
    <3>2. CASE f # h
      <4>1. hdlrs[f] \in Slice /\ Good(hdlrs[f]) /\ Owned(hdlrs[f], NodeOf[f], TopicOf[f])
        BY <1>1 DEF TypeInv, GoodInv, CallInv, KeyInv
      <4>2. hdlrs'[f] = hdlrs[f]
        BY <1>7, <3>2
      <4>3. \A g \in Handler, k \in Nat :
              After(hdlrs[f].arr, k, g) => NodeOf[g] = NodeOf[f] /\ TopicOf[g] = TopicOf[f]
        BY <2>1, <4>1
      <4> QED BY <4>2, <4>3, Zenon DEF Owned, At, After
    <3> QED BY <3>1, <3>2
  <2>5. ASSUME NEW n \in Node, InRange(n)
        PROVE  Owned(lis[n].hs, n, TopicOfEvent[lis[n].ev])'
    <3>1. lis[n].hs \in Slice /\ Good(lis[n].hs)
          /\ Owned(lis[n].hs, n, TopicOfEvent[lis[n].ev])
      BY <1>1, <2>5 DEF TypeInv, Listener, GoodInv, CallInv, KeyInv
    <3>2. lis' = lis
      BY <1>2
    <3>3. \A g \in Handler, k \in Nat :
            After(lis[n].hs.arr, k, g) =>
              NodeOf[g] = n /\ TopicOf[g] = TopicOfEvent[lis[n].ev]
      BY <2>1, <3>1
    <3> QED BY <3>2, <3>3, Zenon DEF Owned, At, After
  <2>6. \A n \in Node : InRange(n)' <=> InRange(n)
    BY <1>2 DEF InRange
  <2> QED BY <2>3, <2>4, <2>5, <2>6 DEF KeyInv
<1>14. PubInv'
  BY <1>2 DEF CallInv, PubInv, InRange
<1>15. RoundInv'
  <2> SUFFICES ASSUME NEW n \in Node, InRange(n), NEW g \in Handler, NEW a \in Nat,
                      NEW k \in Nat, After(a, k, g), NodeOf[g] = n, Ahead(n, k)
               PROVE  calls[g][lis[n].ev] < received[lis[n].ev][n]
    <3>1. lis' = lis /\ received' = received /\ calls' = calls
      BY <1>2
    <3>2. RoundInv
      BY DEF CallInv
    <3>3. \A m, j : (InRange(m)' <=> InRange(m)) /\ (Ahead(m, j)' <=> Ahead(m, j))
      BY <3>1 DEF InRange, Ahead
    <3>4. \A b, j, f : At(b, j, f)' <=> After(b, j, f)
      BY Zenon DEF At, After
    <3> QED BY <3>1, <3>2, <3>3, <3>4 DEF RoundInv
  <2>1. received[lis[n].ev][n] > 0 /\ lis[n].ev \in Event
    BY DEF CallInv, RoundInv, PubInv
  <2>2. CASE \E b \in Nat : At(b, k, g)
    BY <2>2 DEF CallInv, RoundInv
  <2>3. CASE g = h
    BY <1>2, <2>1, <2>3, NotCalled
  <2> QED BY <1>8, <2>2, <2>3
<1>16. NoSpuriousCall'
  <2>1. \A g \in Handler : reg[g] \in {"appended", "done"} => reg'[g] \in {"appended", "done"}
    BY <1>7
  <2> QED BY <1>2, <2>1 DEF CallInv, NoSpuriousCall
<1> QED BY <1>10, <1>11, <1>12, <1>13, <1>14, <1>15, <1>16 DEF CallInv

\* What the cells hold depends on the arrays only.
LEMMA SameCells ==
  ASSUME arrays' = arrays
  PROVE  /\ \A a, k, h : At(a, k, h)' <=> At(a, k, h)
         /\ CellInv /\ (\A h \in Handler : reg[h] \in {"appended", "done"} =>
                                             reg'[h] \in {"appended", "done"}) => CellInv'
         /\ PlaceInv => PlaceInv'
<1>1. \A a, k, h : At(a, k, h)' <=> At(a, k, h)
  BY Zenon DEF At
<1>2. PlaceInv => PlaceInv'
  BY <1>1 DEF PlaceInv
<1>3. ASSUME CellInv, \A h \in Handler : reg[h] \in {"appended", "done"} =>
                                           reg'[h] \in {"appended", "done"}
      PROVE  CellInv'
  BY <1>1, <1>3 DEF CellInv
<1> QED BY <1>1, <1>2, <1>3

\* A round goes on as it was.
LEMMA SameRound ==
  ASSUME RoundInv, UNCHANGED <<arrays, lis, received, calls>>
  PROVE  RoundInv'
<1>1. \A a, k, h : At(a, k, h)' <=> At(a, k, h)
  BY SameCells
<1>2. \A n, k : (InRange(n)' <=> InRange(n)) /\ (Ahead(n, k)' <=> Ahead(n, k))
  BY DEF InRange, Ahead
<1> QED BY <1>1, <1>2 DEF RoundInv

\* So does the topic of the slices.
LEMMA SameKeys ==
  ASSUME KeyInv, UNCHANGED <<arrays, handlrMap, hdlrs>>
  PROVE  /\ \A n \in Node, t \in Topic : Owned(handlrMap[n][t], n, t)'
         /\ \A h \in Handler : Owned(hdlrs[h], NodeOf[h], TopicOf[h])'
BY DEF KeyInv, Owned, At

\* Load and store move a slice between the list and the registration of its topic.
LEMMA RegisterCalls ==
  ASSUME IInv, CallInv, NEW h \in Handler, Load(h) \/ Store(h)
  PROVE  CallInv'
<1>1. /\ UNCHANGED <<arrays, published, copies, sub, lis, received, calls>>
      /\ \/ /\ reg[h] = "no" /\ reg' = [reg EXCEPT ![h] = "loaded"]
            /\ handlrMap' = handlrMap
            /\ hdlrs' = [hdlrs EXCEPT ![h] = handlrMap[NodeOf[h]][TopicOf[h]]]
         \/ /\ reg[h] = "appended" /\ reg' = [reg EXCEPT ![h] = "done"]
            /\ hdlrs' = hdlrs
            /\ handlrMap' = [handlrMap EXCEPT ![NodeOf[h]][TopicOf[h]] = hdlrs[h]]
  BY Zenon DEF Load, Store, pubsub, listener
<1>2. TypeInv /\ NodeOf[h] \in Node /\ TopicOf[h] \in Topic
  BY EventsAssumption DEF IInv
<1>3. \A g \in Handler : reg[g] \in {"appended", "done"} => reg'[g] \in {"appended", "done"}
  BY <1>1, <1>2 DEF TypeInv
<1>4. CallTypes' /\ PubInv'
  BY <1>1 DEF CallInv, CallTypes, PubInv, InRange
<1>5. CellInv' /\ PlaceInv'
  BY <1>1, <1>3, SameCells DEF CallInv
<1>6. \A a, k, g : At(a, k, g)' <=> At(a, k, g)
  BY <1>1, SameCells
<1>7. KeyInv'
  <2> DEFINE Own(q, n, t) ==
               \A g \in Handler, k \in Nat : At(q.arr, k, g) => NodeOf[g] = n /\ TopicOf[g] = t
  <2>1. /\ \A n \in Node, t \in Topic : Own(handlrMap[n][t], n, t)
        /\ \A g \in Handler : Own(hdlrs[g], NodeOf[g], TopicOf[g])
        /\ \A n \in Node : InRange(n) => Own(lis[n].hs, n, TopicOfEvent[lis[n].ev])
    BY Zenon DEF CallInv, KeyInv, Owned
  <2>2. /\ \A n \in Node, t \in Topic :
             \/ handlrMap'[n][t] = handlrMap[n][t]
             \/ n = NodeOf[h] /\ t = TopicOf[h] /\ handlrMap'[n][t] = hdlrs[h]
        /\ \A g \in Handler :
             \/ hdlrs'[g] = hdlrs[g]
             \/ g = h /\ hdlrs'[g] = handlrMap[NodeOf[h]][TopicOf[h]]
        /\ lis' = lis
    <3>1. hdlrs \in [Handler -> Slice] /\ handlrMap \in [Node -> [Topic -> Slice]]
      BY <1>2 DEF TypeInv
    <3>2. CASE /\ handlrMap' = handlrMap
               /\ hdlrs' = [hdlrs EXCEPT ![h] = handlrMap[NodeOf[h]][TopicOf[h]]]
      BY ONLY <1>1, <3>1, <3>2
    <3>3. CASE /\ hdlrs' = hdlrs
               /\ handlrMap' = [handlrMap EXCEPT ![NodeOf[h]][TopicOf[h]] = hdlrs[h]]
      BY ONLY <1>1, <1>2, <3>1, <3>3
    <3> QED BY Zenon, <1>1, <3>2, <3>3
  <2> HIDE DEF Own
  <2>3. /\ \A n \in Node, t \in Topic : Own(handlrMap'[n][t], n, t)
        /\ \A g \in Handler : Own(hdlrs'[g], NodeOf[g], TopicOf[g])
        /\ \A n \in Node : InRange(n)' => Own(lis'[n].hs, n, TopicOfEvent[lis'[n].ev])
    BY <1>2, <2>1, <2>2 DEF InRange
  <2>4. arrays' = arrays
    BY <1>1
  <2>5. \A n \in Node, t \in Topic : Owned(handlrMap[n][t], n, t)'
    BY ONLY <2>3, <2>4 DEF Owned, Own, At
  <2>6. \A g \in Handler : Owned(hdlrs[g], NodeOf[g], TopicOf[g])'
    BY ONLY <2>3, <2>4 DEF Owned, Own, At
  <2>7. \A n \in Node : InRange(n)' => Owned(lis[n].hs, n, TopicOfEvent[lis[n].ev])'
    BY ONLY <2>3, <2>4 DEF Owned, Own, At
  <2> QED BY ONLY <2>5, <2>6, <2>7 DEF KeyInv
<1>8. RoundInv'
  BY <1>1, SameRound DEF CallInv
<1>9. NoSpuriousCall'
  BY <1>1, <1>3 DEF CallInv, NoSpuriousCall
<1> QED BY <1>4, <1>5, <1>7, <1>8, <1>9 DEF CallInv

\* Broadcast, pubsub and the end of a node.
LEMMA PubsubCalls ==
  ASSUME IInv, CallInv,
         \/ \E e \in Event : Broadcast(e) \/ \E n \in Node : Deliver(e, n) \/ Lose(e, n)
         \/ \E n \in Node : Stop(n)
         \/ UNCHANGED vars
  PROVE  CallInv'
<1>1. UNCHANGED <<arrays, handlrMap, reg, hdlrs, lis, received, calls>>
  BY Zenon DEF Broadcast, Deliver, Lose, Stop, vars, registry, listener
<1>2. CellInv' /\ PlaceInv' /\ KeyInv' /\ RoundInv'
  <2>1. CellInv' /\ PlaceInv'
    BY <1>1, SameCells DEF CallInv
  <2>2. RoundInv'
    BY <1>1, SameRound DEF CallInv
  <2>3. KeyInv'
    <3>1. ASSUME NEW n \in Node, InRange(n)'
          PROVE  Owned(lis[n].hs, n, TopicOfEvent[lis[n].ev])'
      <4>1. arrays' = arrays /\ lis' = lis
        BY <1>1
      <4>2. InRange(n)
        BY <3>1, <4>1 DEF InRange
      <4>3. \A h \in Handler, k \in Nat : At(lis[n].hs.arr, k, h) =>
              NodeOf[h] = n /\ TopicOf[h] = TopicOfEvent[lis[n].ev]
        BY Zenon, <4>2 DEF CallInv, KeyInv, Owned
      <4> QED BY Zenon, <4>1, <4>3 DEF Owned, At
    <3> QED BY Zenon, <1>1, <3>1, SameKeys DEF CallInv, KeyInv
  <2> QED BY <2>1, <2>2, <2>3
<1>3. /\ copies' \in [Event -> [Node -> Nat]] /\ published \subseteq published'
      /\ \A e \in Event, n \in Node : copies'[e][n] > 0 => e \in published'
      /\ \A n \in Node : \A k \in 1..Len(sub'[n]) : sub'[n][k] \in published'
  <2>1. /\ TypeInv /\ copies \in [Event -> [Node -> Nat]] /\ Copies \in [Event -> Nat]
        /\ \A e \in Event, n \in Node : copies[e][n] > 0 => e \in published
        /\ \A n \in Node : \A k \in 1..Len(sub[n]) : sub[n][k] \in published
    BY EventsAssumption DEF IInv, CallInv, CallTypes, PubInv
  <2>2. ASSUME NEW e \in Event, Broadcast(e) PROVE <1>3!:
    <3>1. /\ published' = published \cup {e} /\ sub' = sub
          /\ copies' = [copies EXCEPT ![e] = [n \in Node |-> Copies[e]]]
      BY <2>2 DEF Broadcast
    <3> QED BY <2>1, <3>1
  <2>3. ASSUME NEW e \in Event, NEW n \in Node, Deliver(e, n) \/ Lose(e, n) PROVE <1>3!:
    <3>1. /\ published' = published /\ copies[e][n] > 0
          /\ copies' = [copies EXCEPT ![e][n] = copies[e][n] - 1]
          /\ sub' = sub \/ sub' = [sub EXCEPT ![n] = Append(sub[n], e)]
      BY <2>3 DEF Deliver, Lose
    <3>2. /\ copies' \in [Event -> [Node -> Nat]]
          /\ \A f \in Event, m \in Node : copies'[f][m] > 0 => f \in published
      BY <2>1, <3>1
    <3>3. sub \in [Node -> Seq(Event)]
      BY <2>1 DEF TypeInv
    <3>4. ASSUME NEW m \in Node, NEW k \in 1..Len(sub'[m]) PROVE sub'[m][k] \in published
      <4>1. CASE sub'[m] = sub[m]
        BY <2>1, <3>4, <4>1
      <4>2. CASE m = n /\ sub'[m] = Append(sub[n], e)
        BY <2>1, <3>1, <3>3, <3>4, <4>2
      <4> QED BY <3>1, <3>3, <4>1, <4>2
    <3> QED BY <3>1, <3>2, <3>4
  <2>4. CASE UNCHANGED <<published, copies, sub>>
    BY <2>1, <2>4
  <2> QED BY <2>2, <2>3, <2>4 DEF Stop, vars, pubsub
<1>4. CallTypes' /\ PubInv'
  BY <1>1, <1>3 DEF CallInv, CallTypes, PubInv, InRange
<1>5. NoSpuriousCall'
  BY Zenon, <1>1, <1>3 DEF CallInv, NoSpuriousCall
<1> QED BY <1>2, <1>4, <1>5 DEF CallInv

\* A place of a good slice holds a handler.
LEMMA WrittenCell ==
  ASSUME TypeInv, NEW q \in Slice, Good(q), NEW i \in Nat \ {0}, i <= q.len
  PROVE  arrays[q.arr][i] \in Handler /\ At(q.arr, i, arrays[q.arr][i])
<1>1. q.arr \in 1..Len(arrays) /\ q.len \in Nat /\ q.len <= Len(arrays[q.arr])
      /\ i \in 1..q.len
  BY DEF Good, Slice
<1>2. arrays[q.arr] \in Seq(HandlerOrNil)
  BY <1>1 DEF TypeInv
<1>3. i \in 1..Len(arrays[q.arr])
  BY <1>1, <1>2
<1>4. arrays[q.arr][i] \in HandlerOrNil /\ arrays[q.arr][i] # Nil
  BY <1>1, <1>2, <1>3 DEF Good
<1> QED BY <1>1, <1>3, <1>4 DEF At, HandlerOrNil

-----------------------------------------------------------------------------
(* The listener *)

\* The listener's record l is in the loop over handlers of its event, and those
\* ahead of it have had fewer calls (C) than the node has had messages (R).
Round(l, n, R, C) ==
  /\ l.ev \in (Event \cap published) \ Foreign /\ R[l.ev][n] > 0
  /\ \A h \in Handler, k \in Nat :
       At(l.hs.arr, k, h) => NodeOf[h] = n /\ TopicOf[h] = TopicOfEvent[l.ev]
  /\ \A h \in Handler, a, k \in Nat :
       /\ At(a, k, h) /\ NodeOf[h] = n
       /\ k > l.i \/ (k = l.i /\ l.pc = "range")
       => C[h][l.ev] < R[l.ev][n]

\* What NoSpuriousCall says of a handler of n and an event.
Due(h, e, n, R, C) ==
  /\ C[h][e] <= R[e][n]
  /\ C[h][e] > 0 =>
       /\ TopicOf[h] = TopicOfEvent[e]
       /\ e \in published \ Foreign /\ <<e, h>> \notin Undecodable
       /\ reg[h] \in {"appended", "done"}

\* What a step of the listener of n makes sure of.
Listened(n) ==
  /\ CallTypes'
  /\ \A m \in Node : \A k \in 1..Len(sub'[m]) : sub'[m][k] \in published
  /\ \A m \in Node : m # n =>
       lis'[m] = lis[m] /\ \A e \in Event : received'[e][m] = received[e][m]
  /\ \A h \in Handler : NodeOf[h] # n => calls'[h] = calls[h]
  /\ lis'[n].pc \in {"range", "handle"} => Round(lis'[n], n, received', calls')
  /\ \A h \in Handler, e \in Event :
       NodeOf[h] = n => Due(h, e, n, received', calls')

\* The types of what a listener reads and writes.
LEMMA Types ==
  ASSUME IInv, CallInv
  PROVE  /\ lis \in [Node -> Listener] /\ sub \in [Node -> Seq(Event)]
         /\ received \in [Event -> [Node -> Nat]]
         /\ calls \in [Handler -> [Event -> Nat]]
<1>1. lis \in [Node -> Listener] /\ sub \in [Node -> Seq(Event)]
  BY Zenon DEF IInv, TypeInv
<1>2. received \in [Event -> [Node -> Nat]] /\ calls \in [Handler -> [Event -> Nat]]
  BY Zenon DEF CallInv, CallTypes
<1> QED BY <1>1, <1>2

\* What the invariant says of a listener before a step.
LEMMA Before ==
  ASSUME IInv, CallInv, NEW n \in Node
  PROVE  /\ \A m \in Node : \A k \in 1..Len(sub[m]) : sub[m][k] \in published
         /\ InRange(n) => Round(lis[n], n, received, calls)
         /\ \A h \in Handler, e \in Event :
              NodeOf[h] = n => Due(h, e, n, received, calls)
<1>1. \A m \in Node : \A k \in 1..Len(sub[m]) : sub[m][k] \in published
  BY DEF CallInv, PubInv
<1>2. ASSUME InRange(n) PROVE Round(lis[n], n, received, calls)
  <2>1. lis[n].i \in Nat
    BY Types DEF Listener
  <2>2. \A k \in Nat : k > lis[n].i \/ (k = lis[n].i /\ lis[n].pc = "range") => Ahead(n, k)
    BY <2>1 DEF Ahead
  <2>3. /\ lis[n].ev \in (Event \cap published) \ Foreign /\ received[lis[n].ev][n] > 0
        /\ Owned(lis[n].hs, n, TopicOfEvent[lis[n].ev])
    BY Zenon, <1>2 DEF CallInv, PubInv, RoundInv, KeyInv
  <2>4. \A h \in Handler, a, k \in Nat :
          At(a, k, h) /\ NodeOf[h] = n /\ Ahead(n, k)
            => calls[h][lis[n].ev] < received[lis[n].ev][n]
    BY Zenon, <1>2 DEF CallInv, RoundInv
  <2> QED BY Zenon, <2>2, <2>3, <2>4 DEF Round, Owned
<1>3. \A h \in Handler, e \in Event : NodeOf[h] = n => Due(h, e, n, received, calls)
  BY Zenon DEF CallInv, NoSpuriousCall, Due
<1> QED BY <1>1, <1>2, <1>3

\* One place further the round goes on.
LEMMA RoundGoesOn ==
  ASSUME NEW l, NEW y, NEW n, NEW R, NEW C, Round(l, n, R, C), l.i \in Nat,
         y.pc = "range", y.i = l.i + 1, y.ev = l.ev, y.hs = l.hs
  PROVE  Round(y, n, R, C)
<1>1. \A k \in Nat : k > y.i \/ (k = y.i /\ y.pc = "range") => k > l.i
  OBVIOUS
<1> QED BY Zenon, <1>1 DEF Round

\* The steps after which the listener is not in its loop over the handlers.
LEMMA QuietListens ==
  ASSUME IInv, CallInv, NEW n \in Node, CheckDone(n) \/ NextFails(n) \/ RangeDone(n)
  PROVE  Listened(n)
<1>1. /\ UNCHANGED <<sub, received, calls, copies>>
      /\ \E pc \in {"top", "next", "done"} : lis' = [lis EXCEPT ![n] = Idle(pc)]
  BY DEF CheckDone, NextFails, RangeDone, pubsub
<1>2. /\ lis'[n].pc \notin {"range", "handle"}
      /\ \A m \in Node : m # n => lis'[m] = lis[m]
  BY <1>1, Types DEF Idle
<1>3. CallTypes'
  BY <1>1 DEF CallInv, CallTypes
<1> QED BY Zenon, <1>1, <1>2, <1>3, Before DEF Listened

\* A message is taken: its round begins at the first place, with one message more
\* than any handler has had calls.
LEMMA TakeListens ==
  ASSUME IInv, CallInv, NEW n \in Node, TakeNext(n)
  PROVE  Listened(n)
<1> DEFINE e == Head(sub[n])
           hs == handlrMap[n][TopicOfEvent[e]]
<1>1. /\ sub[n] # <<>> /\ sub' = [sub EXCEPT ![n] = Tail(sub[n])]
      /\ received' = [received EXCEPT ![e][n] = received[e][n] + 1]
      /\ lis' = [lis EXCEPT ![n] = IF e \in Foreign \/ hs = NoSlice THEN Idle("top")
                                  ELSE [Idle("range") EXCEPT !.ev = e, !.hs = hs]]
      /\ UNCHANGED <<copies, calls>>
  BY DEF TakeNext
<1>2. /\ sub \in [Node -> Seq(Event)]
      /\ \A m \in Node : \A k \in 1..Len(sub[m]) : sub[m][k] \in published
  BY Zenon, Types, Before
<1>3. e \in Event /\ e \in published /\ TopicOfEvent[e] \in Topic
  <2>1. sub[n] \in Seq(Event) /\ 1 \in 1..Len(sub[n]) /\ Head(sub[n]) = sub[n][1]
    BY <1>1, <1>2
  <2> QED BY <1>2, <2>1, EventsAssumption
<1>4. \A m \in Node : \A k \in 1..Len(sub'[m]) : sub'[m][k] \in published
  <2>1. ASSUME NEW k \in 1..Len(Tail(sub[n])) PROVE Tail(sub[n])[k] \in published
    <3>1. sub[n] \in Seq(Event) /\ sub[n] # <<>>
      BY <1>1, <1>2
    <3>2. k + 1 \in 1..Len(sub[n]) /\ Tail(sub[n])[k] = sub[n][k + 1]
      BY <2>1, <3>1
    <3> QED BY <1>2, <3>2
  <2>2. \A m \in Node : sub'[m] = IF m = n THEN Tail(sub[n]) ELSE sub[m]
    BY <1>1, <1>2
  <2> QED BY <1>2, <2>1, <2>2
<1>5. hs \in Slice /\ Owned(hs, n, TopicOfEvent[e])
  BY <1>3 DEF IInv, TypeInv, CallInv, KeyInv
<1> HIDE DEF e, hs
<1>6. /\ \A m \in Node : m # n => lis'[m] = lis[m]
      /\ \/ lis'[n].pc = "top"
         \/ /\ e \notin Foreign /\ lis'[n].pc = "range"
            /\ lis'[n].ev = e /\ lis'[n].hs = hs /\ lis'[n].i = 1
  BY <1>1, Types DEF Idle
<1>7. /\ received'[e][n] = received[e][n] + 1
      /\ \A f \in Event, m \in Node : f # e \/ m # n => received'[f][m] = received[f][m]
      /\ received' \in [Event -> [Node -> Nat]]
  BY <1>1, <1>3, Types
<1>8. /\ \A f \in Event : received[f][n] \in Nat
      /\ \A h \in Handler, f \in Event : calls[h][f] \in Nat
      /\ \A h \in Handler, f \in Event : NodeOf[h] = n => Due(h, f, n, received, calls)
  BY Types, Before
<1>9. CallTypes'
  BY <1>1, <1>7 DEF CallInv, CallTypes
<1>10. \A h \in Handler, f \in Event : NodeOf[h] = n => Due(h, f, n, received', calls')
  <2>1. \A f \in Event : received'[f][n] \in Nat /\ received[f][n] <= received'[f][n]
    BY <1>7, <1>8
  <2>2. ASSUME NEW h \in Handler, NEW f \in Event, NodeOf[h] = n
        PROVE  calls[h][f] <= received'[f][n]
    <3>1. calls[h][f] <= received[f][n]
      BY Zenon, <1>8, <2>2 DEF Due
    <3> QED BY <1>8, <2>1, <3>1
  <2>3. calls' = calls
    BY <1>1
  <2> QED BY Zenon, <1>8, <2>2, <2>3 DEF Due
<1>11. ASSUME lis'[n].pc \in {"range", "handle"} PROVE Round(lis'[n], n, received', calls')
  <2>1. e \notin Foreign /\ lis'[n].ev = e /\ lis'[n].hs = hs
    BY <1>6, <1>11
  <2>2. ASSUME NEW h \in Handler, NodeOf[h] = n PROVE calls'[h][e] < received'[e][n]
    <3>1. calls[h][e] <= received[e][n] /\ calls' = calls
      BY Zenon, <1>1, <1>3, <1>8, <2>2 DEF Due
    <3> QED BY <1>3, <1>7, <1>8, <3>1
  <2>3. received'[e][n] > 0
    BY <1>3, <1>7, <1>8
  <2> QED BY Zenon, <1>3, <1>5, <2>1, <2>2, <2>3 DEF Round, Owned
<1>12. /\ calls' = calls
       /\ \A m \in Node : m # n => \A f \in Event : received'[f][m] = received[f][m]
  BY <1>1, <1>7
<1> QED BY Zenon, <1>4, <1>6, <1>9, <1>10, <1>11, <1>12 DEF Listened

\* A handler is called, or cannot decode the event: it is not met again at a later
\* place.
LEMMA RunListens ==
  ASSUME IInv, CallInv, NEW n \in Node, RunHandler(n)
  PROVE  Listened(n)
<1> DEFINE l == lis[n]
           g == arrays[l.hs.arr][l.i]
<1>1. /\ l.pc = "range" /\ l.i <= l.hs.len /\ UNCHANGED <<sub, received, copies>>
      /\ \/ lis' = [lis EXCEPT ![n].i = @ + 1] /\ calls' = calls
         \/ /\ <<l.ev, g>> \notin Undecodable
            /\ lis' = [lis EXCEPT ![n].pc = "handle", ![n].h = g]
            /\ calls' = [calls EXCEPT ![g][l.ev] = @ + 1]
  BY Zenon DEF RunHandler, pubsub
<1>2. lis \in [Node -> Listener] /\ l \in Listener /\ l.i \in Nat
  BY Types DEF Listener
<1>3. g \in Handler /\ At(l.hs.arr, l.i, g) /\ l.hs.arr \in Nat
  <2>1. Good(l.hs) /\ l.hs \in Slice /\ l.i \in Nat \ {0} /\ TypeInv
    BY Zenon, <1>2 DEF IInv, GoodInv, Listener
  <2>2. l.i <= l.hs.len
    BY Zenon, <1>1
  <2> QED BY Zenon, <2>1, <2>2, WrittenCell DEF Slice
<1>4. Round(l, n, received, calls)
  BY Zenon, <1>1, Before DEF InRange
<1>5. /\ \A h \in Handler, e \in Event : NodeOf[h] = n => Due(h, e, n, received, calls)
      /\ \A m \in Node : \A k \in 1..Len(sub'[m]) : sub'[m][k] \in published
  BY Zenon, <1>1, Before
<1> HIDE DEF g
<1>6. CASE lis' = [lis EXCEPT ![n].i = @ + 1] /\ calls' = calls
  <2>1. /\ lis'[n].pc = "range" /\ lis'[n].i = l.i + 1
        /\ lis'[n].ev = l.ev /\ lis'[n].hs = l.hs
        /\ \A m \in Node : m # n => lis'[m] = lis[m]
    BY <1>1, <1>2, <1>6 DEF Listener
  <2>2. received' = received /\ calls' = calls
    BY <1>1, <1>6
  <2>3. Round(lis'[n], n, received', calls')
    BY <1>2, <1>4, <2>1, <2>2, RoundGoesOn
  <2>4. CallTypes'
    BY <1>1, <1>6 DEF CallInv, CallTypes
  <2> QED BY Zenon, <1>5, <2>1, <2>2, <2>3, <2>4 DEF Listened
<1>7. CASE /\ <<l.ev, g>> \notin Undecodable
           /\ lis' = [lis EXCEPT ![n].pc = "handle", ![n].h = g]
           /\ calls' = [calls EXCEPT ![g][l.ev] = @ + 1]
  <2>1. /\ lis'[n].pc = "handle" /\ lis'[n].i = l.i
        /\ lis'[n].ev = l.ev /\ lis'[n].hs = l.hs
        /\ \A m \in Node : m # n => lis'[m] = lis[m]
    BY <1>2, <1>7 DEF Listener
  <2>2. /\ NodeOf[g] = n /\ TopicOf[g] = TopicOfEvent[l.ev]
        /\ l.ev \in Event /\ l.ev \in published \ Foreign
        /\ calls[g][l.ev] < received[l.ev][n]
    BY Zenon, <1>1, <1>2, <1>3, <1>4 DEF Round
  <2>3. reg[g] \in {"appended", "done"}
    BY <1>2, <1>3 DEF CallInv, CellInv
  <2>4. /\ calls' \in [Handler -> [Event -> Nat]]
        /\ calls'[g][l.ev] = calls[g][l.ev] + 1
        /\ \A h \in Handler, e \in Event : h # g \/ e # l.ev => calls'[h][e] = calls[h][e]
        /\ \A h \in Handler : h # g => calls'[h] = calls[h]
    BY <1>3, <1>7, <2>2, Types
  <2>5. received' = received /\ CallTypes'
    BY <1>1, <2>4 DEF CallInv, CallTypes
  <2>6. calls'[g][l.ev] <= received[l.ev][n]
    <3>1. calls[g][l.ev] \in Nat /\ received[l.ev][n] \in Nat
      BY Zenon, <1>3, <2>2, Types
    <3> QED BY <2>2, <2>4, <3>1
  <2>7. ASSUME NEW h \in Handler, NEW e \in Event, NodeOf[h] = n
        PROVE  Due(h, e, n, received', calls')
    <3>1. CASE h = g /\ e = l.ev
      BY Zenon, <1>7, <2>2, <2>3, <2>5, <2>6, <3>1 DEF Due
    <3>2. CASE h # g \/ e # l.ev
      BY ZenonT(30), <1>5, <2>4, <2>5, <2>7, <3>2 DEF Due
    <3> QED BY <3>1, <3>2
  <2>8. Round(lis'[n], n, received', calls')
    <3>1. ASSUME NEW h \in Handler, NEW a \in Nat, NEW k \in Nat, At(a, k, h),
                 NodeOf[h] = n, k > l.i
          PROVE  calls'[h][l.ev] < received[l.ev][n]
      <4>1. h # g
        BY SMTT(20), <1>2, <1>3, <3>1 DEF CallInv, PlaceInv
      <4>2. calls[h][l.ev] < received[l.ev][n]
        BY Zenon, <1>4, <3>1 DEF Round
      <4> QED BY <2>2, <2>4, <4>1, <4>2
    <3> HIDE DEF l
    <3> QED BY Zenon, <1>4, <2>1, <2>5, <3>1 DEF Round
  <2>9. \A h \in Handler : NodeOf[h] # n => calls'[h] = calls[h]
    BY <2>2, <2>4
  <2> QED BY Zenon, <1>5, <2>1, <2>5, <2>7, <2>8, <2>9 DEF Listened
<1> QED BY <1>1, <1>6, <1>7

\* The handler returns, and the next place is looked at.
LEMMA ReturnListens ==
  ASSUME IInv, CallInv, NEW n \in Node, HandlerReturns(n)
  PROVE  Listened(n)
<1>1. /\ UNCHANGED <<sub, received, calls, copies>> /\ lis[n].pc = "handle"
      /\ lis' = [lis EXCEPT ![n].pc = "range", ![n].h = Nil, ![n].i = @ + 1]
  BY DEF HandlerReturns, pubsub
<1>2. /\ lis'[n].pc = "range" /\ lis'[n].i = lis[n].i + 1
      /\ lis'[n].ev = lis[n].ev /\ lis'[n].hs = lis[n].hs /\ lis[n].i \in Nat
      /\ \A m \in Node : m # n => lis'[m] = lis[m]
  BY <1>1, Types DEF Listener
<1>3. Round(lis[n], n, received, calls)
  BY <1>1, Before DEF InRange
<1>4. Round(lis'[n], n, received', calls')
  <2>1. received' = received /\ calls' = calls
    BY <1>1
  <2> QED BY <1>2, <1>3, <2>1, RoundGoesOn
<1>5. CallTypes'
  BY <1>1 DEF CallInv, CallTypes
<1> QED BY Zenon, <1>1, <1>2, <1>4, <1>5, Before DEF Listened

\* The listener takes a message, and calls the handlers of the slice one place
\* after the other.
LEMMA ListenerCalls ==
  ASSUME IInv, CallInv, NEW n \in Node, Execute(n)
  PROVE  CallInv'
<1>1. Listened(n)
  BY QuietListens, TakeListens, RunListens, ReturnListens DEF Execute
<1>2. UNCHANGED <<arrays, handlrMap, reg, hdlrs, published, copies>>
  BY Zenon DEF Execute, CheckDone, TakeNext, NextFails, RunHandler, HandlerReturns,
     RangeDone, registry, pubsub
<1>3. CellInv /\ PlaceInv /\ KeyInv /\ PubInv /\ RoundInv /\ NoSpuriousCall
  BY DEF CallInv
<1>4. CellInv' /\ PlaceInv'
  BY <1>2, <1>3, SameCells
<1>5. \A a, k, h : At(a, k, h)' <=> At(a, k, h)
  BY <1>2, SameCells
<1>6. ASSUME NEW m \in Node, InRange(m)'
      PROVE  Round(lis'[m], m, received', calls')
  <2>1. CASE m = n
    BY Zenon, <1>1, <1>6, <2>1 DEF Listened, InRange
  <2>2. CASE m # n
    <3>1. lis'[m] = lis[m] /\ \A e \in Event : received'[e][m] = received[e][m]
      BY Zenon, <1>1, <2>2 DEF Listened
    <3>2. Round(lis[m], m, received, calls)
      BY <1>6, <3>1, Before DEF InRange
    <3>3. \A h \in Handler : NodeOf[h] = m => calls'[h] = calls[h]
      BY Zenon, <1>1, <2>2 DEF Listened
    <3> QED BY <3>1, <3>2, <3>3 DEF Round
  <2> QED BY <2>1, <2>2
<1>7. \A m \in Node : lis'[m].i \in Nat
  <2>1. IInv'
    BY ListenerStep
  <2> QED BY <2>1 DEF IInv, TypeInv, Listener
<1>8. KeyInv'
  <2>1. /\ \A m \in Node, t \in Topic : Owned(handlrMap[m][t], m, t)'
        /\ \A h \in Handler : Owned(hdlrs[h], NodeOf[h], TopicOf[h])'
    BY <1>2, <1>3, SameKeys
  <2>2. ASSUME NEW m \in Node, InRange(m)'
        PROVE  Owned(lis[m].hs, m, TopicOfEvent[lis[m].ev])'
    <3>1. \A h \in Handler, k \in Nat : At(lis'[m].hs.arr, k, h) =>
            NodeOf[h] = m /\ TopicOf[h] = TopicOfEvent[lis'[m].ev]
      BY Zenon, <1>6, <2>2 DEF Round
    <3> QED BY Zenon, <1>2, <3>1 DEF Owned, At
  <2> QED BY <2>1, <2>2 DEF KeyInv
<1>9. PubInv'
  <2>1. \A m \in Node : InRange(m)' => lis'[m].ev \in (Event \cap published) \ Foreign
    BY Zenon, <1>6 DEF Round
  <2>2. \A m \in Node : \A k \in 1..Len(sub'[m]) : sub'[m][k] \in published
    BY Zenon, <1>1 DEF Listened
  <2> QED BY <1>2, <1>3, <2>1, <2>2 DEF PubInv
<1>10. RoundInv'
  <2>1. ASSUME NEW m \in Node, InRange(m)'
        PROVE  /\ received'[lis'[m].ev][m] > 0
               /\ \A h \in Handler, a, k \in Nat :
                    At(a, k, h) /\ NodeOf[h] = m /\ Ahead(m, k)'
                      => calls'[h][lis'[m].ev] < received'[lis'[m].ev][m]
    <3>1. \A k \in Nat :
            Ahead(m, k)' => k > lis'[m].i \/ (k = lis'[m].i /\ lis'[m].pc = "range")
      BY <1>7 DEF Ahead
    <3>2. Round(lis'[m], m, received', calls')
      BY <1>6, <2>1
    <3> QED BY Zenon, <3>1, <3>2 DEF Round
  <2> QED BY <1>5, <2>1 DEF RoundInv
<1>11. NoSpuriousCall'
  <2> SUFFICES ASSUME NEW h \in Handler, NEW e \in Event
               PROVE  Due(h, e, NodeOf[h], received', calls')
    BY Zenon, <1>2 DEF NoSpuriousCall, Due
  <2>1. CASE NodeOf[h] = n
    BY Zenon, <1>1, <2>1 DEF Listened
  <2>2. CASE NodeOf[h] # n
    <3>1. NodeOf[h] \in Node
      BY EventsAssumption
    <3>2. /\ calls'[h][e] = calls[h][e]
          /\ received'[e][NodeOf[h]] = received[e][NodeOf[h]]
      BY Zenon, <1>1, <2>2, <3>1 DEF Listened
    <3>3. Due(h, e, NodeOf[h], received, calls)
      BY Zenon, <1>3 DEF NoSpuriousCall, Due
    <3> QED BY Zenon, <3>2, <3>3 DEF Due
  <2> QED BY <2>1, <2>2
<1>12. CallTypes'
  BY <1>1 DEF Listened
<1> QED BY <1>4, <1>8, <1>9, <1>10, <1>11, <1>12 DEF CallInv

-----------------------------------------------------------------------------

\* The invariant of the calls holds in every reachable state.
THEOREM CallInvariance == Spec => []CallInv
<1>1. ASSUME IInv, CallInv, [Next]_vars PROVE CallInv'
  BY <1>1, RegisterCalls, AppendCalls, PubsubCalls, ListenerCalls DEF Next
<1> QED BY <1>1, InitCalls, Invariance, PTL DEF Spec

\* A handler is called only with events of its topic that were broadcast and that it
\* can decode, and at most once for each time its node has received one, however
\* often pubsub repeats an event and whatever is registered meanwhile.
THEOREM CallsAreDue == Spec => []NoSpuriousCall
<1>1. CallInv => NoSpuriousCall
  BY DEF CallInv
<1> QED BY <1>1, CallInvariance, PTL
=============================================================================
