---------------------------- MODULE EventsProofs ----------------------------
(***************************************************************************)
(* The handler lists of RegisterHandler, for every number of nodes, topics, *)
(* handlers and concurrent registrations.  The lists are slices over shared *)
(* arrays; the invariant says which cells of them are written, which array  *)
(* belongs to which topic, and at which place a handler stays.              *)
(***************************************************************************)
EXTENDS Events, TLAPS

Slice == [arr : Nat, len : Nat]
HandlerOrNil == Handler \cup {Nil}
Listener == [pc : {"top", "next", "range", "handle", "done"}, ev : Event \cup {Nil},
             hs : Slice, i : Nat \ {0}, h : HandlerOrNil]

TypeInv ==
  /\ arrays \in Seq(Seq(HandlerOrNil))
  /\ handlrMap \in [Node -> [Topic -> Slice]]
  /\ reg \in [Handler -> {"no", "loaded", "appended", "done"}]
  /\ hdlrs \in [Handler -> Slice]
  /\ raced \in SUBSET Handler
  /\ sub \in [Node -> Seq(Event)]
  /\ lis \in [Node -> Listener]

\* A slice lies within its array, and append has written all of its cells.
Good(s) ==
  /\ s.arr \in 0..Len(arrays)
  /\ s.len > 0 => s.arr > 0
  /\ s.arr > 0 => s.len <= Len(arrays[s.arr])
  /\ s.arr > 0 => \A k \in 1..s.len : arrays[s.arr][k] # Nil

GoodInv ==
  /\ \A h \in Handler : Good(hdlrs[h])
  /\ \A n \in Node, t \in Topic : Good(handlrMap[n][t])
  /\ \A n \in Node : Good(lis[n].hs)

\* Two registrations of one topic under way at the same time are both raced.
RaceInv ==
  \A g, h \in Handler :
    g # h /\ SameKey(g, h) /\ Registering(g) /\ Registering(h) => g \in raced

\* The array a is that of the list of topic t on node n, or of a registration
\* for it.
Uses(n, t, a) ==
  \/ handlrMap[n][t].arr = a
  \/ \E g \in Handler :
       Registering(g) /\ NodeOf[g] = n /\ TopicOf[g] = t /\ hdlrs[g].arr = a

\* No two topics share an array.
OwnInv ==
  \A n, m \in Node, t, u \in Topic, a \in 1..Len(arrays) :
    Uses(n, t, a) /\ Uses(m, u, a) => n = m /\ t = u

Holds(s, k, h) == s.arr > 0 /\ k <= s.len /\ arrays[s.arr][k] = h

\* An unraced handler has a place of its own: in its new slice once it is
\* appended, and once it is stored in the list and in every slice that a later
\* registration of the topic has loaded from it.
Kept(h, k) ==
  /\ reg[h] = "appended" => Holds(hdlrs[h], k, h)
  /\ reg[h] = "done" =>
       /\ Holds(handlrMap[NodeOf[h]][TopicOf[h]], k, h)
       /\ \A g \in Handler :
            Registering(g) /\ SameKey(g, h) => Holds(hdlrs[g], k, h)

KeepInv ==
  \A h \in Handler \ raced : \E k \in Nat \ {0} : Kept(h, k)

IInv == TypeInv /\ GoodInv /\ RaceInv /\ OwnInv /\ KeepInv

-----------------------------------------------------------------------------

\* At first no list has an array.
LEMMA InitIInv == Init => IInv
<1> SUFFICES ASSUME Init PROVE IInv
  OBVIOUS
<1>1. NoSlice \in Slice /\ NoSlice.arr = 0 /\ NoSlice.len = 0
  BY DEF NoSlice, Slice
<1>2. TypeInv
  <2>1. Idle("top") \in Listener
    BY <1>1 DEF Idle, HandlerOrNil, Listener
  <2> QED BY <1>1, <2>1 DEF Init, TypeInv
<1>3. Len(arrays) = 0 /\ Good(NoSlice)
  BY <1>1 DEF Init, Good
<1>4. GoodInv
  BY <1>3 DEF Init, GoodInv, Idle
<1>5. RaceInv /\ KeepInv
  <2>1. \A h \in Handler : Kept(h, 1) /\ ~Registering(h)
    BY DEF Init, Kept, Registering
  <2>2. 1 \in Nat \ {0}
    OBVIOUS
  <2> QED BY <2>1, <2>2 DEF RaceInv, KeepInv
<1>6. OwnInv
  BY SMTT(30), <1>3 DEF OwnInv
<1> QED BY <1>2, <1>4, <1>5, <1>6 DEF IInv

\* What append does, in place or in a copy: the new slice is one longer and ends
\* with h, and no other cell of an existing array changes.
LEMMA AppendFacts ==
  ASSUME TypeInv, NEW h \in Handler, Good(hdlrs[h]), AppendHandler(h)
  PROVE  LET s == hdlrs[h]
             r == hdlrs'[h]
         IN /\ hdlrs' = [hdlrs EXCEPT ![h] = r] /\ r \in Slice
            /\ arrays' \in Seq(Seq(HandlerOrNil)) /\ Len(arrays') >= Len(arrays)
            /\ r.len = s.len + 1
            /\ r.arr \in 1..Len(arrays') /\ r.len <= Len(arrays'[r.arr])
            /\ \A k \in 1..s.len : arrays'[r.arr][k] = arrays[s.arr][k]
            /\ arrays'[r.arr][r.len] = h
            /\ r.arr = s.arr \/ r.arr = Len(arrays) + 1
            /\ \A a \in 1..Len(arrays) :
                 /\ Len(arrays'[a]) = Len(arrays[a])
                 /\ \A k \in 1..Len(arrays[a]) :
                      \/ arrays'[a][k] = arrays[a][k]
                      \/ a = s.arr /\ k = s.len + 1 /\ arrays'[a][k] = h
<1> DEFINE s == hdlrs[h]
           cap == IF s.arr = 0 THEN 0 ELSE Len(arrays[s.arr])
           room == IF cap = 0 THEN 1 ELSE 2 * cap
           copy == [k \in 1..room |->
                      IF k <= s.len THEN arrays[s.arr][k]
                      ELSE IF k = s.len + 1 THEN h ELSE Nil]
<1>1. /\ s.arr \in 0..Len(arrays) /\ s.len \in Nat
      /\ s.len > 0 => s.arr > 0
      /\ arrays \in Seq(Seq(HandlerOrNil)) /\ Len(arrays) \in Nat
      /\ hdlrs \in [Handler -> Slice]
  BY DEF TypeInv, Good, Slice
<1>2. s.arr > 0 => arrays[s.arr] \in Seq(HandlerOrNil) /\ s.len <= Len(arrays[s.arr])
  BY SMTT(30), <1>1 DEF Good
<1>3. cap \in Nat /\ s.len <= cap /\ room \in Nat /\ room >= 1 /\ (cap > 0 => room > cap)
  BY SMTT(30), <1>1, <1>2
<1>4. CASE /\ s.len < cap
           /\ arrays' = [arrays EXCEPT ![s.arr][s.len + 1] = h]
           /\ hdlrs' = [hdlrs EXCEPT ![h] = [arr |-> s.arr, len |-> s.len + 1]]
  <2> DEFINE old == arrays[s.arr]
             new == [old EXCEPT ![s.len + 1] = h]
  <2>1. s.arr \in 1..Len(arrays) /\ old \in Seq(HandlerOrNil) /\ s.len + 1 \in 1..Len(old)
    BY SMTT(30), <1>1, <1>2, <1>3, <1>4
  <2>2. /\ new \in Seq(HandlerOrNil) /\ Len(new) = Len(old)
        /\ new[s.len + 1] = h
        /\ \A k \in 1..Len(old) : k # s.len + 1 => new[k] = old[k]
    BY <2>1 DEF HandlerOrNil
  <2>3. /\ arrays' \in Seq(Seq(HandlerOrNil)) /\ Len(arrays') = Len(arrays)
        /\ arrays'[s.arr] = new
        /\ \A a \in 1..Len(arrays) : a # s.arr => arrays'[a] = arrays[a]
    BY SMTT(30), <1>1, <1>4, <2>1, <2>2
  <2>4. /\ hdlrs'[h] = [arr |-> s.arr, len |-> s.len + 1]
        /\ hdlrs'[h] \in Slice
    BY SMTT(30), <1>1, <1>4 DEF Slice
  <2>5. /\ hdlrs' = [hdlrs EXCEPT ![h] = hdlrs'[h]]
        /\ hdlrs'[h].arr = s.arr /\ hdlrs'[h].len = s.len + 1
    <3> DEFINE r == [arr |-> s.arr, len |-> s.len + 1]
    <3>1. r.arr = s.arr /\ r.len = s.len + 1
      OBVIOUS
    <3>2. hdlrs' = [hdlrs EXCEPT ![h] = r] /\ hdlrs'[h] = r
      BY Zenon, <1>4, <2>4
    <3> HIDE DEF r
    <3> QED BY Zenon, <3>1, <3>2
  <2>6. \A a \in 1..Len(arrays) :
          /\ Len(arrays'[a]) = Len(arrays[a])
          /\ \A k \in 1..Len(arrays[a]) :
               \/ arrays'[a][k] = arrays[a][k]
               \/ a = s.arr /\ k = s.len + 1 /\ arrays'[a][k] = h
    <3> HIDE DEF new
    <3> QED BY Zenon, <2>2, <2>3
  <2>7. /\ \A k \in 1..s.len : arrays'[s.arr][k] = arrays[s.arr][k]
        /\ s.len + 1 <= Len(arrays'[s.arr])
    <3>1. old = arrays[s.arr]
      OBVIOUS
    <3> HIDE DEF old, new
    <3>2. \A k \in 1..s.len : k \in 1..Len(old) /\ k # s.len + 1
      BY SMTT(30), <1>1, <2>1
    <3>3. s.len + 1 <= Len(old)
      BY SMTT(30), <1>1, <2>1
    <3> QED BY Zenon, <2>2, <2>3, <3>1, <3>2, <3>3
  <2> HIDE DEF old, new
  <2> QED BY SMTT(30), <1>1, <2>1, <2>2, <2>3, <2>4, <2>5, <2>6, <2>7
<1>5. CASE /\ s.len = cap
           /\ arrays' = Append(arrays, copy)
           /\ hdlrs' = [hdlrs EXCEPT ![h] = [arr |-> Len(arrays) + 1, len |-> s.len + 1]]
  <2>1. s.len + 1 \in 1..room
    BY SMTT(30), <1>1, <1>3, <1>5
  <2>2. \A k \in 1..room : copy[k] \in HandlerOrNil
    <3> SUFFICES ASSUME NEW k \in 1..room, k <= s.len PROVE arrays[s.arr][k] \in HandlerOrNil
      BY DEF HandlerOrNil
    <3>1. s.arr > 0 /\ k \in 1..Len(arrays[s.arr])
      BY SMTT(30), <1>1, <1>2
    <3> QED BY SMTT(30), <1>2, <3>1
  <2>3. /\ copy[s.len + 1] = h
        /\ \A k \in 1..s.len : copy[k] = arrays[s.arr][k]
    BY SMTT(30), <1>1, <1>3, <2>1
  <2>6. copy \in [1..room -> HandlerOrNil]
    BY Zenon, <2>2
  <2> HIDE DEF copy, room
  <2>7. copy \in Seq(HandlerOrNil) /\ Len(copy) = room
    BY SMTT(30), <1>3, <2>6
  <2>4. /\ arrays' \in Seq(Seq(HandlerOrNil)) /\ Len(arrays') = Len(arrays) + 1
        /\ arrays'[Len(arrays) + 1] = copy
        /\ \A a \in 1..Len(arrays) : arrays'[a] = arrays[a]
    BY <1>1, <1>5, <2>7
  <2>5. /\ hdlrs'[h] = [arr |-> Len(arrays) + 1, len |-> s.len + 1]
        /\ hdlrs'[h] \in Slice
    BY <1>1, <1>5 DEF Slice
  <2>8. room >= s.len + 1
    BY <2>1, <1>3
  <2>9. /\ hdlrs' = [hdlrs EXCEPT ![h] = hdlrs'[h]]
        /\ hdlrs'[h].arr = Len(arrays) + 1 /\ hdlrs'[h].len = s.len + 1
    <3> DEFINE r == [arr |-> Len(arrays) + 1, len |-> s.len + 1]
    <3>1. r.arr = Len(arrays) + 1 /\ r.len = s.len + 1
      OBVIOUS
    <3>2. hdlrs' = [hdlrs EXCEPT ![h] = r] /\ hdlrs'[h] = r
      BY <1>5, <2>5
    <3> HIDE DEF r
    <3> QED BY Zenon, <3>1, <3>2
  <2>10. /\ hdlrs'[h].arr \in 1..Len(arrays') /\ Len(arrays') >= Len(arrays)
         /\ arrays'[hdlrs'[h].arr] = copy /\ hdlrs'[h].len <= Len(copy)
    BY SMTT(30), <1>1, <2>4, <2>7, <2>8, <2>9
  <2> HIDE DEF cap
  <2> QED BY SMTT(30), <2>3, <2>4, <2>5, <2>9, <2>10
<1> QED BY SMTT(20), SMTT(30), <1>4, <1>5 DEF AppendHandler

-----------------------------------------------------------------------------

\* An array in use exists.
LEMMA UsedExists ==
  ASSUME TypeInv, GoodInv, NEW n \in Node, NEW t \in Topic, NEW a, Uses(n, t, a)
  PROVE  a \in 0..Len(arrays)
BY DEF GoodInv, Good, Uses

\* append leaves every other list as it was: a cell that it overwrites is behind
\* the end of the slice it appends to, and another slice can have that cell only
\* if it is of a registration that raced this one.
LEMMA AppendStep ==
  ASSUME IInv, NEW h \in Handler, AppendHandler(h)
  PROVE  IInv'
<1> DEFINE s == hdlrs[h]
           r == hdlrs'[h]
<1>1. TypeInv /\ GoodInv /\ RaceInv /\ OwnInv /\ KeepInv
  BY SMTT(30) DEF IInv
<1>2. /\ reg[h] = "loaded" /\ reg' = [reg EXCEPT ![h] = "appended"]
      /\ UNCHANGED <<handlrMap, raced, sub, lis>>
  BY SMTT(30) DEF AppendHandler, pubsub, listener
<1>3. /\ s \in Slice /\ s.arr \in Nat /\ s.len \in Nat /\ Len(arrays) \in Nat
      /\ s.arr \in 0..Len(arrays) /\ (s.len > 0 => s.arr > 0)
  BY <1>1 DEF TypeInv, GoodInv, Good, Slice
<1>4. /\ hdlrs' = [hdlrs EXCEPT ![h] = r] /\ r \in Slice
      /\ arrays' \in Seq(Seq(HandlerOrNil)) /\ Len(arrays') >= Len(arrays)
      /\ Len(arrays') \in Nat
      /\ r.len = s.len + 1
      /\ r.arr \in 1..Len(arrays') /\ r.len <= Len(arrays'[r.arr])
      /\ \A k \in 1..s.len : arrays'[r.arr][k] = arrays[s.arr][k]
      /\ arrays'[r.arr][r.len] = h
      /\ r.arr = s.arr \/ r.arr = Len(arrays) + 1
      /\ \A a \in 1..Len(arrays) :
           /\ Len(arrays'[a]) = Len(arrays[a])
           /\ \A k \in 1..Len(arrays[a]) :
                \/ arrays'[a][k] = arrays[a][k]
                \/ a = s.arr /\ k = s.len + 1 /\ arrays'[a][k] = h
  <2>1. Good(hdlrs[h])
    BY <1>1 DEF GoodInv
  <2>2. /\ hdlrs' = [hdlrs EXCEPT ![h] = r] /\ r \in Slice
        /\ arrays' \in Seq(Seq(HandlerOrNil)) /\ Len(arrays') >= Len(arrays)
        /\ r.len = s.len + 1
        /\ r.arr \in 1..Len(arrays') /\ r.len <= Len(arrays'[r.arr])
        /\ \A k \in 1..s.len : arrays'[r.arr][k] = arrays[s.arr][k]
        /\ arrays'[r.arr][r.len] = h
        /\ r.arr = s.arr \/ r.arr = Len(arrays) + 1
        /\ \A a \in 1..Len(arrays) :
             /\ Len(arrays'[a]) = Len(arrays[a])
             /\ \A k \in 1..Len(arrays[a]) :
                  \/ arrays'[a][k] = arrays[a][k]
                  \/ a = s.arr /\ k = s.len + 1 /\ arrays'[a][k] = h
    BY <1>1, <2>1, AppendFacts, Zenon
  <2>3. Len(arrays') \in Nat
    BY SMTT(30), <2>2
  <2>4. QED
    BY <2>2, <2>3, Zenon
<1>5. \A g \in Handler : g # h => hdlrs'[g] = hdlrs[g] /\ reg'[g] = reg[g]
  BY <1>1, <1>2, <1>4 DEF TypeInv
<1>6. reg'[h] = "appended" /\ \A g \in Handler : Registering(g)' <=> Registering(g)
  BY SMTT(30), <1>1, <1>2, <1>5 DEF TypeInv, Registering
<1> HIDE DEF s, r
<1>7. TypeInv'
  BY <1>1, <1>2, <1>4 DEF TypeInv
<1>8. GoodInv'
  <2> DEFINE GoodAfter(q) ==
               /\ q.arr \in 0..Len(arrays')
               /\ q.len > 0 => q.arr > 0
               /\ q.arr > 0 => q.len <= Len(arrays'[q.arr])
               /\ q.arr > 0 => \A k \in 1..q.len : arrays'[q.arr][k] # Nil
  <2>1. ASSUME NEW q \in Slice, Good(q) PROVE GoodAfter(q)
    <3>1. q.arr \in Nat /\ q.len \in Nat
      BY <2>1 DEF Slice
    <3>2. ASSUME q.arr > 0, NEW k \in 1..q.len PROVE arrays'[q.arr][k] # Nil
      <4>1. q.arr \in 1..Len(arrays) /\ k \in 1..Len(arrays[q.arr]) /\ arrays[q.arr][k] # Nil
        <5>1. arrays[q.arr] \in Seq(HandlerOrNil)
          BY SMTT(30), <1>1, <2>1, <3>1, <3>2 DEF TypeInv, Good
        <5> QED BY SMTT(30), <2>1, <3>1, <3>2, <5>1, <1>3 DEF Good
      <4> QED BY Zenon, <1>4, <4>1, EventsAssumption
    <3>3. q.arr \in 0..Len(arrays')
      BY SMTT(30), <1>3, <1>4, <2>1, <3>1 DEF Good
    <3>4. q.arr > 0 => q.len <= Len(arrays'[q.arr])
      BY SMTT(30), <1>3, <1>4, <2>1, <3>1 DEF Good
    <3> QED BY <2>1, <3>2, <3>3, <3>4 DEF Good
  <2>2. GoodAfter(r)
    <3>1. \A k \in 1..s.len : arrays[s.arr][k] # Nil
      BY SMTT(30), <1>1, <1>3 DEF GoodInv, Good, s
    <3>2. ASSUME NEW k \in 1..r.len PROVE arrays'[r.arr][k] # Nil
      <4>1. CASE k = r.len
        BY SMTT(30), <1>4, <4>1, EventsAssumption
      <4>2. CASE k # r.len
        <5>1. k \in 1..s.len
          BY SMTT(30), <1>3, <1>4, <4>2
        <5> QED BY Zenon, <1>4, <3>1, <5>1
      <4> QED BY <4>1, <4>2
    <3> QED BY SMTT(30), <1>4, <3>2
  <2> HIDE DEF GoodAfter
  <2>3. /\ \A g \in Handler : GoodAfter(hdlrs'[g])
        /\ \A n \in Node, t \in Topic : GoodAfter(handlrMap'[n][t])
        /\ \A n \in Node : GoodAfter(lis'[n].hs)
    <3>1. \A g \in Handler : GoodAfter(hdlrs'[g])
      BY <1>1, <1>5, <2>1, <2>2 DEF TypeInv, GoodInv, r
    <3>2. \A n \in Node, t \in Topic : GoodAfter(handlrMap'[n][t])
      BY <1>1, <1>2, <2>1 DEF TypeInv, GoodInv
    <3>3. \A n \in Node : GoodAfter(lis'[n].hs)
      BY <1>1, <1>2, <2>1 DEF TypeInv, GoodInv, Listener
    <3> QED BY <3>1, <3>2, <3>3
  <2> USE DEF GoodAfter
  <2>4. ASSUME NEW g \in Handler PROVE Good(hdlrs[g])'
    <3>1. GoodAfter(hdlrs'[g])
      BY SMTT(30), <2>3
    <3> QED BY SMTT(30), <3>1 DEF Good
  <2>5. ASSUME NEW n \in Node, NEW t \in Topic PROVE Good(handlrMap[n][t])'
    <3>1. GoodAfter(handlrMap'[n][t])
      BY SMTT(30), <2>3
    <3> QED BY SMTT(30), <3>1 DEF Good
  <2>6. ASSUME NEW n \in Node PROVE Good(lis[n].hs)'
    <3>1. GoodAfter(lis'[n].hs)
      BY SMTT(30), <2>3
    <3> QED BY SMTT(30), <3>1 DEF Good
  <2> QED BY SMTT(30), <2>4, <2>5, <2>6 DEF GoodInv
<1>9. RaceInv'
  BY <1>1, <1>2, <1>6 DEF RaceInv, SameKey
<1>10. OwnInv'
  <2>1. ASSUME NEW n \in Node, NEW t \in Topic, NEW a \in 1..Len(arrays'), Uses(n, t, a)'
        PROVE  \/ a \in 1..Len(arrays) /\ Uses(n, t, a)
               \/ a = Len(arrays) + 1 /\ n = NodeOf[h] /\ t = TopicOf[h]
    <3>1. CASE handlrMap'[n][t].arr = a
      <4>1. Uses(n, t, a)
        BY <1>2, <3>1 DEF Uses
      <4> QED BY <1>1, <4>1, <1>3, UsedExists
    <3>2. CASE \E g \in Handler : Registering(g)' /\ NodeOf[g] = n /\ TopicOf[g] = t
                                  /\ hdlrs'[g].arr = a
      <4>1. PICK g \in Handler : Registering(g) /\ NodeOf[g] = n /\ TopicOf[g] = t
                                 /\ hdlrs'[g].arr = a
        BY SMTT(30), <1>6, <3>2
      <4>2. CASE hdlrs'[g].arr = hdlrs[g].arr
        <5>1. Uses(n, t, a)
          BY <4>1, <4>2 DEF Uses
        <5> QED BY <1>1, <5>1, <1>3, UsedExists
      <4>3. CASE hdlrs'[g].arr # hdlrs[g].arr
        BY Zenon, <1>4, <1>5, <4>1, <4>3 DEF r, s
      <4> QED BY <4>2, <4>3
    <3> QED BY SMTT(30), <2>1, <3>1, <3>2 DEF Uses
  <2>2. ASSUME NEW n \in Node, NEW m \in Node, NEW t \in Topic, NEW u \in Topic,
               NEW a \in 1..Len(arrays'), Uses(n, t, a)', Uses(m, u, a)'
        PROVE  n = m /\ t = u
    <3>1. \/ a \in 1..Len(arrays) /\ Uses(n, t, a)
          \/ a = Len(arrays) + 1 /\ n = NodeOf[h] /\ t = TopicOf[h]
      BY SMTT(30), <2>1, <2>2
    <3>2. \/ a \in 1..Len(arrays) /\ Uses(m, u, a)
          \/ a = Len(arrays) + 1 /\ m = NodeOf[h] /\ u = TopicOf[h]
      BY <2>1, <2>2
    <3>3. a \in 1..Len(arrays) => a # Len(arrays) + 1
      BY <1>3
    <3> QED BY SMTT(30), <1>1, <3>1, <3>2, <3>3 DEF OwnInv
  <2> QED BY SMTT(30), <2>2 DEF OwnInv
<1>11. ASSUME NEW q \in Slice, Good(q), NEW k \in Nat \ {0}, NEW g, Holds(q, k, g),
              q.arr = s.arr => k <= s.len
       PROVE  q.arr > 0 /\ k <= q.len /\ arrays'[q.arr][k] = g
  <2>1. /\ q.arr \in 1..Len(arrays) /\ k <= q.len /\ arrays[q.arr][k] = g
        /\ q.len \in Nat /\ q.len <= Len(arrays[q.arr])
    BY SMTT(30), <1>11, <1>3 DEF Good, Holds, Slice
  <2>2. arrays[q.arr] \in Seq(HandlerOrNil)
    BY <1>1, <2>1 DEF TypeInv
  <2>3. k \in 1..Len(arrays[q.arr])
    BY SMTT(30), <1>11, <2>1, <2>2
  <2>4. \/ arrays'[q.arr][k] = arrays[q.arr][k]
        \/ q.arr = s.arr /\ k = s.len + 1
    BY SMTT(30), <1>4, <2>1, <2>3
  <2>5. q.arr = s.arr => k # s.len + 1
    BY <1>3, <1>11
  <2> QED BY <2>1, <2>4, <2>5
<1>12. KeepInv'
  <2> SUFFICES ASSUME NEW g \in Handler \ raced
               PROVE  \E k \in Nat \ {0} : Kept(g, k)'
    BY <1>2 DEF KeepInv
  <2>1. CASE g = h
    <3>1. PICK k \in Nat \ {0} : k = r.len
      BY SMTT(30), <1>3, <1>4
    <3>2. hdlrs'[h].arr > 0 /\ k <= hdlrs'[h].len /\ arrays'[hdlrs'[h].arr][k] = h
      BY SMTT(30), <1>4, <3>1 DEF r
    <3>3. Kept(h, k)'
      BY <1>6, <3>2 DEF Kept, Holds
    <3> QED BY <2>1, <3>3
  <2>2. CASE g # h
    <3>1. PICK k \in Nat \ {0} : Kept(g, k)
      BY SMTT(30), <1>1 DEF KeepInv
    <3>2. hdlrs'[g] = hdlrs[g] /\ reg'[g] = reg[g] /\ NodeOf[g] \in Node /\ TopicOf[g] \in Topic
          /\ NodeOf[h] \in Node /\ TopicOf[h] \in Topic
      BY <1>5, <2>2, EventsAssumption
    <3>3. Registering(h)
      BY SMTT(30), <1>2 DEF Registering
    <3>4. ASSUME NEW q \in Slice, Uses(NodeOf[g], TopicOf[g], q.arr), q.arr = s.arr, q.arr > 0
          PROVE  SameKey(h, g)
      <4>1. Uses(NodeOf[h], TopicOf[h], s.arr)
        BY SMTT(30), <3>3 DEF Uses, s
      <4>2. s.arr \in 1..Len(arrays)
        BY <1>3, <3>4
      <4> QED BY SMTT(30), <1>1, <3>2, <3>4, <4>1, <4>2 DEF OwnInv, SameKey
    <3>5. CASE reg[g] = "appended"
      <4>1. hdlrs[g] \in Slice /\ Good(hdlrs[g]) /\ Holds(hdlrs[g], k, g)
        BY SMTT(30), <1>1, <3>1, <3>5 DEF TypeInv, GoodInv, Kept
      <4>2. hdlrs[g].arr > 0
        BY SMTT(30), <4>1 DEF Holds
      <4>3. Registering(g) /\ Uses(NodeOf[g], TopicOf[g], hdlrs[g].arr)
        BY SMTT(30), <3>5 DEF Registering, Uses
      <4>4. ~SameKey(h, g)
        BY SMTT(30), <1>1, <2>2, <3>3, <4>3 DEF RaceInv, SameKey
      <4>5. hdlrs[g].arr # s.arr
        BY SMTT(30), <3>4, <4>1, <4>2, <4>3, <4>4
      <4>6. hdlrs[g].arr > 0 /\ k <= hdlrs[g].len /\ arrays'[hdlrs[g].arr][k] = g
        BY SMTT(30), <1>11, <4>1, <4>5
      <4>7. Kept(g, k)'
        BY SMTT(30), <3>2, <3>5, <4>6 DEF Kept, Holds
      <4> QED BY SMTT(30), <4>7
    <3>6. CASE reg[g] = "done"
      <4> DEFINE m == handlrMap[NodeOf[g]][TopicOf[g]]
      <4>1. m \in Slice /\ Good(m) /\ Holds(m, k, g) /\ Uses(NodeOf[g], TopicOf[g], m.arr)
        BY SMTT(30), <1>1, <3>1, <3>2, <3>6 DEF TypeInv, GoodInv, Kept, Uses
      <4>2. SameKey(h, g) => Holds(s, k, g)
        BY SMTT(30), <3>1, <3>3, <3>6 DEF Kept, s
      <4>3. SameKey(h, g) => k <= s.len
        BY SMTT(30), <4>2 DEF Holds
      <4>4. m.arr > 0 /\ k <= m.len /\ arrays'[m.arr][k] = g
        <5>1. m.arr > 0
          BY SMTT(30), <4>1 DEF Holds
        <5>2. m.arr = s.arr => k <= s.len
          BY SMTT(30), <3>4, <4>1, <4>3, <5>1
        <5> HIDE DEF m
        <5> QED BY SMTT(30), <1>11, <4>1, <5>2
      <4>5. ASSUME NEW f \in Handler, Registering(f), SameKey(f, g)
            PROVE  /\ hdlrs'[f].arr > 0 /\ k <= hdlrs'[f].len
                   /\ arrays'[hdlrs'[f].arr][k] = g
        <5>1. CASE f = h
          <6>1. k \in 1..s.len /\ arrays[s.arr][k] = g
            BY SMTT(30), <1>3, <4>2, <4>5, <5>1 DEF Holds
          <6>3. r.arr > 0 /\ r.len = s.len + 1 /\ arrays'[r.arr][k] = arrays[s.arr][k]
            BY SMTT(30), <1>4, <6>1
          <6>2. r.arr > 0 /\ k <= r.len /\ arrays'[r.arr][k] = g
            BY SMTT(30), <1>3, <6>1, <6>3
          <6> QED BY <5>1, <6>2 DEF r
        <5>2. CASE f # h
          <6> DEFINE q == hdlrs[f]
          <6>1. q \in Slice /\ Good(q) /\ Holds(q, k, g)
            <7>1. q \in Slice /\ Good(q)
              BY Zenon, <1>1 DEF TypeInv, GoodInv
            <7>2. Holds(q, k, g)
              BY Zenon, <3>1, <3>6, <4>5 DEF Kept
            <7> QED BY <7>1, <7>2
          <6>2. q.arr > 0 /\ Uses(NodeOf[g], TopicOf[g], q.arr)
            BY SMTT(30), <4>5, <6>1 DEF Holds, Uses, SameKey
          <6>3. hdlrs'[f] = q
            BY SMTT(30), <1>5, <5>2
          <6> HIDE DEF q
          <6>4. q.arr = s.arr => k <= s.len
            BY SMTT(30), <3>4, <4>3, <6>1, <6>2
          <6> QED BY SMTT(30), <1>11, <6>1, <6>3, <6>4
        <5> QED BY <5>1, <5>2
      <4>6. Kept(g, k)'
        BY SMTT(20), SMTT(30), <1>2, <1>6, <3>2, <3>6, <4>4, <4>5 DEF Kept, Holds, SameKey
      <4> QED BY <4>6
    <3>7. CASE reg[g] \notin {"appended", "done"}
      <4>1. Kept(g, k)'
        BY SMTT(30), <3>2, <3>7 DEF Kept
      <4> QED BY <4>1
    <3> QED BY <3>5, <3>6, <3>7
  <2> QED BY <2>1, <2>2
<1> QED BY <1>7, <1>8, <1>9, <1>10, <1>12 DEF IInv

\* Load: the slice is the list's own, so what the list keeps the slice keeps, and
\* whoever is registering at this time is raced from now on.
LEMMA LoadStep ==
  ASSUME IInv, NEW h \in Handler, Load(h)
  PROVE  IInv'
<1> DEFINE m == handlrMap[NodeOf[h]][TopicOf[h]]
           others == {g \in Handler \ {h} : SameKey(g, h) /\ Registering(g)}
<1>1. TypeInv /\ GoodInv /\ RaceInv /\ OwnInv /\ KeepInv
  BY DEF IInv
<1>2. /\ reg[h] = "no" /\ reg' = [reg EXCEPT ![h] = "loaded"]
      /\ hdlrs' = [hdlrs EXCEPT ![h] = m]
      /\ raced' = IF others = {} THEN raced ELSE raced \cup others \cup {h}
      /\ UNCHANGED <<arrays, handlrMap, sub, lis>>
  BY SMTT(30) DEF Load, pubsub, listener
<1>3. NodeOf[h] \in Node /\ TopicOf[h] \in Topic /\ m \in Slice /\ Good(m)
  BY SMTT(30), <1>1, EventsAssumption DEF TypeInv, GoodInv
<1>4. /\ reg'[h] = "loaded" /\ hdlrs'[h] = m
      /\ \A g \in Handler : g # h => hdlrs'[g] = hdlrs[g] /\ reg'[g] = reg[g]
  BY SMTT(30), <1>1, <1>2 DEF TypeInv
<1>5. ~Registering(h) /\ \A g \in Handler : Registering(g)' <=> g = h \/ Registering(g)
  BY SMTT(30), <1>2, <1>4 DEF Registering
<1>6. raced \subseteq raced' /\ raced' \subseteq Handler /\ (others # {} => h \in raced')
      /\ others \subseteq raced'
  BY SMTT(30), <1>1, <1>2 DEF TypeInv
<1>7. TypeInv'
  BY <1>1, <1>2, <1>3, <1>6 DEF TypeInv
<1>8. GoodInv'
  <2>1. \A g \in Handler : Good(hdlrs'[g])
    BY <1>1, <1>3, <1>4 DEF GoodInv
  <2> QED BY Zenon, <1>1, <1>2, <2>1 DEF GoodInv, Good
<1>9. RaceInv'
  <2> SUFFICES ASSUME NEW f \in Handler, NEW g \in Handler, f # g, SameKey(f, g),
                      Registering(f)', Registering(g)'
               PROVE  f \in raced'
    BY SMTT(30) DEF RaceInv, SameKey
  <2>1. CASE f # h /\ g # h
    BY SMTT(30), <1>1, <1>5, <1>6, <2>1 DEF RaceInv
  <2>2. CASE f = h
    BY <1>5, <1>6, <2>2 DEF SameKey
  <2>3. CASE g = h
    BY SMTT(30), <1>5, <1>6, <2>3
  <2> QED BY SMTT(30), <2>1, <2>2, <2>3
<1>10. OwnInv'
  <2>1. ASSUME NEW n \in Node, NEW t \in Topic, NEW a, Uses(n, t, a)' PROVE Uses(n, t, a)
    <3>1. CASE handlrMap'[n][t].arr = a
      BY <1>2, <3>1 DEF Uses
    <3>2. CASE \E g \in Handler : Registering(g)' /\ NodeOf[g] = n /\ TopicOf[g] = t
                                  /\ hdlrs'[g].arr = a
      <4>1. PICK g \in Handler : Registering(g)' /\ NodeOf[g] = n /\ TopicOf[g] = t
                                 /\ hdlrs'[g].arr = a
        BY SMTT(30), <3>2
      <4>2. CASE g = h
        BY SMTT(30), <1>4, <4>1, <4>2 DEF Uses
      <4>3. CASE g # h
        BY SMTT(30), <1>4, <1>5, <4>1, <4>3 DEF Uses
      <4> QED BY <4>2, <4>3
    <3> QED BY SMTT(30), <2>1, <3>1, <3>2 DEF Uses
  <2>2. ASSUME NEW n \in Node, NEW l \in Node, NEW t \in Topic, NEW u \in Topic,
               NEW a \in 1..Len(arrays'), Uses(n, t, a)', Uses(l, u, a)'
        PROVE  n = l /\ t = u
    BY <1>1, <1>2, <2>1, <2>2 DEF OwnInv
  <2> QED BY <2>2 DEF OwnInv
<1>11. KeepInv'
  <2> SUFFICES ASSUME NEW g \in Handler \ raced'
               PROVE  \E k \in Nat \ {0} : Kept(g, k)'
    BY DEF KeepInv
  <2>1. PICK k \in Nat \ {0} : Kept(g, k)
    BY <1>1, <1>6 DEF KeepInv
  <2>2. Kept(g, k)'
    <3>1. CASE g = h
      BY SMTT(30), <1>4, <3>1 DEF Kept
    <3>2. CASE g # h
      <4>1. reg'[g] = reg[g] /\ hdlrs'[g] = hdlrs[g]
        BY SMTT(30), <1>4, <3>2
      <4>2. reg'[g] = "appended" => Holds(hdlrs[g], k, g)'
        BY SMTT(20), SMTT(30), <1>2, <2>1, <4>1 DEF Kept, Holds
      <4>3. ASSUME reg'[g] = "done"
            PROVE  Holds(handlrMap[NodeOf[g]][TopicOf[g]], k, g)'
        BY <1>2, <2>1, <4>1, <4>3 DEF Kept, Holds
      <4>4. ASSUME reg'[g] = "done", NEW f \in Handler, Registering(f)', SameKey(f, g)
            PROVE  Holds(hdlrs[f], k, g)'
        <5>1. CASE f = h
          <6>1. m = handlrMap[NodeOf[g]][TopicOf[g]]
            BY SMTT(30), <4>4, <5>1 DEF SameKey
          <6>2. Holds(m, k, g)
            BY SMTT(30), <2>1, <4>1, <4>4, <6>1 DEF Kept
          <6> HIDE DEF m
          <6> QED BY <1>2, <1>4, <5>1, <6>2 DEF Holds
        <5>2. CASE f # h
          <6>1. Holds(hdlrs[f], k, g)
            BY SMTT(30), <1>5, <2>1, <4>1, <4>4, <5>2 DEF Kept
          <6> QED BY SMTT(30), <1>2, <1>4, <5>2, <6>1 DEF Holds
        <5> QED BY SMTT(30), <5>1, <5>2
      <4> QED BY SMTT(30), <4>2, <4>3, <4>4 DEF Kept, SameKey
    <3> QED BY SMTT(30), <3>1, <3>2
  <2> QED BY <2>2
<1> QED BY <1>7, <1>8, <1>9, <1>10, <1>11 DEF IInv

\* Store: the list becomes the slice of the registration, which keeps what the
\* list kept.
LEMMA StoreStep ==
  ASSUME IInv, NEW h \in Handler, Store(h)
  PROVE  IInv'
<1> DEFINE s == hdlrs[h]
<1>1. TypeInv /\ GoodInv /\ RaceInv /\ OwnInv /\ KeepInv
  BY DEF IInv
<1>2. /\ reg[h] = "appended" /\ reg' = [reg EXCEPT ![h] = "done"]
      /\ handlrMap' = [handlrMap EXCEPT ![NodeOf[h]][TopicOf[h]] = s]
      /\ UNCHANGED <<arrays, hdlrs, raced, sub, lis>>
  BY SMTT(30) DEF Store, pubsub, listener
<1>3. NodeOf[h] \in Node /\ TopicOf[h] \in Topic /\ s \in Slice /\ Good(s)
  BY SMTT(30), <1>1, EventsAssumption DEF TypeInv, GoodInv
<1>4. reg'[h] = "done" /\ \A g \in Handler : g # h => reg'[g] = reg[g]
  BY <1>1, <1>2 DEF TypeInv
<1>5. Registering(h) /\ \A g \in Handler : Registering(g)' <=> g # h /\ Registering(g)
  BY SMTT(30), <1>2, <1>4 DEF Registering
<1>6. /\ handlrMap'[NodeOf[h]][TopicOf[h]] = s
      /\ \A n \in Node, t \in Topic :
           n # NodeOf[h] \/ t # TopicOf[h] => handlrMap'[n][t] = handlrMap[n][t]
  BY SMTT(30), <1>1, <1>2, <1>3 DEF TypeInv
<1>7. TypeInv'
  BY <1>1, <1>2, <1>3 DEF TypeInv
<1>8. GoodInv'
  <2>1. \A n \in Node, t \in Topic : Good(handlrMap'[n][t])
    BY SMTT(30), <1>1, <1>3, <1>6 DEF GoodInv
  <2> QED BY Zenon, <1>1, <1>2, <2>1 DEF GoodInv, Good
<1>9. RaceInv'
  BY SMTT(30), <1>1, <1>2, <1>5 DEF RaceInv, SameKey
<1>10. OwnInv'
  <2>1. ASSUME NEW n \in Node, NEW t \in Topic, NEW a, Uses(n, t, a)' PROVE Uses(n, t, a)
    <3>1. CASE handlrMap'[n][t].arr = a
      <4>1. CASE n = NodeOf[h] /\ t = TopicOf[h]
        BY SMTT(30), <1>5, <1>6, <3>1, <4>1 DEF Uses
      <4>2. CASE ~(n = NodeOf[h] /\ t = TopicOf[h])
        BY SMTT(30), <1>6, <3>1, <4>2 DEF Uses
      <4> QED BY SMTT(30), <4>1, <4>2
    <3>2. CASE \E g \in Handler : Registering(g)' /\ NodeOf[g] = n /\ TopicOf[g] = t
                                  /\ hdlrs'[g].arr = a
      BY SMTT(30), <1>2, <1>5, <3>2 DEF Uses
    <3> QED BY <2>1, <3>1, <3>2 DEF Uses
  <2>2. ASSUME NEW n \in Node, NEW l \in Node, NEW t \in Topic, NEW u \in Topic,
               NEW a \in 1..Len(arrays'), Uses(n, t, a)', Uses(l, u, a)'
        PROVE  n = l /\ t = u
    BY <1>1, <1>2, <2>1, <2>2 DEF OwnInv
  <2> QED BY <2>2 DEF OwnInv
<1>11. KeepInv'
  <2> SUFFICES ASSUME NEW g \in Handler \ raced
               PROVE  \E k \in Nat \ {0} : Kept(g, k)'
    BY <1>2 DEF KeepInv
  <2>1. PICK k \in Nat \ {0} : Kept(g, k)
    BY <1>1 DEF KeepInv
  <2>2. NodeOf[g] \in Node /\ TopicOf[g] \in Topic
    BY EventsAssumption
  <2>3. Kept(g, k)'
    <3>1. CASE g = h
      <4>1. Holds(s, k, h)
        BY SMTT(30), <1>2, <2>1, <3>1 DEF Kept
      <4>2. Holds(handlrMap[NodeOf[h]][TopicOf[h]], k, h)'
        BY SMTT(30), <1>2, <1>6, <4>1 DEF Holds
      <4>3. \A f \in Handler : ~(Registering(f)' /\ SameKey(f, h))
        BY SMTT(30), <1>1, <1>5, <3>1 DEF RaceInv, SameKey
      <4> QED BY SMTT(30), <1>4, <3>1, <4>2, <4>3 DEF Kept, SameKey
    <3>2. CASE g # h
      <4>1. reg'[g] = reg[g] /\ hdlrs' = hdlrs
        BY SMTT(30), <1>2, <1>4, <3>2
      <4>2. reg'[g] = "appended" => Holds(hdlrs[g], k, g)'
        BY SMTT(30), <1>2, <2>1, <4>1 DEF Kept, Holds
      <4>3. ASSUME reg'[g] = "done"
            PROVE  Holds(handlrMap[NodeOf[g]][TopicOf[g]], k, g)'
        <5>1. CASE SameKey(h, g)
          <6>1. Holds(s, k, g)
            BY SMTT(30), <1>5, <2>1, <4>1, <4>3, <5>1 DEF Kept
          <6> QED BY SMTT(30), <1>2, <1>6, <5>1, <6>1 DEF Holds, SameKey
        <5>2. CASE ~SameKey(h, g)
          <6>1. handlrMap'[NodeOf[g]][TopicOf[g]] = handlrMap[NodeOf[g]][TopicOf[g]]
            BY SMTT(30), <1>6, <2>2, <5>2 DEF SameKey
          <6>2. Holds(handlrMap[NodeOf[g]][TopicOf[g]], k, g)
            BY <2>1, <4>1, <4>3 DEF Kept
          <6>3. arrays' = arrays
            BY <1>2
          <6> QED BY ONLY Zenon, <6>1, <6>2, <6>3 DEF Holds
        <5> QED BY ONLY Zenon, <5>1, <5>2
      <4>4. ASSUME reg'[g] = "done", NEW f \in Handler, Registering(f)', SameKey(f, g)
            PROVE  Holds(hdlrs[f], k, g)'
        <5>1. Holds(hdlrs[f], k, g)
          BY <1>5, <2>1, <4>1, <4>4 DEF Kept
        <5>2. arrays' = arrays /\ hdlrs' = hdlrs
          BY <1>2, <4>1
        <5> QED BY ONLY Zenon, <5>1, <5>2 DEF Holds
      <4> QED BY SMTT(30), <4>2, <4>3, <4>4 DEF Kept, SameKey
    <3> QED BY SMTT(30), <3>1, <3>2
  <2> QED BY <2>3
<1> QED BY <1>7, <1>8, <1>9, <1>10, <1>11 DEF IInv

\* The registry's part of the invariant depends on the registry only.
LEMMA RegistrySame ==
  ASSUME IInv, UNCHANGED registry, TypeInv', \A n \in Node : Good(lis'[n].hs)
  PROVE  IInv'
<1>1. /\ arrays' = arrays /\ handlrMap' = handlrMap /\ reg' = reg
      /\ hdlrs' = hdlrs /\ raced' = raced
  BY Zenon DEF registry
<1>2. GoodInv'
  <2>1. \A h \in Handler : Good(hdlrs[h])'
    BY Zenon, <1>1 DEF IInv, GoodInv, Good
  <2>2. \A n \in Node, t \in Topic : Good(handlrMap[n][t])'
    BY Zenon, <1>1 DEF IInv, GoodInv, Good
  <2>3. \A n \in Node : Good(lis[n].hs)'
    BY Zenon, <1>1 DEF Good
  <2> QED BY <2>1, <2>2, <2>3 DEF GoodInv
<1>3. RaceInv'
  BY Zenon, <1>1 DEF IInv, RaceInv, SameKey, Registering
<1>4. OwnInv'
  <2>1. ASSUME NEW n, NEW t, NEW a PROVE Uses(n, t, a)' <=> Uses(n, t, a)
    BY Zenon, <1>1 DEF Uses, Registering
  <2> QED BY Zenon, <1>1, <2>1 DEF IInv, OwnInv
<1>5. KeepInv'
  <2>1. ASSUME NEW h, NEW k PROVE Kept(h, k)' <=> Kept(h, k)
    BY Zenon, <1>1 DEF Kept, Holds, Registering, SameKey
  <2> QED BY Zenon, <1>1, <2>1 DEF IInv, KeepInv
<1> QED BY <1>2, <1>3, <1>4, <1>5 DEF IInv

\* Broadcast and pubsub do not touch lists or listeners.
LEMMA PubsubStep ==
  ASSUME IInv,
         \/ \E e \in Event : Broadcast(e) \/ \E n \in Node : Deliver(e, n) \/ Lose(e, n)
         \/ \E n \in Node : Stop(n)
         \/ UNCHANGED vars
  PROVE  IInv'
<1>1. TypeInv /\ \A n \in Node : Good(lis[n].hs)
  BY SMTT(30) DEF IInv, GoodInv
<1>2. UNCHANGED registry /\ UNCHANGED lis
  BY SMTT(30) DEF Broadcast, Deliver, Lose, Stop, vars, registry, listener
<1>3. sub' \in [Node -> Seq(Event)]
  <2>1. CASE \E e \in Event, n \in Node : Deliver(e, n)
    <3>1. PICK e \in Event, n \in Node : Deliver(e, n)
      BY <2>1
    <3>2. sub[n] \in Seq(Event)
      BY <1>1 DEF TypeInv
    <3>3. Append(sub[n], e) \in Seq(Event)
      BY SMTT(30), <3>2
    <3> QED BY <1>1, <3>1, <3>3 DEF Deliver, TypeInv
  <2>2. CASE UNCHANGED sub
    BY SMTT(30), <1>1, <2>2 DEF TypeInv
  <2> QED BY SMTT(30), <2>1, <2>2 DEF Broadcast, Lose, Stop, vars, pubsub
<1>4. TypeInv'
  BY <1>1, <1>2, <1>3 DEF TypeInv, registry
<1> QED BY SMTT(30), <1>1, <1>2, <1>4, RegistrySame

\* The listener holds a slice that was the list of a topic when it loaded it.
LEMMA ListenerStep ==
  ASSUME IInv, NEW n \in Node, Execute(n)
  PROVE  IInv'
<1> DEFINE l == lis[n]
<1>1. /\ TypeInv /\ l \in Listener /\ lis \in [Node -> Listener]
      /\ \A m \in Node : Good(lis[m].hs)
      /\ \A t \in Topic : Good(handlrMap[n][t]) /\ handlrMap[n][t] \in Slice
  BY SMTT(30) DEF IInv, GoodInv, TypeInv
<1>2. UNCHANGED registry
  BY Zenon DEF Execute, CheckDone, TakeNext, NextFails, RunHandler, HandlerReturns,
     RangeDone
<1>3. NoSlice \in Slice /\ Good(NoSlice)
  <2>1. NoSlice \in Slice /\ NoSlice.arr = 0 /\ NoSlice.len = 0
    BY DEF NoSlice, Slice
  <2>2. arrays \in Seq(Seq(HandlerOrNil))
    BY Zenon, <1>1 DEF TypeInv
  <2>3. 0 \in 0..Len(arrays)
    BY <2>2
  <2> QED BY <2>1, <2>3 DEF Good
<1>4. \A pc \in {"top", "next", "range", "done"} :
        Idle(pc) \in Listener /\ Idle(pc).hs = NoSlice
  BY SMTT(30), <1>3 DEF Idle, HandlerOrNil, Listener
<1>5. PICK x \in Listener : lis' = [lis EXCEPT ![n] = x] /\ Good(x.hs)
                            /\ sub' \in [Node -> Seq(Event)]
  <2>1. CASE CheckDone(n) \/ NextFails(n) \/ RangeDone(n)
    <3>1. PICK pc \in {"top", "next", "range", "done"} : lis' = [lis EXCEPT ![n] = Idle(pc)]
      BY SMTT(30), <2>1 DEF CheckDone, NextFails, RangeDone
    <3>2. sub' = sub
      BY SMTT(30), <2>1 DEF CheckDone, NextFails, RangeDone, pubsub
    <3>3. Idle(pc) \in Listener /\ Good(Idle(pc).hs) /\ sub' \in [Node -> Seq(Event)]
      BY SMTT(30), <1>1, <1>3, <1>4, <3>2 DEF TypeInv
    <3> QED BY Zenon, <3>1, <3>3
  <2>2. CASE TakeNext(n)
    <3> DEFINE e == Head(sub[n])
               hs == handlrMap[n][TopicOfEvent[e]]
               x == IF e \in Foreign \/ hs = NoSlice THEN Idle("top")
                    ELSE [Idle("range") EXCEPT !.ev = e, !.hs = hs]
    <3>1. sub[n] \in Seq(Event) /\ sub[n] # <<>>
      BY <1>1, <2>2 DEF TakeNext, TypeInv
    <3>2. e \in Event /\ Tail(sub[n]) \in Seq(Event)
      BY SMTT(30), <3>1
    <3>3. Good(hs) /\ hs \in Slice
      BY SMTT(30), <1>1, <3>2, EventsAssumption
    <3>4. lis' = [lis EXCEPT ![n] = x] /\ sub' = [sub EXCEPT ![n] = Tail(sub[n])]
      BY <2>2 DEF TakeNext
    <3> HIDE DEF e, hs
    <3>5. x \in Listener /\ (x.hs = NoSlice \/ x.hs = hs)
      BY Zenon, <1>4, <3>2, <3>3 DEF Listener
    <3>6. Good(x.hs)
      BY <1>3, <3>3, <3>5
    <3>7. sub' \in [Node -> Seq(Event)]
      BY <1>1, <3>2, <3>4 DEF TypeInv
    <3> QED BY Zenon, <3>4, <3>5, <3>6, <3>7
  <2>3. CASE RunHandler(n)
    <3> DEFINE g == arrays[l.hs.arr][l.i]
    <3>1. l.i <= l.hs.len /\ l.pc = "range" /\ sub' = sub
      BY Zenon, <2>3 DEF RunHandler, pubsub
    <3>2. g \in HandlerOrNil
      <4>1. l.hs.arr \in 1..Len(arrays) /\ l.i \in 1..l.hs.len /\ l.hs.len <= Len(arrays[l.hs.arr])
        BY SMTT(30), <1>1, <3>1 DEF Good, Slice, Listener
      <4>2. arrays[l.hs.arr] \in Seq(HandlerOrNil)
        BY SMTT(30), <1>1, <4>1 DEF TypeInv
      <4>3. l.i \in 1..Len(arrays[l.hs.arr])
        BY <1>1, <4>1, <4>2 DEF Slice, Listener
      <4> QED BY SMTT(30), <4>2, <4>3
    <3>3. \/ lis' = [lis EXCEPT ![n] = [l EXCEPT !.i = l.i + 1]]
          \/ lis' = [lis EXCEPT ![n] = [l EXCEPT !.pc = "handle", !.h = g]]
      BY Zenon, <1>1, <2>3 DEF RunHandler
    <3> HIDE DEF g
    <3>4. /\ [l EXCEPT !.i = l.i + 1] \in Listener
          /\ [l EXCEPT !.i = l.i + 1].hs = l.hs
          /\ [l EXCEPT !.pc = "handle", !.h = g] \in Listener
          /\ [l EXCEPT !.pc = "handle", !.h = g].hs = l.hs
      <4>1. l \in Listener
        BY <1>1
      <4> HIDE DEF l
      <4>2. l.i + 1 \in Nat \ {0}
        BY <4>1 DEF Listener
      <4>3. \A j \in Nat \ {0} : [l EXCEPT !.i = j] \in Listener /\ [l EXCEPT !.i = j].hs = l.hs
        BY <4>1 DEF Listener
      <4>4. /\ [l EXCEPT !.pc = "handle", !.h = g] \in Listener
            /\ [l EXCEPT !.pc = "handle", !.h = g].hs = l.hs
        BY Zenon, <3>2, <4>1 DEF Listener
      <4> QED BY <4>2, <4>3, <4>4
    <3> QED BY Zenon, <1>1, <3>1, <3>3, <3>4 DEF TypeInv
  <2>4. CASE HandlerReturns(n)
    <3>1. lis' = [lis EXCEPT ![n] = [l EXCEPT !.pc = "range", !.h = Nil, !.i = l.i + 1]]
          /\ sub' = sub
      BY <1>1, <2>4 DEF HandlerReturns, pubsub
    <3>2. /\ [l EXCEPT !.pc = "range", !.h = Nil, !.i = l.i + 1] \in Listener
          /\ [l EXCEPT !.pc = "range", !.h = Nil, !.i = l.i + 1].hs = l.hs
      <4>1. l \in Listener /\ Nil \in HandlerOrNil
        BY SMTT(30), <1>1 DEF HandlerOrNil
      <4> HIDE DEF l
      <4>2. l.i + 1 \in Nat \ {0}
        BY <4>1 DEF Listener
      <4>3. \A j \in Nat \ {0} :
              /\ [l EXCEPT !.pc = "range", !.h = Nil, !.i = j] \in Listener
              /\ [l EXCEPT !.pc = "range", !.h = Nil, !.i = j].hs = l.hs
        BY Zenon, <4>1 DEF Listener
      <4> QED BY Zenon, <4>2, <4>3
    <3> QED BY Zenon, <1>1, <3>1, <3>2 DEF TypeInv
  <2> QED BY SMTT(30), <2>1, <2>2, <2>3, <2>4 DEF Execute
<1>6. TypeInv'
  BY <1>1, <1>2, <1>5 DEF TypeInv, registry
<1>7. \A m \in Node : Good(lis'[m].hs)
  BY SMTT(30), <1>1, <1>5
<1> QED BY SMTT(30), <1>2, <1>6, <1>7, RegistrySame

\* The invariant holds in every reachable state.
THEOREM Invariance == Spec => []IInv
<1>1. ASSUME IInv, [Next]_vars PROVE IInv'
  BY SMTT(30), <1>1, LoadStep, AppendStep, StoreStep, PubsubStep, ListenerStep DEF
     Next
<1> QED BY <1>1, InitIInv, PTL DEF Spec

\* No list, no registration and no listener ever sees a cell that append has not
\* written.
THEOREM NeverNil == Spec => []NoNilHandler
<1>1. ASSUME IInv PROVE NoNilHandler
  <2>1. ASSUME NEW s, Good(s), s.len > 0 PROVE Nil \notin Cells(s)
    BY SMTT(30), <2>1 DEF Good, Cells
  <2> QED BY <1>1, <2>1 DEF IInv, GoodInv, NoNilHandler
<1> QED BY <1>1, Invariance, PTL

\* However registrations of a topic follow each other, one that overlapped no
\* other stays in the list of its topic.
THEOREM RegistrationsKept == Spec => []KeptUnlessRaced
<1>1. ASSUME IInv PROVE KeptUnlessRaced
  <2> SUFFICES ASSUME NEW h \in Handler, reg[h] = "done", h \notin raced
               PROVE  h \in Cells(handlrMap[NodeOf[h]][TopicOf[h]])
    BY SMTT(30) DEF KeptUnlessRaced
  <2> DEFINE m == handlrMap[NodeOf[h]][TopicOf[h]]
  <2>1. PICK k \in Nat \ {0} : Holds(m, k, h)
    BY SMTT(30), <1>1 DEF IInv, KeepInv, Kept
  <2>2. m.len \in Nat
    BY SMTT(30), <1>1, EventsAssumption DEF IInv, TypeInv, Slice
  <2>3. k \in 1..m.len /\ arrays[m.arr][k] = h
    BY <2>1, <2>2 DEF Holds
  <2> QED BY SMTT(30), <2>3 DEF Cells
<1> QED BY <1>1, Invariance, PTL
=============================================================================
