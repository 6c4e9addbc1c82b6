------------------------------- MODULE Events -------------------------------
(***************************************************************************)
(* Events over pubsub: modules/events/events.go.                            *)
(*                                                                         *)
(* Actors that interleave: the goroutines that call RegisterHandler (one    *)
(* per handler), the callers of Broadcast, pubsub, and on each node the one *)
(* listener task that runs all handlers.  A handler list is a Go slice: a   *)
(* length and a place in an array that other slices may share, because      *)
(* append writes in place while there is capacity.                          *)
(*                                                                         *)
(* pubsub is external: it may lose a message for a node, deliver it again,  *)
(* reorder messages, and drop one when the subscription's buffer is full.   *)
(* Topics are valid strings, which the JSON of eventMsg gives back as they  *)
(* were; what does not decode is Foreign, or Undecodable for a handler.     *)
(***************************************************************************)
EXTENDS Naturals, Sequences, FiniteSets

CONSTANTS
  Node, Topic, Handler, Event,
  NodeOf,       \* the node a handler is registered on
  TopicOf,      \* Topic() of the events that a handler's factory makes
  TopicOfEvent, \* Topic() of an event
  Foreign,      \* messages on the pubsub topic that are not an eventMsg
  Undecodable,  \* pairs of an event and a handler whose Unmarshal refuses it
  Blocking,     \* handlers that do not return
  Registrars,   \* bound: how many goroutines register at the same time
  Copies,       \* how often pubsub may deliver each message to a subscription
  BufferSize,   \* pubsub's buffer of a subscription
  Nil           \* the nil pointer

ASSUME EventsAssumption ==
  /\ Handler \subseteq Nat
  /\ NodeOf \in [Handler -> Node] /\ TopicOf \in [Handler -> Topic]
  /\ TopicOfEvent \in [Event -> Topic]
  /\ Registrars \in Nat /\ Copies \in [Event -> Nat] /\ BufferSize \in Nat
  /\ Nil \notin Handler

VARIABLES
  arrays,     \* the backing arrays of the slices, each of its full capacity
  handlrMap,  \* the sync.Map of each node: topic to slice
  reg,        \* RegisterHandler: "no", "loaded", "appended", "done"
  hdlrs,      \* its local slice
  raced,      \* history: handlers whose registration overlapped another one
  published,  \* the events that have been broadcast
  copies,     \* deliveries pubsub may still make, by event and node
  sub,        \* the subscription's buffer of each node
  lis,        \* Execute on each node: pc, event, slice, index and handler
  stop,       \* nodes whose task manager is stopped
  received,   \* history: how often Next returned an event on a node
  calls       \* history: how often a handler was called with an event

vars == <<arrays, handlrMap, reg, hdlrs, raced, published, copies, sub,
          lis, stop, received, calls>>
registry == <<arrays, handlrMap, reg, hdlrs, raced>>
pubsub == <<published, copies, sub>>
listener == <<lis, received, calls>>

NoSlice == [arr |-> 0, len |-> 0]
Cells(s) == {arrays[s.arr][k] : k \in 1..s.len}
Idle(pc) == [pc |-> pc, ev |-> Nil, hs |-> NoSlice, i |-> 1, h |-> Nil]

Init ==
  /\ arrays = <<>>
  /\ handlrMap = [n \in Node |-> [t \in Topic |-> NoSlice]]
  /\ reg = [h \in Handler |-> "no"] /\ hdlrs = [h \in Handler |-> NoSlice]
  /\ raced = {}
  /\ published = {} /\ copies = [e \in Event |-> [n \in Node |-> 0]]
  /\ sub = [n \in Node |-> <<>>]
  /\ lis = [n \in Node |-> Idle("top")]
  /\ stop = {}
  /\ received = [e \in Event |-> [n \in Node |-> 0]]
  /\ calls = [h \in Handler |-> [e \in Event |-> 0]]

-----------------------------------------------------------------------------
(* RegisterHandler *)

SameKey(g, h) == NodeOf[g] = NodeOf[h] /\ TopicOf[g] = TopicOf[h]
Registering(h) == reg[h] \in {"loaded", "appended"}

\* Handlers of a topic have their numbers in the order in which they load.
Load(h) ==
  /\ \A g \in Handler : SameKey(g, h) /\ g < h => reg[g] # "no"
  /\ reg[h] = "no" /\ Cardinality({g \in Handler : Registering(g)}) < Registrars
  /\ reg' = [reg EXCEPT ![h] = "loaded"]
  /\ hdlrs' = [hdlrs EXCEPT ![h] = handlrMap[NodeOf[h]][TopicOf[h]]]
  /\ LET others == {g \in Handler \ {h} : SameKey(g, h) /\ Registering(g)}
     IN raced' = IF others = {} THEN raced ELSE raced \cup others \cup {h}
  /\ UNCHANGED <<arrays, handlrMap, pubsub, listener, stop>>

\* append: in place while the array has room, else into a copy with the
\* doubled capacity.
AppendHandler(h) ==
  LET s == hdlrs[h]
      cap == IF s.arr = 0 THEN 0 ELSE Len(arrays[s.arr])
      copy == [k \in 1..(IF cap = 0 THEN 1 ELSE 2 * cap) |->
                 IF k <= s.len THEN arrays[s.arr][k]
                 ELSE IF k = s.len + 1 THEN h ELSE Nil]
  IN /\ reg[h] = "loaded"
     /\ reg' = [reg EXCEPT ![h] = "appended"]
     /\ \/ /\ s.len < cap
           /\ arrays' = [arrays EXCEPT ![s.arr][s.len + 1] = h]
           /\ hdlrs' = [hdlrs EXCEPT ![h] = [arr |-> s.arr, len |-> s.len + 1]]
        \/ /\ s.len = cap
           /\ arrays' = Append(arrays, copy)
           /\ hdlrs' = [hdlrs EXCEPT ![h] = [arr |-> Len(arrays) + 1,
                                             len |-> s.len + 1]]
     /\ UNCHANGED <<handlrMap, raced, pubsub, listener, stop>>

\* Mutation of Store: LoadOrStore keeps an existing list.
StoreFirstOnly(h) ==
  /\ reg[h] = "appended"
  /\ reg' = [reg EXCEPT ![h] = "done"]
  /\ handlrMap' = IF handlrMap[NodeOf[h]][TopicOf[h]] # NoSlice THEN handlrMap
                  ELSE [handlrMap EXCEPT ![NodeOf[h]][TopicOf[h]] = hdlrs[h]]
  /\ UNCHANGED <<arrays, hdlrs, raced, pubsub, listener, stop>>

Store(h) ==
  /\ reg[h] = "appended"
  /\ reg' = [reg EXCEPT ![h] = "done"]
  /\ handlrMap' = [handlrMap EXCEPT ![NodeOf[h]][TopicOf[h]] = hdlrs[h]]
  /\ UNCHANGED <<arrays, hdlrs, raced, pubsub, listener, stop>>

-----------------------------------------------------------------------------
(* Broadcast and pubsub *)

\* Publish reaches every node's subscription, the sender's own included, up to
\* Copies times; an event is broadcast once.
Broadcast(e) ==
  /\ e \notin published /\ published' = published \cup {e}
  /\ copies' = [copies EXCEPT ![e] = [n \in Node |-> Copies[e]]]
  /\ UNCHANGED <<registry, sub, listener, stop>>

Deliver(e, n) ==
  /\ copies[e][n] > 0
  /\ copies' = [copies EXCEPT ![e][n] = @ - 1]
  /\ sub' = IF Len(sub[n]) < BufferSize THEN [sub EXCEPT ![n] = Append(@, e)]
            ELSE sub
  /\ UNCHANGED <<registry, published, listener, stop>>

Lose(e, n) ==
  /\ copies[e][n] > 0
  /\ copies' = [copies EXCEPT ![e][n] = @ - 1]
  /\ UNCHANGED <<registry, published, sub, listener, stop>>

-----------------------------------------------------------------------------
(* eventsListener.Execute *)

\* The select at the top of the loop.
CheckDone(n) ==
  /\ lis[n].pc = "top"
  /\ lis' = [lis EXCEPT ![n] = Idle(IF n \in stop THEN "done" ELSE "next")]
  /\ UNCHANGED <<registry, pubsub, stop, received, calls>>

\* Next returns a message (also when the context is cancelled at the same
\* time); the handlers of its topic are loaded.
TakeNext(n) ==
  /\ lis[n].pc = "next" /\ sub[n] # <<>>
  /\ LET e == Head(sub[n])
         hs == handlrMap[n][TopicOfEvent[e]]
     IN /\ sub' = [sub EXCEPT ![n] = Tail(@)]
        /\ received' = [received EXCEPT ![e][n] = @ + 1]
        /\ lis' = [lis EXCEPT ![n] =
                     IF e \in Foreign \/ hs = NoSlice THEN Idle("top")
                     ELSE [Idle("range") EXCEPT !.ev = e, !.hs = hs]]
  /\ UNCHANGED <<registry, published, copies, stop, calls>>

NextFails(n) ==
  /\ lis[n].pc = "next" /\ n \in stop
  /\ lis' = [lis EXCEPT ![n] = Idle("top")]
  /\ UNCHANGED <<registry, pubsub, stop, received, calls>>

\* The next handler of the slice: its body does not decode, or handle is
\* called and the task is in it.
RunHandler(n) ==
  LET l == lis[n]
      h == arrays[l.hs.arr][l.i]
  IN /\ l.pc = "range" /\ l.i <= l.hs.len
     /\ \/ /\ <<l.ev, h>> \in Undecodable
           /\ lis' = [lis EXCEPT ![n].i = @ + 1]
           /\ UNCHANGED calls
        \/ /\ <<l.ev, h>> \notin Undecodable
           /\ lis' = [lis EXCEPT ![n].pc = "handle", ![n].h = h]
           /\ calls' = [calls EXCEPT ![h][l.ev] = @ + 1]
     /\ UNCHANGED <<registry, pubsub, stop, received>>

\* A handler that the listener of n is in and that does not return.
Blocked(n) == lis[n].h \in Blocking

\* Mutation of HandlerReturns: the same handler is run again.
HandlerReturnsAgain(n) ==
  /\ lis[n].pc = "handle" /\ ~Blocked(n)
  /\ lis' = [lis EXCEPT ![n].pc = "range", ![n].h = Nil]
  /\ UNCHANGED <<registry, pubsub, stop, received, calls>>

\* Mutation of HandlerReturns: the loop over the handlers is left.
HandlerReturnsOut(n) ==
  /\ lis[n].pc = "handle" /\ ~Blocked(n)
  /\ lis' = [lis EXCEPT ![n] = Idle("top")]
  /\ UNCHANGED <<registry, pubsub, stop, received, calls>>

HandlerReturns(n) ==
  /\ lis[n].pc = "handle" /\ ~Blocked(n)
  /\ lis' = [lis EXCEPT ![n].pc = "range", ![n].h = Nil, ![n].i = @ + 1]
  /\ UNCHANGED <<registry, pubsub, stop, received, calls>>

RangeDone(n) ==
  /\ lis[n].pc = "range" /\ lis[n].i > lis[n].hs.len
  /\ lis' = [lis EXCEPT ![n] = Idle("top")]
  /\ UNCHANGED <<registry, pubsub, stop, received, calls>>

\* The node's task manager stops and cancels the listener's context.
Stop(n) ==
  /\ n \notin stop /\ stop' = stop \cup {n}
  /\ UNCHANGED <<registry, pubsub, listener>>

-----------------------------------------------------------------------------

Execute(n) ==
  \/ CheckDone(n) \/ TakeNext(n) \/ NextFails(n) \/ RunHandler(n)
  \/ HandlerReturns(n) \/ RangeDone(n)

Next ==
  \/ \E h \in Handler : Load(h) \/ AppendHandler(h) \/ Store(h)
  \/ \E e \in Event : Broadcast(e) \/ \E n \in Node : Deliver(e, n) \/ Lose(e, n)
  \/ \E n \in Node : Execute(n) \/ Stop(n)

Spec == Init /\ [][Next]_vars

\* The listener's task runs whenever it can; its handlers return unless they
\* are Blocking.  Nothing is assumed of pubsub or of the callers.
FairSpec == Spec /\ \A n \in Node : WF_vars(Execute(n))

-----------------------------------------------------------------------------
(* Properties *)

\* No slice that a registration, the map or a running listener holds covers a
\* cell of its array that append has not written: the listener never gets a
\* nil handler, whichever registrations grow the same array at the same time.
NoNilHandler ==
  \A s \in {hdlrs[h] : h \in Handler} \cup {lis[n].hs : n \in Node}
           \cup {handlrMap[n][t] : n \in Node, t \in Topic} :
    s.len > 0 => Nil \notin Cells(s)

\* A registration that overlapped no other one of the same topic stays: load,
\* append and store of later registrations never lose it, nor does an append in
\* place.  (Of two that overlap, one can be lost.)
KeptUnlessRaced ==
  \A h \in Handler :
    reg[h] = "done" /\ h \notin raced => h \in Cells(handlrMap[NodeOf[h]][TopicOf[h]])

\* A handler is called only with decodable events of its topic, and for each
\* time its node received such an event at most once, also while registrations
\* change the array the listener is reading.
NoSpuriousCall ==
  \A h \in Handler, e \in Event :
    /\ calls[h][e] <= received[e][NodeOf[h]]
    /\ calls[h][e] > 0 =>
         /\ TopicOf[h] = TopicOfEvent[e]
         /\ e \in published \ Foreign /\ <<e, h>> \notin Undecodable
         /\ reg[h] \in {"appended", "done"}

Queued(e, n) == \E k \in DOMAIN sub[n] : sub[n][k] = e

\* Every event in the subscription's buffer reaches every handler that was kept
\* for its topic, unless the node stops or a handler, of whatever topic, does
\* not return.
KeptHandlersRun ==
  \A h \in Handler, e \in Event \ Foreign :
    (/\ reg[h] = "done" /\ h \notin raced /\ <<e, h>> \notin Undecodable
     /\ TopicOf[h] = TopicOfEvent[e] /\ Queued(e, NodeOf[h]))
      ~> calls[h][e] > 0 \/ NodeOf[h] \in stop \/ Blocked(NodeOf[h])
=============================================================================
