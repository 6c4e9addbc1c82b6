----------------------------- MODULE Protocols -----------------------------
(***************************************************************************)
(* The request-response exchange of modules/protocols/protocols.go: SendMsg *)
(* on one side ("cl"), the stream handler that Register installs on the     *)
(* other ("sv"), and the framing both use.  Every call has a stream of its  *)
(* own, so one call is the whole protocol.                                  *)
(*                                                                         *)
(* A byte is a number below Base, a length is two bytes; the code has Base  *)
(* 256, and a small Base gives small messages the sizes that matter.  Each   *)
(* side writes one frame: of the stream only the numbers of bytes written   *)
(* and read are state.  The stream (libp2p) is external: it may break, it    *)
(* gives a reader any part of what has arrived, and its flow control holds   *)
(* back a Write that is Window bytes ahead of the reader.                   *)
(***************************************************************************)
EXTENDS Integers, Sequences

CONSTANTS
  Base,
  Message,
  Bytes,    \* the Marshal of each message
  Window,   \* bytes that the stream takes before they are read
  None,
  Garbled   \* what Unmarshal made of bytes that no message has

Byte == 0..(Base - 1)

ASSUME ProtocolsAssumption ==
  /\ Base \in Nat /\ Base >= 2
  /\ Bytes \in [Message -> Seq(Byte)]
  /\ Window \in Nat /\ Window > Base * Base  \* a message that fits its length
  /\ \A m1, m2 \in Message : Bytes[m1] = Bytes[m2] => m1 = m2
  /\ None \notin Message /\ Garbled \notin Message /\ None # Garbled

Size(m) == Len(Bytes[m])

-----------------------------------------------------------------------------
(* Framing *)

\* binary.LittleEndian.PutUint16(lenBuf, uint16(n)).
PutUint16(n) == <<n % Base, (n \div Base) % Base>>

\* binary.LittleEndian.Uint16.
Uint16(b) == b[1] + Base * b[2]

Frame(m) == PutUint16(Size(m)) \o Bytes[m]

\* The length buffer after one Read that returned k bytes of a frame; the cells
\* that were not read are zero.
LengthBuf(f, k) == IF k = 2 THEN <<f[1], f[2]>> ELSE <<f[1], 0>>

\* The outcomes of Unmarshal: the message, or for other bytes an error (None)
\* or whatever the implementation of the message takes them for.
Unmarshal(buf) ==
  IF \E m \in Message : Bytes[m] = buf
  THEN {m \in Message : Bytes[m] = buf}
  ELSE {Garbled, None}

-----------------------------------------------------------------------------

Side == {"cl", "sv"}
Peer(s) == IF s = "cl" THEN "sv" ELSE "cl"

VARIABLES
  pc,       \* where SendMsg and the stream handler are
  out,      \* the message a side sends
  in,       \* the message a side has read
  sent,     \* bytes of its frame that a side has written
  taken,    \* bytes that a side has read
  need,     \* length: the bytes a side has still to read
  short,    \* sides whose Read of the length returned one byte
  late,     \* sides whose deadline has passed
  broken    \* the connection is lost

vars == <<pc, out, in, sent, taken, need, short, late, broken>>

Init ==
  /\ pc = [s \in Side |-> "none"]
  /\ \E req \in Message : out = [s \in Side |-> IF s = "cl" THEN req ELSE None]
  /\ in = [s \in Side |-> None]
  /\ sent = [s \in Side |-> 0] /\ taken = [s \in Side |-> 0]
  /\ need = [s \in Side |-> 0] /\ short = {} /\ late = {} /\ broken = FALSE

Ended(s) == pc[s] \in {"ok", "err"}
Goto(s, l) == pc' = [pc EXCEPT ![s] = l]

\* SendMsg returns the error, and its deferred Close ends the stream for the
\* handler; the handler resets the stream.
Fail(s) == Goto(s, "err")

NewStream ==
  /\ pc["cl"] = "none" /\ ~broken
  /\ Goto("cl", "wlen")
  /\ UNCHANGED <<out, in, sent, taken, need, short, late, broken>>

NewStreamFails ==
  /\ pc["cl"] = "none"
  /\ Fail("cl")
  /\ UNCHANGED <<out, in, sent, taken, need, short, late, broken>>

\* The host calls the stream handler: a stream is there once it carries data.
StreamHandler ==
  /\ pc["sv"] = "none" /\ sent["cl"] > 0
  /\ Goto("sv", "rlen")
  /\ UNCHANGED <<out, in, sent, taken, need, short, late, broken>>

\* Mutation of DeadlinePasses: the handler sets none.
DeadlinePassesCl(s) ==
  /\ s = "cl"
  /\ pc[s] # "none" /\ ~Ended(s) /\ s \notin late
  /\ late' = late \cup {s}
  /\ UNCHANGED <<pc, out, in, sent, taken, need, short, broken>>

\* A deadline of 15 s from the begin of SendMsg or of the handler.
DeadlinePasses(s) ==
  /\ pc[s] # "none" /\ ~Ended(s) /\ s \notin late
  /\ late' = late \cup {s}
  /\ UNCHANGED <<pc, out, in, sent, taken, need, short, broken>>

Break ==
  /\ ~broken /\ broken' = TRUE
  /\ UNCHANGED <<pc, out, in, sent, taken, need, short, late>>

-----------------------------------------------------------------------------
(* WriteMsg *)

\* The other side has ended the stream: closed by SendMsg, reset by a handler
\* that failed.
Gone(s) == pc[Peer(s)] = "err" \/ (s = "sv" /\ Ended("cl"))

\* Marshal fails; nothing is written.
MarshalFails(s) ==
  /\ pc[s] = "wlen" /\ Fail(s)
  /\ UNCHANGED <<out, in, sent, taken, need, short, late, broken>>

WriteLen(s) ==
  /\ pc[s] = "wlen" /\ ~broken
  /\ Goto(s, "wbody") /\ sent' = [sent EXCEPT ![s] = 2]
  /\ UNCHANGED <<out, in, taken, need, short, late, broken>>

\* How far a side may write.
Room(s) == taken[Peer(s)] + Window

\* The Write ends when the stream has taken all: SendMsg goes on to read the
\* response, the handler is done and leaves its end of the stream open.  Until
\* then it puts in what there is room for, and waits.
WriteBody(s) ==
  /\ pc[s] = "wbody" /\ ~broken
  /\ \/ /\ 2 + Size(out[s]) <= Room(s)
        /\ Goto(s, IF s = "cl" THEN "rlen" ELSE "ok")
        /\ sent' = [sent EXCEPT ![s] = 2 + Size(out[s])]
     \/ /\ 2 + Size(out[s]) > Room(s) /\ Room(s) > sent[s]
        /\ sent' = [sent EXCEPT ![s] = Room(s)] /\ UNCHANGED pc
  /\ UNCHANGED <<out, in, taken, need, short, late, broken>>

\* A Write fails; a part of what it was given may have been sent.
WriteFails(s) ==
  /\ pc[s] \in {"wlen", "wbody"} /\ (broken \/ s \in late \/ Gone(s))
  /\ Fail(s)
  /\ \E k \in sent[s]..(2 + Size(out[s])) :
       /\ k <= (IF pc[s] = "wlen" THEN 1 ELSE Room(s))
       /\ sent' = [sent EXCEPT ![s] = k]
  /\ UNCHANGED <<out, in, taken, need, short, late, broken>>

-----------------------------------------------------------------------------
(* ReadMsg *)

Available(s) == sent[Peer(s)] - taken[s]

\* One Read of the length, which returns one or two bytes, as they arrived.
ReadLen(s) ==
  /\ pc[s] = "rlen"
  /\ \E k \in 1..2 :
       /\ k <= Available(s)
       /\ need' = [need EXCEPT ![s] = Uint16(LengthBuf(Frame(out[Peer(s)]), k))]
       /\ taken' = [taken EXCEPT ![s] = k]
       /\ short' = IF k = 2 THEN short ELSE short \cup {s}
  /\ Goto(s, "rbody")
  /\ UNCHANGED <<out, in, sent, late, broken>>

\* io.ReadFull and Unmarshal: SendMsg returns the response, the handler calls
\* HandleMsg.
ReadBody(s) ==
  /\ pc[s] = "rbody" /\ need[s] <= Available(s)
  /\ \E m \in Unmarshal(SubSeq(Frame(out[Peer(s)]), taken[s] + 1,
                               taken[s] + need[s])) :
       \/ m = None /\ Fail(s) /\ UNCHANGED in
       \/ /\ m # None /\ in' = [in EXCEPT ![s] = m]
          /\ Goto(s, IF s = "cl" THEN "ok" ELSE "handle")
  /\ taken' = [taken EXCEPT ![s] = @ + need[s]]
  /\ UNCHANGED <<out, sent, need, short, late, broken>>

\* Mutation of ReadFails: SendMsg does not look at the error.
ReadFailsIgnored(s) ==
  /\ pc[s] \in {"rlen", "rbody"}
  /\ broken \/ s \in late
  /\ Goto(s, IF s = "cl" THEN "ok" ELSE "err")
  /\ UNCHANGED <<out, in, sent, taken, need, short, late, broken>>

\* Deadline, lost connection, reset, or the end of the stream before the bytes
\* that are wanted.
ReadFails(s) ==
  /\ pc[s] \in {"rlen", "rbody"}
  /\ \/ broken \/ s \in late \/ (s = "cl" /\ Gone(s))
     \/ Gone(s) /\ Available(s) < (IF pc[s] = "rlen" THEN 1 ELSE need[s])
  /\ Fail(s)
  /\ UNCHANGED <<out, in, sent, taken, need, short, late, broken>>

-----------------------------------------------------------------------------
(* HandleMsg, of the registered protocol; it has no deadline *)

HandleMsg ==
  /\ pc["sv"] = "handle"
  /\ \E resp \in Message : out' = [out EXCEPT !["sv"] = resp]
  /\ Goto("sv", "wlen")
  /\ UNCHANGED <<in, sent, taken, need, short, late, broken>>

\* Mutation of HandleMsgFails: the stream is left as it is.
HandleMsgFailsSilent ==
  /\ pc["sv"] = "handle" /\ Goto("sv", "ok")
  /\ UNCHANGED <<out, in, sent, taken, need, short, late, broken>>

HandleMsgFails ==
  /\ pc["sv"] = "handle" /\ Fail("sv")
  /\ UNCHANGED <<out, in, sent, taken, need, short, late, broken>>

HandleMsgHangs ==
  /\ pc["sv"] = "handle" /\ Goto("sv", "hung")
  /\ UNCHANGED <<out, in, sent, taken, need, short, late, broken>>

-----------------------------------------------------------------------------

SendMsg == NewStream \/ NewStreamFails
Handler == StreamHandler \/ HandleMsg \/ HandleMsgFails
ReadWrite(s) ==
  WriteLen(s) \/ WriteBody(s) \/ WriteFails(s) \/ ReadLen(s) \/ ReadBody(s)
  \/ ReadFails(s)

Next ==
  \/ SendMsg \/ Handler \/ HandleMsgHangs \/ Break
  \/ \E s \in Side : ReadWrite(s) \/ MarshalFails(s) \/ DeadlinePasses(s)

Spec == Init /\ [][Next]_vars

\* Both sides go on while they can: what was written arrives unless the
\* connection is lost, and a HandleMsg that does not hang returns.  NewStream
\* returns, by the context of its caller at the latest: it has no deadline here.
BothRun ==
  /\ WF_vars(SendMsg) /\ WF_vars(Handler)
  /\ \A s \in Side : WF_vars(ReadWrite(s))

\* Each side for itself: its goroutine runs and its deadline passes, whatever
\* the other side and the connection do.
SenderRuns ==
  /\ WF_vars(SendMsg) /\ WF_vars(ReadWrite("cl")) /\ WF_vars(DeadlinePasses("cl"))
HandlerRuns ==
  /\ WF_vars(Handler) /\ WF_vars(ReadWrite("sv")) /\ WF_vars(DeadlinePasses("sv"))

-----------------------------------------------------------------------------
(* Properties *)

TypeOK ==
  /\ pc \in [Side -> {"none", "wlen", "wbody", "rlen", "rbody", "handle",
                      "hung", "ok", "err"}]
  /\ out \in [Side -> Message \cup {None}] /\ out["cl"] \in Message
  /\ in \in [Side -> Message \cup {None, Garbled}]
  /\ sent \in [Side -> Nat] /\ taken \in [Side -> Nat]
  /\ need \in [Side -> 0..(Base * Base - 1)]
  /\ short \in SUBSET Side /\ late \in SUBSET Side /\ broken \in BOOLEAN

\* Side s has read exactly what its peer sent; the exceptions are a message
\* too long for its length and a Read that returned one byte of the length.
Intact(s) ==
  in[s] = out[Peer(s)] \/ s \in short \/ Size(out[Peer(s)]) >= Base * Base

\* HandleMsg is given the request that SendMsg was called with, unless that has
\* 2^16 bytes or more or the length arrived in two parts.
RequestIntact == in["sv"] # None => Intact("sv")

\* A SendMsg that returns a response returns what HandleMsg returned for its very
\* request, with the same exceptions; it never returns one without HandleMsg
\* having returned, whatever breaks or comes late.
AnswerIsReply ==
  pc["cl"] = "ok" =>
    out["sv"] # None /\ in["sv"] # None /\ Intact("sv") /\ Intact("cl")

\* SendMsg waits in its Write for a handler that has read all it will read.
HeldBack ==
  /\ pc["cl"] = "wbody" /\ 2 + Size(out["cl"]) > Room("cl")
  /\ pc["sv"] \in {"wbody", "ok"}

\* Of any length that is announced, cut or read in part, the bytes are there: as
\* soon as both messages are written a reader can go on.  So SendMsg returns
\* without its deadline, unless HandleMsg hangs or the connection is lost: each
\* failure of the handler reaches it by the Reset.  The one other exception is a
\* request of which more than the stream takes is left when the handler has read
\* what the length, cut to 16 bits, announced, and returned no error.
Prompt ==
  BothRun => <>(Ended("cl") \/ pc["sv"] = "hung" \/ broken \/ HeldBack)

\* Each side ends by its own deadline: SendMsg also when the peer does not run at
\* all, the stream handler whatever becomes of the sender, unless HandleMsg hangs.
DeadlinesEnd ==
  /\ SenderRuns => <>Ended("cl")
  /\ HandlerRuns => (pc["sv"] # "none" ~> Ended("sv") \/ pc["sv"] = "hung")
=============================================================================
