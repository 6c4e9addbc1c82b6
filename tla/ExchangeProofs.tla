--------------------------- MODULE ExchangeProofs ---------------------------
(***************************************************************************)
(* What nodes exchange.  For every Base and every set of messages: what     *)
(* HandleMsg and SendMsg get is what the other side sent, with the two      *)
(* exceptions of Intact, and the framing gives back a body exactly when it  *)
(* fits its length (Protocols).  For any number of notifiers, calls, keys   *)
(* and namespaces: whom a change of the shared store is told               *)
(* (SharedStorage).                                                         *)
(***************************************************************************)
EXTENDS Protocols, SharedStorage, TLAPS

-----------------------------------------------------------------------------
(* Framing *)

\* A number is put together from its quotient and its remainder.
LEMMA DivMod ==
  ASSUME NEW n \in Nat, NEW b \in Nat, b > 0
  PROVE  /\ (n % b) \in 0..(b - 1)
         /\ (n \div b) \in Nat
         /\ n = b * (n \div b) + (n % b)
  OBVIOUS

\* A number of two digits has a high digit below the base.
LEMMA HighByte ==
  ASSUME NEW n \in Nat, NEW b \in Nat, b > 0, n < b * b
  PROVE  n \div b < b
<1> DEFINE q == n \div b
<1>1. q \in Nat /\ (n % b) \in Nat /\ n = b * q + (n % b)
  BY DivMod
<1>2. ASSUME q >= b PROVE FALSE
  <2> HIDE DEF q
  <2>1. b * q >= b * b
    BY <1>1, <1>2
  <2> QED BY <1>1, <2>1
<1> QED BY <1>1, <1>2

\* A number below the modulus is its own remainder.
LEMMA ModSmall ==
  ASSUME NEW n \in Nat, NEW b \in Nat, n < b
  PROVE  n % b = n
  OBVIOUS

\* The two bytes of a length are bytes.
LEMMA PutUint16Bytes ==
  ASSUME NEW n \in Nat
  PROVE  PutUint16(n) \in Byte \X Byte
<1>1. n % Base \in Byte /\ n \div Base \in Nat
  BY DivMod, ProtocolsAssumption DEF Byte
<1>2. (n \div Base) % Base \in Byte
  BY <1>1, DivMod, ProtocolsAssumption DEF Byte
<1> QED BY <1>1, <1>2 DEF PutUint16

\* What Uint16 reads is a number of 16 bits.
LEMMA Uint16Range ==
  ASSUME NEW x \in Byte, NEW y \in Byte
  PROVE  Uint16(<<x, y>>) \in 0..(Base * Base - 1)
<1>1. x \in Nat /\ y \in Nat /\ x <= Base - 1 /\ y <= Base - 1
  BY ProtocolsAssumption DEF Byte
<1>2. Base * y <= Base * (Base - 1)
  BY <1>1, ProtocolsAssumption
<1>3. Base * (Base - 1) = Base * Base - Base
  BY ProtocolsAssumption
<1>4. Base * y \in Nat /\ Base * Base \in Nat
  BY <1>1, ProtocolsAssumption
<1> DEFINE by == Base * y bb == Base * Base
<1>5. x + by \in 0..(bb - 1)
  <2> HIDE DEF by, bb
  <2>1. by \in Nat /\ bb \in Nat
    BY <1>4 DEF by, bb
  <2>2. by <= bb - Base
    BY <1>2, <1>3 DEF by, bb
  <2> QED BY <1>1, <2>1, <2>2, ProtocolsAssumption
<1> QED BY <1>5 DEF Uint16

\* Two bytes hold a length exactly when it is below 2^16: the reader gets back
\* the length that was written if and only if the message is that short.
THEOREM LengthRoundTrip ==
  ASSUME NEW n \in Nat
  PROVE  Uint16(PutUint16(n)) = n <=> n < Base * Base
<1> DEFINE r == n % Base q == n \div Base
<1>1. r \in Byte /\ q \in Nat /\ n = Base * q + r
  BY DivMod, ProtocolsAssumption DEF Byte
<1>2. ASSUME n < Base * Base PROVE Uint16(PutUint16(n)) = n
  <2>1. q < Base
    BY <1>2, HighByte, ProtocolsAssumption
  <2>2. q % Base = q
    BY <1>1, <2>1, ModSmall, ProtocolsAssumption
  <2>3. Uint16(PutUint16(n)) = r + Base * q
    BY <2>2 DEF PutUint16, Uint16
  <2> HIDE DEF r, q
  <2> QED BY <1>1, <2>3, ProtocolsAssumption DEF Byte
<1>3. Uint16(PutUint16(n)) < Base * Base
  <2>1. PICK x \in Byte, y \in Byte : PutUint16(n) = <<x, y>>
    BY PutUint16Bytes
  <2> QED BY <2>1, Uint16Range, ProtocolsAssumption
<1> QED BY <1>2, <1>3

\* Behind its two bytes of length, a frame is the body.
LEMMA FrameBody ==
  ASSUME NEW m \in Message
  PROVE  /\ Frame(m) \in Seq(Byte) /\ Len(Frame(m)) = 2 + Size(m)
         /\ SubSeq(Frame(m), 3, 2 + Size(m)) = Bytes[m]
         /\ <<Frame(m)[1], Frame(m)[2]>> = PutUint16(Size(m))
         /\ Frame(m)[1] \in Byte /\ Frame(m)[2] \in Byte
<1>1. Bytes[m] \in Seq(Byte) /\ Size(m) \in Nat
  BY ProtocolsAssumption DEF Size
<1>2. PICK x \in Byte, y \in Byte : PutUint16(Size(m)) = <<x, y>>
  BY <1>1, PutUint16Bytes
<1>3. ASSUME NEW b \in Seq(Byte)
      PROVE  /\ <<x, y>> \o b \in Seq(Byte) /\ Len(<<x, y>> \o b) = 2 + Len(b)
             /\ SubSeq(<<x, y>> \o b, 3, 2 + Len(b)) = b
             /\ (<<x, y>> \o b)[1] = x /\ (<<x, y>> \o b)[2] = y
  <2> DEFINE f == <<x, y>> \o b
  <2>1. f \in Seq(Byte) /\ Len(f) = 2 + Len(b) /\ f[1] = x /\ f[2] = y
    OBVIOUS
  <2>2. \A k \in 1..Len(b) : f[k + 2] = b[k]
    OBVIOUS
  <2>3. SubSeq(f, 3, 2 + Len(b)) \in Seq(Byte) /\ Len(SubSeq(f, 3, 2 + Len(b))) = Len(b)
    BY <2>1
  <2>4. \A k \in 1..Len(b) : SubSeq(f, 3, 2 + Len(b))[k] = b[k]
    BY <2>1, <2>2
  <2> QED BY <2>1, <2>3, <2>4
<1> QED BY <1>1, <1>2, <1>3 DEF Frame, Size

\* A reader that got both bytes of the length at once reads the body that was
\* written if and only if that is shorter than 2^16 bytes.
THEOREM FramingExact ==
  ASSUME NEW m \in Message
  PROVE  LET l == Uint16(LengthBuf(Frame(m), 2))
         IN SubSeq(Frame(m), 3, 2 + l) = Bytes[m] <=> Size(m) < Base * Base
<1> DEFINE l == Uint16(LengthBuf(Frame(m), 2))
<1>1. l = Uint16(PutUint16(Size(m)))
  BY SMTT(30), FrameBody DEF LengthBuf
<1>2. Size(m) \in Nat /\ Bytes[m] \in Seq(Byte)
  BY ProtocolsAssumption DEF Size
<1>3. l \in 0..(Base * Base - 1)
  BY FrameBody, Uint16Range DEF LengthBuf
<1>4. ASSUME Size(m) < Base * Base PROVE SubSeq(Frame(m), 3, 2 + l) = Bytes[m]
  BY <1>1, <1>2, <1>4, LengthRoundTrip, FrameBody
<1>5. ASSUME SubSeq(Frame(m), 3, 2 + l) = Bytes[m] PROVE Size(m) < Base * Base
  <2>1. l \in Nat /\ l < Base * Base
    BY <1>3, ProtocolsAssumption
  <2>2. Len(SubSeq(Frame(m), 3, 2 + l)) = l
    BY <2>1
  <2> QED BY <1>5, <2>1, <2>2 DEF Size
<1> QED BY <1>4, <1>5

-----------------------------------------------------------------------------
(* The exchange *)

\* What a side has read of the length, while it waits for the body.
LengthRead(s) ==
  pc[s] = "rbody" =>
    /\ taken[s] \in 1..2 /\ out[Peer(s)] \in Message
    /\ s \notin short =>
         taken[s] = 2 /\ need[s] = Uint16(PutUint16(Size(out[Peer(s)])))

\* Nothing is written before WriteMsg, and nothing of the response before
\* HandleMsg has returned it.
Written(s) ==
  /\ pc[s] \in {"none", "wlen"} => sent[s] = 0
  /\ pc[s] = "wbody" => sent[s] \in 2..(2 + Size(out[s]))
  /\ pc[s] \in {"wlen", "wbody"} \/ sent[s] > 0 => out[s] \in Message
  /\ taken[s] <= sent[Peer(s)]

Handled ==
  /\ pc["sv"] \in {"none", "rlen", "rbody", "handle", "hung"} =>
       sent["sv"] = 0 /\ out["sv"] = None
  /\ pc["sv"] \in {"handle", "hung", "wlen", "wbody", "ok"} => in["sv"] # None
  /\ pc["sv"] \in {"none", "rlen", "rbody"} => in["sv"] = None
  /\ pc["cl"] \notin {"handle", "hung"}
  /\ sent["sv"] > 0 => in["sv"] # None
  /\ pc["cl"] = "ok" <=> in["cl"] # None
  /\ in["cl"] # None => taken["cl"] > 0
  /\ pc["sv"] # "none" => sent["cl"] > 0

\* The inductive invariant.
IInv ==
  /\ TypeOK /\ Handled
  /\ \A s \in Side : Written(s) /\ LengthRead(s) /\ (in[s] # None => Intact(s))

\* The base case.
LEMMA InitIInv == Init => IInv
<1> SUFFICES ASSUME Init PROVE IInv
  OBVIOUS
<1>1. Base * Base - 1 \in Nat
  BY ProtocolsAssumption
<1>2. PICK req \in Message :
        out = [s \in Side |-> IF s = "cl" THEN req ELSE None]
  BY DEF Init
<1>3. TypeOK
  <2>1. need \in [Side -> 0..(Base * Base - 1)]
    BY <1>1 DEF Init
  <2>2. out \in [Side -> Message \cup {None}] /\ out["cl"] \in Message
    BY <1>2 DEF Side
  <2> QED BY Zenon, <2>1, <2>2 DEF Init, TypeOK, Side
<1>4. Handled
  BY <1>2 DEF Init, Handled, Side
<1>5. ASSUME NEW s \in Side PROVE Written(s) /\ LengthRead(s) /\ in[s] = None
  BY <1>2 DEF Init, Written, LengthRead, Side, Peer
<1> QED BY <1>3, <1>4, <1>5 DEF IInv

\* The steps that neither write nor read.
LEMMA QuietStep ==
  ASSUME IInv, NEW s \in Side,
         \/ NewStream \/ NewStreamFails \/ StreamHandler \/ HandleMsgFails
         \/ HandleMsgHangs \/ Break \/ DeadlinePasses(s) \/ MarshalFails(s)
         \/ ReadFails(s)
  PROVE  IInv'
<1> DEFINE
      Moves(t) ==
        \/ pc'[t] = pc[t]
        \/ pc'[t] = "err" /\ pc[t] # "ok" /\ (t = "sv" => pc[t] # "none")
        \/ t = "cl" /\ pc[t] = "none" /\ pc'[t] = "wlen"
        \/ t = "sv" /\ pc[t] = "none" /\ pc'[t] = "rlen" /\ sent["cl"] > 0
        \/ t = "sv" /\ pc[t] = "handle" /\ pc'[t] = "hung"
<1>1. TypeOK /\ Handled /\ \A t \in Side : Written(t) /\ LengthRead(t)
  BY DEF IInv
<1>2. /\ UNCHANGED <<out, in, sent, taken, need, short>>
      /\ TypeOK' /\ (Moves("cl") /\ Moves("sv"))
  <2> USE DEF Goto, Fail, Side, TypeOK
  <2>1. CASE NewStream
    BY <1>1, <2>1 DEF NewStream
  <2>2. CASE NewStreamFails
    BY <1>1, <2>2 DEF NewStreamFails
  <2>3. CASE StreamHandler
    BY <1>1, <2>3 DEF StreamHandler
  <2>4. CASE HandleMsgFails
    BY <1>1, <2>4 DEF HandleMsgFails
  <2>5. CASE HandleMsgHangs
    BY <1>1, <2>5 DEF HandleMsgHangs
  <2>6. CASE Break
    BY <1>1, <2>6 DEF Break
  <2>7. CASE DeadlinePasses(s)
    BY <1>1, <2>7 DEF DeadlinePasses
  <2>8. CASE MarshalFails(s)
    BY <1>1, <2>8 DEF MarshalFails
  <2>9. CASE ReadFails(s)
    BY <1>1, <2>9 DEF ReadFails
  <2> QED BY <2>1, <2>2, <2>3, <2>4, <2>5, <2>6, <2>7, <2>8, <2>9
<1>3. Handled'
  <2>1. /\ pc'["cl"] \notin {"handle", "hung"}
        /\ pc'["cl"] = "ok" <=> pc["cl"] = "ok"
    BY <1>1, <1>2 DEF Handled
  <2>2. /\ pc'["sv"] \in {"none", "rlen", "rbody", "handle", "hung"} =>
             pc["sv"] \in {"none", "rlen", "rbody", "handle", "hung"}
        /\ pc'["sv"] \in {"handle", "hung", "wlen", "wbody", "ok"} =>
             pc["sv"] \in {"handle", "hung", "wlen", "wbody", "ok"}
        /\ pc'["sv"] \in {"none", "rlen", "rbody"} =>
             pc["sv"] \in {"none", "rlen", "rbody"}
        /\ pc'["sv"] # "none" => sent["cl"] > 0
    BY <1>1, <1>2 DEF Handled
  <2> QED BY <1>1, <1>2, <2>1, <2>2 DEF Handled
<1>4. ASSUME NEW t \in Side PROVE Written(t)'
  BY <1>1, <1>2 DEF Written, Handled, TypeOK, Side, Peer
<1>5. ASSUME NEW t \in Side PROVE LengthRead(t)'
  BY <1>1, <1>2 DEF LengthRead, TypeOK, Side
<1>6. ASSUME NEW t \in Side, in[t]' # None PROVE Intact(t)'
  BY <1>2, <1>6 DEF IInv, Intact
<1> QED BY <1>2, <1>3, <1>4, <1>5, <1>6 DEF IInv

\* The steps of WriteMsg: more of a frame that does not change is there.
LEMMA WriteStep ==
  ASSUME IInv, NEW s \in Side, WriteLen(s) \/ WriteBody(s) \/ WriteFails(s)
  PROVE  IInv'
<1>1. TypeOK /\ Handled /\ \A t \in Side : Written(t) /\ LengthRead(t)
  BY DEF IInv
<1> DEFINE k == sent'[s]
<1>2. /\ UNCHANGED <<out, in, taken, need, short, late, broken>>
      /\ pc[s] \in {"wlen", "wbody"} /\ k \in Nat /\ k >= sent[s]
      /\ sent' = [sent EXCEPT ![s] = k]
      /\ \/ pc' = [pc EXCEPT ![s] = "err"]
         \/ pc' = [pc EXCEPT ![s] = "wbody"] /\ k \in 2..(2 + Size(out[s]))
         \/ pc' = [pc EXCEPT ![s] = IF s = "cl" THEN "rlen" ELSE "ok"] /\ k > 0
  <2> USE DEF Goto, Fail
  <2>1. CASE WriteLen(s)
    <3>1. Size(out[s]) \in Nat
      BY <1>1, <2>1, ProtocolsAssumption DEF WriteLen, Written, Size
    <3> QED BY <1>1, <2>1, <3>1 DEF WriteLen, Written, TypeOK
  <2>2. CASE WriteBody(s)
    <3>1. Size(out[s]) \in Nat
      BY <1>1, <2>2, ProtocolsAssumption DEF WriteBody, Written, Size
    <3>2. pc[s] = "wbody" /\ sent[s] \in 2..(2 + Size(out[s]))
      BY Zenon, <1>1, <2>2 DEF WriteBody, Written
    <3>3. Room(s) \in Nat
      <4>1. Peer(s) \in Side /\ taken \in [Side -> Nat] /\ Window \in Nat
        BY Zenon, <1>1, ProtocolsAssumption DEF TypeOK, Side, Peer
      <4> QED BY ONLY <4>1 DEF Room
    <3> QED BY <1>1, <2>2, <3>1, <3>2, <3>3 DEF WriteBody, TypeOK
  <2>3. CASE WriteFails(s)
    <3>1. Size(out[s]) \in Nat /\ sent[s] \in Nat
      BY <1>1, <2>3, ProtocolsAssumption DEF WriteFails, Written, Size, TypeOK
    <3>2. PICK j \in sent[s]..(2 + Size(out[s])) : sent' = [sent EXCEPT ![s] = j]
      BY Zenon, <2>3 DEF WriteFails
    <3> QED BY <1>1, <2>3, <3>1, <3>2 DEF WriteFails, TypeOK
  <2> QED BY <2>1, <2>2, <2>3
<1> HIDE DEF k
<1>3. TypeOK'
  BY <1>1, <1>2 DEF TypeOK, Side
<1>4. Handled'
  BY <1>1, <1>2 DEF Handled, TypeOK, Side
<1>5. ASSUME NEW t \in Side PROVE Written(t)'
  BY <1>1, <1>2 DEF Written, TypeOK, Side, Peer
<1>6. ASSUME NEW t \in Side PROVE LengthRead(t)'
  BY <1>1, <1>2 DEF LengthRead, TypeOK, Side
<1>7. ASSUME NEW t \in Side, in[t]' # None PROVE Intact(t)'
  BY <1>2, <1>7 DEF IInv, Intact
<1> QED BY <1>3, <1>4, <1>5, <1>6, <1>7 DEF IInv

\* HandleMsg returns a response: nothing has been written for it before.
LEMMA HandleMsgStep ==
  ASSUME IInv, NEW s \in Side, HandleMsg
  PROVE  IInv'
<1> USE DEF HandleMsg, Goto, Fail, Side, Peer
<1>1. TypeOK /\ Handled /\ \A t \in Side : Written(t) /\ LengthRead(t)
  BY DEF IInv
<1>2. TypeOK'
  BY <1>1, ProtocolsAssumption DEF TypeOK, Size, Written, Handled
<1>3. Handled'
  BY <1>1, <1>2, ProtocolsAssumption DEF Handled, TypeOK, Size, Written
<1>4. ASSUME NEW t \in Side PROVE Written(t)'
  BY <1>1, <1>2, ProtocolsAssumption DEF Handled, Written, TypeOK, Size
<1>5. ASSUME NEW t \in Side PROVE LengthRead(t)'
  BY <1>1, <1>2 DEF Handled, Written, LengthRead, TypeOK
<1>6. ASSUME NEW t \in Side, in[t]' # None PROVE Intact(t)'
  <2>1. in[t] # None => Intact(t)
    BY DEF IInv
  <2> QED BY <1>1, <1>6, <2>1 DEF Handled, Written, Intact, TypeOK
<1> QED BY <1>2, <1>3, <1>4, <1>5, <1>6 DEF IInv

\* One or two bytes of the length are read.
LEMMA ReadLenStep ==
  ASSUME IInv, NEW s \in Side, ReadLen(s)
  PROVE  IInv'
<1>1. TypeOK /\ Handled /\ \A t \in Side : Written(t) /\ LengthRead(t)
  BY DEF IInv
<1> DEFINE m == out[Peer(s)]
<1>2. PICK k \in 1..2 :
        /\ k <= sent[Peer(s)] - taken[s]
        /\ need' = [need EXCEPT ![s] = Uint16(LengthBuf(Frame(m), k))]
        /\ taken' = [taken EXCEPT ![s] = k]
        /\ short' = IF k = 2 THEN short ELSE short \cup {s}
  BY Zenon DEF ReadLen, Available
<1>3. /\ pc[s] = "rlen" /\ pc' = [pc EXCEPT ![s] = "rbody"]
      /\ UNCHANGED <<out, in, sent, late, broken>>
  BY DEF ReadLen, Goto
<1>4. /\ sent[Peer(s)] \in Nat /\ taken[s] \in Nat
      /\ sent[Peer(s)] >= k /\ sent[Peer(s)] > 0
  BY <1>1, <1>2 DEF TypeOK, Side, Peer
<1>5. m \in Message
  BY <1>1, <1>4 DEF Written, Side, Peer
<1>6. /\ Uint16(LengthBuf(Frame(m), k)) \in 0..(Base * Base - 1)
      /\ k = 2 => Uint16(LengthBuf(Frame(m), k)) = Uint16(PutUint16(Size(m)))
  <2>1. CASE k = 2
    BY Zenon, <1>5, <2>1, FrameBody, Uint16Range DEF LengthBuf
  <2>2. CASE k # 2
    <3>1. 0 \in Byte
      BY ProtocolsAssumption DEF Byte
    <3> QED BY <1>5, <2>2, <3>1, FrameBody, Uint16Range DEF LengthBuf
  <2> QED BY <2>1, <2>2
<1>7. TypeOK'
  BY <1>1, <1>2, <1>3, <1>6 DEF TypeOK, Side
<1>8. Handled'
  BY <1>1, <1>2, <1>3 DEF Handled, TypeOK, Side
<1>9. ASSUME NEW t \in Side PROVE Written(t)'
  BY <1>1, <1>2, <1>3, <1>4 DEF Written, TypeOK, Side, Peer
<1>10. ASSUME NEW t \in Side PROVE LengthRead(t)'
  BY <1>1, <1>2, <1>3, <1>5, <1>6 DEF LengthRead, TypeOK, Side, Peer
<1>11. ASSUME NEW t \in Side, in[t]' # None PROVE Intact(t)'
  BY SMTT(30), <1>2, <1>3, <1>11 DEF IInv, Intact
<1> QED BY <1>7, <1>8, <1>9, <1>10, <1>11 DEF IInv

\* The body is read: of a message that fits, behind a whole length, it is what
\* Marshal gave, and Unmarshal returns the message.
LEMMA ReadBodyStep ==
  ASSUME IInv, NEW s \in Side, ReadBody(s)
  PROVE  IInv'
<1>1. TypeOK /\ Handled /\ \A t \in Side : Written(t) /\ LengthRead(t)
  BY DEF IInv
<1> DEFINE m == out[Peer(s)]
           buf == SubSeq(Frame(m), taken[s] + 1, taken[s] + need[s])
<1>2. PICK v \in Unmarshal(buf) :
        \/ v = None /\ pc' = [pc EXCEPT ![s] = "err"] /\ UNCHANGED in
        \/ /\ v # None /\ in' = [in EXCEPT ![s] = v]
           /\ pc' = [pc EXCEPT ![s] = IF s = "cl" THEN "ok" ELSE "handle"]
  BY DEF ReadBody, Goto, Fail
<1>3. /\ pc[s] = "rbody" /\ need[s] <= sent[Peer(s)] - taken[s]
      /\ taken' = [taken EXCEPT ![s] = @ + need[s]]
      /\ UNCHANGED <<out, sent, need, short, late, broken>>
  BY DEF ReadBody, Available
<1>4. need[s] \in Nat /\ taken[s] \in 1..2 /\ m \in Message
  BY <1>1, <1>3, ProtocolsAssumption DEF TypeOK, LengthRead
<1>5. v \in Message \cup {None, Garbled}
  BY DEF Unmarshal
<1>6. ASSUME s \notin short, Size(m) < Base * Base PROVE v = m
  <2>1. taken[s] = 2 /\ need[s] = Uint16(PutUint16(Size(m)))
    BY Zenon, <1>1, <1>3, <1>6 DEF LengthRead
  <2>2. Size(m) \in Nat
    BY SMTT(20), <1>4, ProtocolsAssumption DEF Size
  <2>3. taken[s] = 2 /\ need[s] = Size(m)
    BY Zenon, <1>6, <2>1, <2>2, LengthRoundTrip
  <2>4. buf = Bytes[m]
    <3>1. buf = SubSeq(Frame(m), 2 + 1, 2 + Size(m))
      BY Zenon, <2>3
    <3>2. 2 + 1 = 3
      OBVIOUS
    <3> QED BY Zenon, <1>4, <3>1, <3>2, FrameBody
  <2> QED BY Zenon, <1>4, <2>4, ProtocolsAssumption DEF Unmarshal
<1> HIDE DEF m, buf
<1>7. TypeOK'
  BY <1>1, <1>2, <1>3, <1>4, <1>5 DEF TypeOK, Side
<1>8. Handled'
  BY <1>1, <1>2, <1>3, <1>4 DEF Handled, TypeOK, Side
<1>9. ASSUME NEW t \in Side PROVE Written(t)'
  <2>1. pc'[t] \in {"none", "wlen", "wbody"} => pc'[t] = pc[t]
    BY <1>1, <1>2, <1>3 DEF TypeOK, Side
  <2>2. sent[Peer(s)] \in Nat /\ taken'[t] <= sent[Peer(t)]
    BY <1>1, <1>3, <1>4 DEF Written, TypeOK, Side, Peer
  <2> QED BY <1>1, <1>3, <2>1, <2>2 DEF Written
<1>10. ASSUME NEW t \in Side PROVE LengthRead(t)'
  BY <1>1, <1>2, <1>3 DEF LengthRead, TypeOK, Side
<1>11. ASSUME NEW t \in Side, in[t]' # None PROVE Intact(t)'
  <2>1. CASE t = s
    BY <1>1, <1>2, <1>3, <1>4, <1>6, <1>11, <2>1, ProtocolsAssumption DEF Intact, m,
       TypeOK, Size
  <2>2. CASE t # s
    BY <1>1, <1>2, <1>3, <1>11, <2>2 DEF IInv, Intact, TypeOK
  <2> QED BY <2>1, <2>2
<1> QED BY <1>7, <1>8, <1>9, <1>10, <1>11 DEF IInv

\* The invariant holds in every reachable state.
THEOREM Invariance == Spec => []IInv
<1>1. ASSUME IInv, [Next]_vars PROVE IInv'
  <2>1. ASSUME NEW s \in Side, ReadWrite(s) \/ MarshalFails(s) \/ DeadlinePasses(s)
        PROVE  IInv'
    BY <1>1, <2>1, QuietStep, WriteStep, ReadLenStep, ReadBodyStep DEF ReadWrite
  <2>2. CASE SendMsg \/ Handler \/ HandleMsgHangs \/ Break
    <3>1. "cl" \in Side
      BY DEF Side
    <3> QED BY <1>1, <2>2, <3>1, QuietStep, HandleMsgStep DEF SendMsg, Handler
  <2>3. CASE UNCHANGED vars
    BY <1>1, <2>3 DEF vars, IInv, TypeOK, Handled, Written, LengthRead, Intact
  <2> QED BY <1>1, <2>1, <2>2, <2>3 DEF Next
<1> QED BY InitIInv, <1>1, PTL DEF Spec

\* The variables keep their types; a length is always one of 16 bits.
THEOREM TypeCorrect == Spec => []TypeOK
<1>1. IInv => TypeOK
  BY DEF IInv
<1> QED BY Invariance, <1>1, PTL

\* HandleMsg gets the request that was sent, up to its two exceptions.
THEOREM RequestArrives == Spec => []RequestIntact
<1>1. IInv => RequestIntact
  BY DEF IInv, RequestIntact, Side
<1> QED BY Invariance, <1>1, PTL

\* SendMsg returns only what a HandleMsg of the peer returned for it, up to the
\* same exceptions.
THEOREM AnswerArrives == Spec => []AnswerIsReply
<1>1. IInv => AnswerIsReply
  <2> SUFFICES ASSUME IInv, pc["cl"] = "ok"
               PROVE  /\ out["sv"] # None /\ in["sv"] # None
                      /\ Intact("sv") /\ Intact("cl")
    BY DEF AnswerIsReply
  <2>1. in["cl"] # None /\ taken["cl"] > 0 /\ Intact("cl")
    BY DEF IInv, Handled, Side
  <2>2. sent["sv"] > 0
    BY <2>1 DEF IInv, TypeOK, Written, Side, Peer
  <2>3. out["sv"] # None /\ in["sv"] # None
    BY <2>1, <2>2, ProtocolsAssumption DEF IInv, Handled, Written, Side
  <2> QED BY <2>1, <2>3 DEF IInv, Side
<1> QED BY Invariance, <1>1, PTL

-----------------------------------------------------------------------------
(* The callbacks of the shared store *)

\* Who holds the lock: the iterating notifiers share it, a call that has got it
\* has it alone.
LockInv ==
  /\ \A t \in Notifier : t \in readers <=> npc[t] \in {"iter", "call", "lock"}
  /\ \A t \in Notifier : t \in waiting <=> npc[t] = "wait"
  /\ \A c \in Caller : rpc[c] \in {"lock", "read", "store"} <=> writer = c
  /\ \A c \in Caller : rpc[c] \in {"read", "store"} => readers = {}

Want(t, n) == IF <<key[t], n>> \in Matches THEN Len(callbacks[n]) ELSE 0

\* How far an iteration is: nothing of what is to be visited has been called, all
\* of what has been visited, and of the current namespace what is before idx.
Reached(t) ==
  /\ npc[t] # "idle" => \A n \in todo[t] : called[t][n] = 0
  /\ npc[t] = "wait" => todo[t] = Ns
  /\ npc[t] = "iter" => \A n \in Ns \ todo[t] : called[t][n] = Want(t, n)
  /\ npc[t] = "call" =>
       /\ cur[t] \in Ns \ todo[t] /\ <<key[t], cur[t]>> \in Matches
       /\ cbs[t] = callbacks[cur[t]]
       /\ called[t][cur[t]] + 1 = idx[t] /\ idx[t] <= Len(cbs[t]) + 1
       /\ \A n \in Ns \ (todo[t] \cup {cur[t]}) : called[t][n] = Want(t, n)

IterInv == \A t \in Notifier : Reached(t)

\* What a call is about to store extends what is there.
RegInv ==
  /\ \A c \in Caller : rpc[c] = "store" => app[c] = Append(callbacks[ns[c]], c)
  /\ Registered

StoreInv == StoreTypeOK /\ LockInv /\ IterInv /\ RegInv

\* The initial states satisfy the invariant.
LEMMA InitStore == StoreInit => StoreInv
<1> SUFFICES ASSUME StoreInit PROVE StoreInv
  OBVIOUS
<1>1. StoreTypeOK
  <2>1. <<>> \in Seq(Caller)
    OBVIOUS
  <2> QED BY <2>1 DEF StoreInit, StoreTypeOK
<1>2. LockInv
  BY StoreAssumption DEF StoreInit, LockInv
<1>3. IterInv
  BY DEF StoreInit, Reached, IterInv
<1>4. RegInv
  BY DEF StoreInit, RegInv, Registered
<1> QED BY <1>1, <1>2, <1>3, <1>4 DEF StoreInv

\* Every step keeps the types.
LEMMA StoreTypes == StoreInv /\ [StoreNext]_storeVars => StoreTypeOK'
<1> SUFFICES ASSUME StoreInv, [StoreNext]_storeVars PROVE StoreTypeOK'
  OBVIOUS
<1>0. StoreTypeOK /\ LockInv /\ IterInv /\ RegInv
  BY DEF StoreInv
<1>1. ASSUME NEW t \in Notifier, NEW k \in Key, Notify(t, k) PROVE StoreTypeOK'
  BY Zenon, <1>0, <1>1 DEF Notify, StoreTypeOK, reg
<1>2. ASSUME NEW t \in Notifier, Entry(t) PROVE StoreTypeOK'
  <2>1. PICK n \in todo[t] :
          /\ todo' = [todo EXCEPT ![t] = @ \ {n}]
          /\ \/ UNCHANGED <<npc, cur, cbs, idx>>
             \/ /\ npc' = [npc EXCEPT ![t] = "call"]
                /\ cur' = [cur EXCEPT ![t] = n]
                /\ cbs' = [cbs EXCEPT ![t] = callbacks[n]]
                /\ idx' = [idx EXCEPT ![t] = 1]
    BY Zenon, <1>2 DEF Entry
  <2>2. n \in Ns /\ callbacks[n] \in Seq(Caller) /\ 1 \in Nat \ {0}
    BY <1>0 DEF StoreTypeOK
  <2>3. /\ todo \in [Notifier -> SUBSET Ns] /\ cur \in [Notifier -> Ns \cup {Nobody}]
        /\ npc \in [Notifier -> {"idle", "wait", "iter", "call", "lock"}]
        /\ idx \in [Notifier -> Nat \ {0}] /\ cbs \in [Notifier -> Seq(Caller)]
    BY <1>0 DEF StoreTypeOK
  <2>4. todo' \in [Notifier -> SUBSET Ns]
    BY <2>1, <2>3
  <2>5. cur' \in [Notifier -> Ns \cup {Nobody}]
    <3>1. cur' = cur \/ cur' = [cur EXCEPT ![t] = n]
      BY Zenon, <2>1
    <3>2. n \in Ns \cup {Nobody} /\ cur \in [Notifier -> Ns \cup {Nobody}]
      BY Zenon, <2>2, <2>3
    <3> QED BY Zenon, <3>1, <3>2
  <2>6. npc' \in [Notifier -> {"idle", "wait", "iter", "call", "lock"}]
    BY <2>1, <2>3
  <2>7. idx' \in [Notifier -> Nat \ {0}]
    BY Zenon, <2>1, <2>2, <2>3
  <2>8. cbs' \in [Notifier -> Seq(Caller)]
    BY Zenon, <2>1, <2>2, <2>3
  <2> QED BY SMTT(30), <1>0, <1>2, <2>4, <2>5, <2>6, <2>7, <2>8 DEF Entry,
             StoreTypeOK, reg
<1>3. ASSUME NEW t \in Notifier, Call(t) PROVE StoreTypeOK'
  <2>1. cur[t] \in Ns
    BY Zenon, <1>0, <1>3 DEF Call, Reached, IterInv
  <2>2. called[t][cur[t]] + 1 \in Nat /\ idx[t] + 1 \in Nat \ {0}
    BY <1>0, <2>1 DEF StoreTypeOK
  <2>3. idx' \in [Notifier -> Nat \ {0}]
    BY <1>0, <1>3, <2>2 DEF Call, StoreTypeOK
  <2>4. called' \in [Notifier -> [Ns -> Nat]]
    <3>1. called \in [Notifier -> [Ns -> Nat]]
      BY <1>0 DEF StoreTypeOK
    <3>2. \/ UNCHANGED called
          \/ called' = [called EXCEPT ![t] = [called[t] EXCEPT ![cur[t]] = @ + 1]]
      BY <1>3 DEF Call
    <3>3. [called[t] EXCEPT ![cur[t]] = @ + 1] \in [Ns -> Nat]
      BY <2>1, <2>2, <3>1
    <3> QED BY <3>1, <3>2, <3>3
  <2>5. npc' \in [Notifier -> {"idle", "wait", "iter", "call", "lock"}]
    BY <1>0, <1>3 DEF Call, Within, StoreTypeOK
  <2> QED BY Zenon, <1>0, <1>3, <2>3, <2>4, <2>5 DEF Call, StoreTypeOK, reg
<1>4. ASSUME NEW t \in Notifier, Return(t) PROVE StoreTypeOK'
  BY <1>0, <1>4 DEF Return, StoreTypeOK, reg, iter
<1>5. ASSUME NEW c \in Caller, Lock(c) PROVE StoreTypeOK'
  BY <1>0, <1>5 DEF Lock, StoreTypeOK, iter
<1>6. ASSUME NEW c \in Caller, Locked(c) PROVE StoreTypeOK'
  BY <1>0, <1>6 DEF Locked, StoreTypeOK, iter
<1>7. ASSUME NEW c \in Caller, Extend(c) PROVE StoreTypeOK'
  <2>1. Append(callbacks[ns[c]], c) \in Seq(Caller)
    BY <1>0 DEF StoreTypeOK
  <2> QED BY <1>0, <1>7, <2>1 DEF Extend, StoreTypeOK, iter
<1>8. ASSUME NEW c \in Caller, Store(c) PROVE StoreTypeOK'
  BY <1>0, <1>8 DEF Store, StoreTypeOK, iter
<1>9. CASE UNCHANGED storeVars
  BY <1>0, <1>9 DEF StoreTypeOK, storeVars, iter, reg
<1>10. ASSUME NEW t \in Notifier, Reenter(t) PROVE StoreTypeOK'
  BY <1>0, <1>10 DEF Reenter, StoreTypeOK, reg, iter
<1> QED
  BY <1>1, <1>2, <1>3, <1>4, <1>5, <1>6, <1>7, <1>8, <1>9, <1>10 DEF StoreNext,
     NotifierNext, Going, CallerNext

\* Every step keeps the lock's discipline.
LEMMA LockStep == StoreInv /\ [StoreNext]_storeVars => LockInv'
<1> SUFFICES ASSUME StoreInv, [StoreNext]_storeVars PROVE LockInv'
  OBVIOUS
<1>0. StoreTypeOK /\ LockInv /\ IterInv /\ RegInv
  BY DEF StoreInv
<1>1. ASSUME NEW t \in Notifier, NEW k \in Key, Notify(t, k) PROVE LockInv'
  <2>1. /\ npc[t] = "idle" /\ UNCHANGED <<writer, rpc>>
        /\ npc \in [Notifier -> {"idle", "wait", "iter", "call", "lock"}]
        /\ \/ /\ writer = Nobody /\ npc' = [npc EXCEPT ![t] = "iter"]
              /\ readers' = readers \cup {t} /\ UNCHANGED waiting
           \/ /\ npc' = [npc EXCEPT ![t] = "wait"]
              /\ waiting' = waiting \cup {t} /\ UNCHANGED readers
    BY <1>0, <1>1 DEF Notify, StoreTypeOK, reg
  <2>2. \A u \in Notifier : u \in readers' <=> npc'[u] \in {"iter", "call", "lock"}
    BY <1>0, <2>1 DEF LockInv
  <2>3. \A u \in Notifier : u \in waiting' <=> npc'[u] = "wait"
    BY <1>0, <2>1 DEF LockInv
  <2>4. \A c \in Caller : rpc'[c] \in {"read", "store"} => readers' = {}
    BY StoreAssumption, <1>0, <2>1 DEF LockInv
  <2> QED BY <1>0, <2>1, <2>2, <2>3, <2>4 DEF LockInv
<1>2. ASSUME NEW t \in Notifier, Entry(t) PROVE LockInv'
  <2>1. /\ UNCHANGED <<readers, waiting, writer, rpc>> /\ npc[t] = "iter"
        /\ npc' = npc \/ npc' = [npc EXCEPT ![t] = "call"]
        /\ npc \in [Notifier -> {"idle", "wait", "iter", "call", "lock"}]
    BY <1>0, <1>2 DEF Entry, StoreTypeOK, reg
  <2> QED BY <1>0, <2>1 DEF LockInv
<1>3. ASSUME NEW t \in Notifier, Call(t) PROVE LockInv'
  <2>1. /\ UNCHANGED <<readers, waiting, writer, rpc>> /\ npc[t] = "call"
        /\ \E l \in {"iter", "call", "lock"} : npc' = [npc EXCEPT ![t] = l]
        /\ npc \in [Notifier -> {"idle", "wait", "iter", "call", "lock"}]
    BY <1>0, <1>3 DEF Call, Within, StoreTypeOK, reg
  <2> QED BY <1>0, <2>1 DEF LockInv
<1>4. ASSUME NEW t \in Notifier, Return(t) PROVE LockInv'
  BY <1>0, <1>4 DEF Return, StoreTypeOK, LockInv, reg
<1>5. ASSUME NEW c \in Caller, Lock(c) PROVE LockInv'
  BY StoreAssumption, <1>0, <1>5 DEF Lock, StoreTypeOK, LockInv
<1>6. ASSUME NEW c \in Caller, Locked(c) PROVE LockInv'
  BY <1>0, <1>6 DEF Locked, StoreTypeOK, LockInv
<1>7. ASSUME NEW c \in Caller, Extend(c) PROVE LockInv'
  BY <1>0, <1>7 DEF Extend, StoreTypeOK, LockInv
<1>8. ASSUME NEW c \in Caller, Store(c) PROVE LockInv'
  BY StoreAssumption, <1>0, <1>8 DEF Store, StoreTypeOK, LockInv
<1>9. CASE UNCHANGED storeVars
  BY <1>0, <1>9 DEF LockInv, storeVars, reg
<1>10. ASSUME NEW t \in Notifier, Reenter(t) PROVE LockInv'
  BY SMTT(20), StoreAssumption, <1>0, <1>10 DEF Reenter, StoreTypeOK, LockInv, reg, iter
<1> QED
  BY <1>1, <1>2, <1>3, <1>4, <1>5, <1>6, <1>7, <1>8, <1>9, <1>10 DEF StoreNext,
     NotifierNext, Going, CallerNext

\* The account of an iteration that a step does not touch.
LEMMA SameReached ==
  ASSUME NEW u, Reached(u), callbacks' = callbacks,
         npc'[u] = npc[u], todo'[u] = todo[u], called'[u] = called[u],
         key'[u] = key[u], cur'[u] = cur[u], cbs'[u] = cbs[u], idx'[u] = idx[u]
  PROVE  Reached(u)'
<1>1. \A n : Want(u, n)' = Want(u, n)
  BY Zenon DEF Want
<1>2. (npc[u] # "idle")' => \A n \in todo'[u] : called'[u][n] = 0
  BY Zenon DEF Reached
<1>3. (npc[u] = "wait")' => todo'[u] = Ns
  BY Zenon DEF Reached
<1>4. (npc[u] = "iter")' => \A n \in Ns \ todo'[u] : called'[u][n] = Want(u, n)'
  BY Zenon, <1>1 DEF Reached
<1>5. ASSUME npc'[u] = "call"
      PROVE  /\ cur'[u] \in Ns \ todo'[u] /\ <<key'[u], cur'[u]>> \in Matches
             /\ cbs'[u] = callbacks'[cur'[u]]
             /\ called'[u][cur'[u]] + 1 = idx'[u] /\ idx'[u] <= Len(cbs'[u]) + 1
  BY Zenon, <1>5 DEF Reached
<1>6. ASSUME npc'[u] = "call"
      PROVE  \A n \in Ns \ (todo'[u] \cup {cur'[u]}) : called'[u][n] = Want(u, n)'
  BY Zenon, <1>1, <1>6 DEF Reached
<1> QED BY Zenon, <1>2, <1>3, <1>4, <1>5, <1>6 DEF Reached

\* Every step keeps the account of the iterations.
LEMMA IterStep == StoreInv /\ [StoreNext]_storeVars => IterInv'
<1> SUFFICES ASSUME StoreInv, [StoreNext]_storeVars PROVE IterInv'
  OBVIOUS
<1>0. StoreTypeOK /\ LockInv /\ IterInv /\ RegInv
  BY DEF StoreInv
<1>1. ASSUME NEW t \in Notifier, NEW k \in Key, Notify(t, k) PROVE IterInv'
  <2>1. /\ UNCHANGED <<callbacks, cur, cbs, idx>>
        /\ npc'[t] \in {"iter", "wait"} /\ todo'[t] = Ns
        /\ \A n \in Ns : called'[t][n] = 0
        /\ \A u \in Notifier \ {t} :
             /\ npc'[u] = npc[u] /\ todo'[u] = todo[u]
             /\ called'[u] = called[u] /\ key'[u] = key[u]
    BY <1>0, <1>1 DEF Notify, StoreTypeOK
  <2>2. Reached(t)'
    BY <2>1 DEF Reached
  <2>3. ASSUME NEW u \in Notifier \ {t} PROVE Reached(u)'
    <3>1. Reached(u)
      BY <1>0 DEF IterInv
    <3> QED BY Zenon, <2>1, <3>1, SameReached
  <2> QED BY <2>2, <2>3 DEF IterInv
<1>2. ASSUME NEW t \in Notifier, Entry(t) PROVE IterInv'
  <2>1. PICK n \in todo[t] :
          /\ todo' = [todo EXCEPT ![t] = @ \ {n}]
          /\ IF <<key[t], n>> \in Matches
             THEN /\ npc' = [npc EXCEPT ![t] = "call"]
                  /\ cur' = [cur EXCEPT ![t] = n]
                  /\ cbs' = [cbs EXCEPT ![t] = callbacks[n]]
                  /\ idx' = [idx EXCEPT ![t] = 1]
             ELSE UNCHANGED <<npc, cur, cbs, idx>>
    BY Zenon, <1>2 DEF Entry
  <2>2. /\ npc[t] = "iter" /\ UNCHANGED <<callbacks, key, called>> /\ n \in Ns
        /\ called[t][n] = 0 /\ Len(callbacks[n]) \in Nat
    <3>1. npc[t] = "iter" /\ UNCHANGED <<callbacks, key, called>>
      BY Zenon, <1>2 DEF Entry
    <3>2. n \in Ns /\ Len(callbacks[n]) \in Nat
      BY <1>0 DEF StoreTypeOK
    <3>3. called[t][n] = 0
      BY Zenon, <1>0, <3>1 DEF Reached, IterInv
    <3> QED BY <3>1, <3>2, <3>3
  <2>3. /\ todo'[t] = todo[t] \ {n}
        /\ \A u \in Notifier \ {t} : todo'[u] = todo[u]
    BY <1>0, <2>1 DEF StoreTypeOK
  <2>4. CASE <<key[t], n>> \in Matches
    <3>1. /\ npc'[t] = "call" /\ cur'[t] = n /\ cbs'[t] = callbacks[n] /\ idx'[t] = 1
          /\ \A u \in Notifier \ {t} : /\ npc'[u] = npc[u] /\ cur'[u] = cur[u]
                                       /\ cbs'[u] = cbs[u] /\ idx'[u] = idx[u]
      BY SMTT(20), <1>0, <2>1, <2>4 DEF StoreTypeOK
    <3>2. \A m \in Ns : Want(t, m)' = Want(t, m)
      BY <2>2 DEF Want
    <3>3. \A m \in todo'[t] : called'[t][m] = 0
      BY Zenon, <1>0, <2>2, <2>3 DEF Reached, IterInv
    <3>4. ASSUME NEW m \in Ns \ (todo'[t] \cup {n}) PROVE called'[t][m] = Want(t, m)'
      <4>1. m \in Ns \ todo[t]
        BY <2>3
      <4> QED BY Zenon, <1>0, <2>2, <3>2, <4>1 DEF Reached, IterInv
    <3>5. called'[t][n] + 1 = idx'[t] /\ idx'[t] <= Len(cbs'[t]) + 1
      <4>1. called'[t][n] = 0 /\ idx'[t] = 1 /\ Len(cbs'[t]) \in Nat
        BY Zenon, <2>2, <3>1
      <4> QED BY ONLY <4>1
    <3>6. Reached(t)'
      <4>1. /\ cur'[t] \in Ns \ todo'[t] /\ <<key'[t], cur'[t]>> \in Matches
            /\ cbs'[t] = callbacks'[cur'[t]]
        BY <2>2, <2>3, <2>4, <3>1
      <4>2. npc'[t] = "call" /\ cur'[t] = n
        BY <3>1
      <4>3. \A m \in Ns \ (todo'[t] \cup {cur'[t]}) : called'[t][m] = Want(t, m)'
        BY <3>4, <4>2
      <4>4. called'[t][cur'[t]] + 1 = idx'[t]
        BY <3>5, <4>2
      <4> QED BY Zenon, <3>3, <3>5, <4>1, <4>2, <4>3, <4>4 DEF Reached
    <3>7. ASSUME NEW u \in Notifier \ {t} PROVE Reached(u)'
      <4>1. /\ npc'[u] = npc[u] /\ cur'[u] = cur[u] /\ cbs'[u] = cbs[u]
            /\ idx'[u] = idx[u] /\ todo'[u] = todo[u]
        BY <2>3, <3>1
      <4>2. callbacks' = callbacks /\ key' = key /\ called' = called
        BY <2>2
      <4>3. Reached(u)
        BY <1>0 DEF IterInv
      <4> QED BY <4>1, <4>2, <4>3 DEF Reached, Want
    <3> QED BY <3>6, <3>7 DEF IterInv
  <2>5. CASE <<key[t], n>> \notin Matches
    <3>1. UNCHANGED <<callbacks, key, called, npc, cur, cbs, idx>>
      BY <2>1, <2>2, <2>5
    <3>2. ASSUME NEW u \in Notifier \ {t} PROVE Reached(u)'
      <4>1. Reached(u) /\ todo'[u] = todo[u]
        BY <1>0, <2>3 DEF IterInv
      <4> QED BY <3>1, <4>1 DEF Reached, Want
    <3>3. Reached(t)'
      <4>1. /\ \A m \in todo[t] : called[t][m] = 0
            /\ \A m \in Ns \ todo[t] : called[t][m] = Want(t, m)
        BY Zenon, <1>0, <2>2 DEF Reached, IterInv
      <4>2. called[t][n] = Want(t, n) /\ \A m \in Ns : Want(t, m)' = Want(t, m)
        BY <2>2, <2>5, <3>1 DEF Want
      <4> QED BY <2>2, <2>3, <3>1, <4>1, <4>2 DEF Reached
    <3> QED BY <3>2, <3>3 DEF IterInv
  <2> QED BY <2>4, <2>5
<1>3. ASSUME NEW t \in Notifier, Call(t) PROVE IterInv'
  <2>1. /\ npc[t] = "call" /\ UNCHANGED <<callbacks, key, todo, cur, cbs>>
        /\ cur[t] \in Ns \ todo[t] /\ <<key[t], cur[t]>> \in Matches
        /\ cbs[t] = callbacks[cur[t]] /\ Len(cbs[t]) \in Nat
        /\ called[t][cur[t]] \in Nat /\ idx[t] \in Nat
        /\ called[t][cur[t]] + 1 = idx[t] /\ idx[t] <= Len(cbs[t]) + 1
    <3>1. npc[t] = "call" /\ UNCHANGED <<callbacks, key, todo, cur, cbs>>
      BY Zenon, <1>3 DEF Call
    <3>2. /\ cur[t] \in Ns \ todo[t] /\ <<key[t], cur[t]>> \in Matches
          /\ cbs[t] = callbacks[cur[t]]
          /\ called[t][cur[t]] + 1 = idx[t] /\ idx[t] <= Len(cbs[t]) + 1
      BY Zenon, <1>0, <3>1 DEF Reached, IterInv
    <3>3. /\ cbs[t] \in Seq(Caller) /\ called[t][cur[t]] \in Nat /\ idx[t] \in Nat
      BY <1>0, <3>2 DEF StoreTypeOK
    <3>4. Len(cbs[t]) \in Nat
      BY <3>3
    <3> QED BY Zenon, <3>1, <3>2, <3>3, <3>4
  <2>2. CASE idx[t] <= Len(cbs[t])
    <3>1. /\ called' = [called EXCEPT ![t][cur[t]] = @ + 1]
          /\ idx' = [idx EXCEPT ![t] = @ + 1]
          /\ npc'[t] \in {"call", "lock"}
          /\ \A u \in Notifier \ {t} : npc'[u] = npc[u]
      BY <1>0, <1>3, <2>2 DEF Call, Within, StoreTypeOK
    <3>2. /\ idx'[t] = idx[t] + 1 /\ called'[t][cur[t]] = called[t][cur[t]] + 1
          /\ \A n \in Ns \ {cur[t]} : called'[t][n] = called[t][n]
          /\ \A u \in Notifier \ {t} : called'[u] = called[u] /\ idx'[u] = idx[u]
      BY <1>0, <2>1, <3>1 DEF StoreTypeOK
    <3>3. idx'[t] <= Len(cbs[t]) + 1 /\ called'[t][cur[t]] + 1 = idx'[t]
      <4>1. /\ idx[t] \in Nat /\ Len(cbs[t]) \in Nat /\ called[t][cur[t]] + 1 = idx[t]
            /\ idx'[t] = idx[t] + 1 /\ called'[t][cur[t]] = called[t][cur[t]] + 1
        BY Zenon, <2>1, <3>2
      <4> DEFINE i == idx[t]
                 j == idx'[t]
                 l == Len(cbs[t])
                 a == called[t][cur[t]]
                 b == called'[t][cur[t]]
      <4>2. i \in Nat /\ l \in Nat /\ a + 1 = i /\ j = i + 1 /\ b = a + 1 /\ i <= l
        BY Zenon, <2>2, <4>1
      <4> HIDE DEF i, j, l, a, b
      <4>3. j <= l + 1 /\ b + 1 = j
        BY ONLY <4>2
      <4> QED BY <4>3 DEF i, j, l, a, b
    <3>4. \A n \in todo[t] : n \in Ns /\ n # cur[t]
      BY <1>0, <2>1 DEF StoreTypeOK
    <3>5. Reached(t)'
      <4>1. Reached(t)
        BY <1>0 DEF IterInv
      <4>2. \A n : Want(t, n)' = Want(t, n)
        BY Zenon, <2>1 DEF Want
      <4>3. \A n \in todo[t] : called'[t][n] = called[t][n]
        BY Zenon, <3>2, <3>4
      <4>4. npc[t] = "call" /\ todo' = todo
        BY Zenon, <2>1
      <4>5. \A n \in Ns \ (todo[t] \cup {cur[t]}) : called'[t][n] = Want(t, n)
        BY Zenon, <2>1, <3>2, <4>1 DEF Reached
      <4>6. \A n \in todo'[t] : called'[t][n] = 0
        BY Zenon, <4>1, <4>3, <4>4 DEF Reached
      <4>7. \A n \in Ns \ (todo'[t] \cup {cur'[t]}) : called'[t][n] = Want(t, n)'
        BY Zenon, <2>1, <4>2, <4>5
      <4>8. /\ cur'[t] \in Ns \ todo'[t] /\ <<key'[t], cur'[t]>> \in Matches
            /\ cbs'[t] = callbacks'[cur'[t]]
            /\ called'[t][cur'[t]] + 1 = idx'[t] /\ idx'[t] <= Len(cbs'[t]) + 1
        BY Zenon, <2>1, <3>3
      <4>9. npc'[t] \in {"call", "lock"}
        BY <3>1
      <4> QED BY <4>6, <4>7, <4>8, <4>9 DEF Reached
    <3>6. ASSUME NEW u \in Notifier \ {t} PROVE Reached(u)'
      <4>1. Reached(u)
        BY <1>0 DEF IterInv
      <4>2. called'[u] = called[u] /\ idx'[u] = idx[u] /\ npc'[u] = npc[u]
        BY <3>1, <3>2
      <4>3. UNCHANGED <<callbacks, key, todo, cur, cbs>>
        BY <2>1
      <4> QED BY Zenon, <4>1, <4>2, <4>3, SameReached
    <3> QED BY <3>5, <3>6 DEF IterInv
  <2>3. CASE ~(idx[t] <= Len(cbs[t]))
    <3>1. UNCHANGED <<called, idx>> /\ npc' = [npc EXCEPT ![t] = "iter"]
      BY <1>3, <2>3 DEF Call
    <3>2. npc'[t] = "iter" /\ \A u \in Notifier \ {t} : npc'[u] = npc[u]
      BY <1>0, <3>1 DEF StoreTypeOK
    <3>3. ASSUME NEW u \in Notifier \ {t} PROVE Reached(u)'
      <4>1. Reached(u) /\ npc'[u] = npc[u]
        BY <1>0, <3>2 DEF IterInv
      <4>2. UNCHANGED <<callbacks, key, todo, cur, cbs, called, idx>>
        BY <2>1, <3>1
      <4> QED BY <4>1, <4>2 DEF Reached, Want
    <3>4. Reached(t)'
      <4>1. /\ \A n \in todo[t] : called[t][n] = 0
            /\ \A n \in Ns \ (todo[t] \cup {cur[t]}) : called[t][n] = Want(t, n)
        BY Zenon, <1>0, <2>1 DEF Reached, IterInv
      <4>2. called[t][cur[t]] = Len(cbs[t])
        <5>1. /\ idx[t] \in Nat /\ Len(cbs[t]) \in Nat /\ called[t][cur[t]] \in Nat
              /\ called[t][cur[t]] + 1 = idx[t] /\ idx[t] <= Len(cbs[t]) + 1
          BY Zenon, <2>1
        <5> QED BY ONLY <2>3, <5>1
      <4>3. /\ called[t][cur[t]] = Want(t, cur[t])
            /\ \A n \in Ns : Want(t, n)' = Want(t, n)
        BY <2>1, <4>2 DEF Want
      <4> QED BY <2>1, <3>1, <3>2, <4>1, <4>3 DEF Reached
    <3> QED BY <3>3, <3>4 DEF IterInv
  <2> QED BY <2>2, <2>3
<1>4. ASSUME NEW t \in Notifier, Return(t) PROVE IterInv'
  <2>1. /\ UNCHANGED <<callbacks, key, todo, cur, cbs, idx, called>>
        /\ npc' = [npc EXCEPT ![t] = "idle"]
    BY Zenon, <1>4 DEF Return, iter
  <2>2. npc'[t] = "idle" /\ \A u \in Notifier \ {t} : npc'[u] = npc[u]
    BY <1>0, <2>1 DEF StoreTypeOK
  <2>3. Reached(t)'
    BY <2>2 DEF Reached
  <2>4. ASSUME NEW u \in Notifier \ {t} PROVE Reached(u)'
    <3>1. Reached(u) /\ npc'[u] = npc[u]
      BY <1>0, <2>2 DEF IterInv
    <3> QED BY <2>1, <3>1 DEF Reached, Want
  <2> QED BY <2>3, <2>4 DEF IterInv
<1>5. ASSUME UNCHANGED <<callbacks, npc, iter>> PROVE IterInv'
  <2>1. UNCHANGED <<callbacks, npc, key, todo, cur, cbs, idx, called>>
    BY Zenon, <1>5 DEF iter
  <2> QED BY <1>0, <2>1 DEF Reached, IterInv, Want
<1>6. ASSUME NEW c \in Caller, Lock(c) \/ Locked(c) \/ Extend(c)
      PROVE  UNCHANGED <<callbacks, npc, iter>>
  BY Zenon, <1>6 DEF Lock, Locked, Extend
<1>7. CASE UNCHANGED storeVars
  BY Zenon, <1>5, <1>7 DEF storeVars
<1>8. ASSUME NEW c \in Caller, Store(c) PROVE IterInv'
  <2>1. \A t \in Notifier : npc[t] \notin {"iter", "call", "lock"}
    BY <1>0, <1>8 DEF Store, LockInv
  <2>2. \A t \in Notifier : npc'[t] = IF npc[t] = "wait" THEN "iter" ELSE npc[t]
    BY <1>0, <1>8 DEF Store, LockInv, StoreTypeOK
  <2>3. \A t \in Notifier : npc[t] = "wait" => Ns \ todo[t] = {}
    BY Zenon, <1>0 DEF Reached, IterInv
  <2> QED BY <1>0, <1>8, <2>1, <2>2, <2>3 DEF Store, Reached, IterInv, iter
<1>9. ASSUME NEW t \in Notifier, Reenter(t) PROVE UNCHANGED <<callbacks, npc, iter>>
  BY Zenon, <1>9 DEF Reenter
<1> QED
  BY <1>1, <1>2, <1>3, <1>4, <1>5, <1>6, <1>7, <1>8, <1>9 DEF StoreNext,
     NotifierNext, Going, CallerNext

\* Every step keeps what is registered, and what is about to be.
LEMMA RegStep == StoreInv /\ [StoreNext]_storeVars => RegInv'
<1> SUFFICES ASSUME StoreInv, [StoreNext]_storeVars PROVE RegInv'
  OBVIOUS
<1>0. StoreTypeOK /\ LockInv /\ IterInv /\ RegInv
  BY DEF StoreInv
<1>1. CASE UNCHANGED <<callbacks, reg>>
  BY <1>0, <1>1 DEF RegInv, Registered, reg
<1>2. ASSUME NEW c \in Caller, Lock(c) \/ Locked(c) PROVE RegInv'
  BY Zenon, <1>0, <1>2 DEF Lock, Locked, StoreTypeOK, RegInv, Registered
<1>3. ASSUME NEW c \in Caller, Extend(c) PROVE RegInv'
  BY Zenon, <1>0, <1>3 DEF Extend, StoreTypeOK, RegInv, Registered
<1>4. ASSUME NEW c \in Caller, Store(c) PROVE RegInv'
  <2> DEFINE old == callbacks[ns[c]]
             new == callbacks'[ns[c]]
  <2>1. /\ new = Append(old, c) /\ old \in Seq(Caller)
        /\ \A n \in Ns \ {ns[c]} : callbacks'[n] = callbacks[n]
        /\ ns' = ns /\ app' = app
        /\ \A d \in Caller : rpc'[d] = IF d = c THEN "done" ELSE rpc[d]
    BY SMTT(30), <1>0, <1>4 DEF Store, StoreTypeOK, RegInv
  <2>2. \A d \in Caller \ {c} : rpc[d] # "store"
    BY <1>0, <1>4 DEF Store, LockInv
  <2>3. /\ Len(new) = Len(old) + 1 /\ new[Len(old) + 1] = c /\ Len(old) \in Nat
        /\ \A i \in 1..Len(old) : new[i] = old[i]
    BY <2>1
  <2>4. ASSUME NEW d \in Caller, rpc'[d] = "done"
        PROVE \E i \in 1..Len(callbacks'[ns'[d]]) : callbacks'[ns'[d]][i] = d
    <3>1. CASE d = c
      BY SMTT(20), <2>1, <2>3, <3>1
    <3>2. CASE d # c /\ ns[d] = ns[c]
      <4>1. PICK i \in 1..Len(old) : old[i] = d
        BY <1>0, <2>1, <2>4, <3>2 DEF RegInv, Registered
      <4>2. i \in 1..Len(new) /\ new[i] = d
        BY <2>3, <4>1
      <4> QED BY <2>1, <3>2, <4>2
    <3>3. CASE d # c /\ ns[d] # ns[c]
      BY ZenonT(30), <1>0, <2>1, <2>4, <3>3 DEF RegInv, Registered, StoreTypeOK
    <3> QED BY <3>1, <3>2, <3>3
  <2> QED BY <1>0, <2>1, <2>2, <2>4 DEF RegInv, Registered
<1>5. ASSUME NEW t \in Notifier, NotifierNext(t)
      PROVE  UNCHANGED <<callbacks, reg>>
  BY <1>5 DEF NotifierNext, Going, Notify, Entry, Call, Reenter, Return
<1>6. UNCHANGED storeVars => UNCHANGED <<callbacks, reg>>
  BY DEF storeVars
<1> QED BY <1>1, <1>2, <1>3, <1>4, <1>5, <1>6 DEF StoreNext, CallerNext

\* The invariant holds in every reachable state.
THEOREM StoreInvariance == StoreSpec => []StoreInv
<1>1. StoreInv /\ [StoreNext]_storeVars => StoreInv'
  BY StoreTypes, LockStep, IterStep, RegStep DEF StoreInv
<1> QED BY InitStore, <1>1, PTL DEF StoreSpec

\* The variables of the provider keep their types, for all constants.
THEOREM StoreTypeCorrect == StoreSpec => []StoreTypeOK
<1>1. StoreInv => StoreTypeOK
  BY DEF StoreInv
<1> QED BY StoreInvariance, <1>1, PTL

\* A notification has called the callbacks of the key's prefixes, each once, and
\* no other, when it returns.
THEOREM NotifiesExactly == StoreSpec => []CalledExactly
<1>1. StoreInv => CalledExactly
  BY Zenon DEF StoreInv, Reached, IterInv, CalledExactly, Want
<1> QED BY StoreInvariance, <1>1, PTL

\* No registration is lost to another.
THEOREM NoneLost == StoreSpec => []Registered
<1>1. StoreInv => Registered
  BY DEF StoreInv, RegInv
<1> QED BY StoreInvariance, <1>1, PTL

\* The map does not change under an iteration.
THEOREM IterationsUndisturbed == StoreSpec => MapFixed
<1> DEFINE Fixed == callbacks' # callbacks =>
                      \A t \in Notifier : npc[t] \in {"idle", "wait"}
<1>1. StoreInv /\ [StoreNext]_storeVars => [Fixed]_storeVars
  <2> SUFFICES ASSUME StoreInv, StoreNext, callbacks' # callbacks
               PROVE \A t \in Notifier : npc[t] \in {"idle", "wait"}
    OBVIOUS
  <2>1. PICK c \in Caller : Store(c)
    BY DEF StoreNext, NotifierNext, Going, CallerNext, Notify, Entry, Call, Reenter,
       Return, Lock, Locked, Extend
  <2>2. readers = {}
    BY <2>1 DEF Store, StoreInv, LockInv
  <2> QED BY <2>2 DEF StoreInv, LockInv, StoreTypeOK
<1>2. StoreSpec => [][Fixed]_storeVars
  BY StoreInvariance, <1>1, PTL DEF StoreSpec
<1> QED BY <1>2 DEF MapFixed
=============================================================================
