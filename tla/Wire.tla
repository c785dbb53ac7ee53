-------------------------------- MODULE Wire --------------------------------
(***************************************************************************)
(* The wire formats: the payload of a RouteMessage (core/route_message.go),*)
(* its frame (core/framing.go) and the frame of direct RPC, whose reader   *)
(* is a different one (rpc/stub_server.go).  One connection carries frames *)
(* in one direction: the writer hands each to one conn.Write, the network  *)
(* delivers the bytes in chunks of its own choosing and may end at any     *)
(* byte.                                                                   *)
(*                                                                         *)
(* An integer is Width digits of base Base, 4 bytes of 256 values in the   *)
(* code.  A pointer that may be nil is a set of at most one value.         *)
(***************************************************************************)
EXTENDS Integers, Sequences, SequencesExt

CONSTANTS
  Base,         \* values of a byte
  Width,        \* bytes of an integer
  MaxFrameSize, \* longest payload core.ReadFrame accepts
  MaxRpcFrame,  \* longest payload readRpcFrame accepts
  Messages,     \* RouteMessages of a peer; its strings are sequences of bytes
  RpcPayload,   \* payloads of direct RPC
  MaxSent       \* bound: frames written

Byte == 0..(Base - 1)

\* Base to the power of k; an unsigned integer is below Limit.
Power[k \in 0..Width] == IF k = 0 THEN 1 ELSE Base * Power[k - 1]

Limit == Power[Width]

ASSUME WireAssumption ==
  /\ Base \in Nat \ {0, 1} /\ Width \in Nat \ {0} /\ MaxSent \in Nat
  /\ MaxFrameSize \in Nat /\ MaxRpcFrame \in Nat

LastType == 5  \* RouteMessageTypeSystemError

VARIABLES
  reader,  \* which reader this connection has: "core" or "rpc"
  sent,    \* what was written, in order
  stream,  \* bytes written and not yet read
  arrived, \* how many of them the reader's host has received
  eof,     \* the connection has ended after them
  pc,      \* the reader: "length", "body" or "closed"
  need,    \* the length it has read
  got,     \* the payloads it has returned
  short    \* it has taken a part of a length for the whole

wireVars == <<reader, sent, stream, arrived, eof, pc, need, got, short>>

-----------------------------------------------------------------------------
(* Integers, EncodePayload and DecodeRouteMessagePayload.  A RouteMessage  *)
(* is a record of from, to, type and data; type and data may be nil.       *)

\* n as an unsigned integer, shifted to the right by k bytes.
Shifted(n) ==
  LET shifted[k \in 0..Width] ==
        IF k = 0 THEN n % Limit ELSE shifted[k - 1] \div Base
  IN  shifted

Int32(n) == [i \in 1..Width |-> Shifted(n)[Width - i] % Base]

\* The value of the first i bytes.
Value(digits) ==
  LET value[i \in 0..Width] ==
        IF i = 0 THEN 0 ELSE value[i - 1] * Base + digits[i]
  IN  value

Unsigned(digits) == Value(digits)[Width]

Signed(digits) ==
  LET u == Unsigned(digits)
  IN  IF 2 * u >= Limit THEN u - Limit ELSE u

String32(s) == Int32(Len(s)) \o s

DataField(data) ==
  IF data = {} THEN Int32(-1) ELSE String32(CHOOSE s \in data : TRUE)

EncodePayload(m) ==
  String32(m.from) \o String32(m.to)
    \o Int32(IF m.type = {} THEN -1 ELSE CHOOSE t \in m.type : TRUE)
    \o DataField(m.data)

\* A reader of a payload: the value read last and the bytes that are left.
At(val, rest) == [ok |-> TRUE, val |-> val, rest |-> rest]
Fail == [ok |-> FALSE, val |-> 0, rest |-> <<>>]

\* Variant: the error of binary.Read is ignored at the end of the payload.
readInt32_Eof(r) ==
  IF r.ok /\ Len(r.rest) >= Width
  THEN At(Signed(SubSeq(r.rest, 1, Width)),
          SubSeq(r.rest, Width + 1, Len(r.rest)))
  ELSE [r EXCEPT !.val = 0]

readInt32(r) ==
  IF r.ok /\ Len(r.rest) >= Width
  THEN At(Signed(SubSeq(r.rest, 1, Width)),
          SubSeq(r.rest, Width + 1, Len(r.rest)))
  ELSE Fail

\* io.ReadFull of as many bytes as were announced.
readString(r) ==
  IF r.ok /\ r.val \in 0..Len(r.rest)
  THEN At(SubSeq(r.rest, 1, r.val), SubSeq(r.rest, r.val + 1, Len(r.rest)))
  ELSE Fail

\* The check for an extra length prefix.  It compares with the bytes left
\* after the prefix less another Width, so a real extra prefix is kept.
SkipPrefix(payload) ==
  LET r == readInt32(At(0, payload))
  IN  IF r.ok /\ r.val = Len(r.rest) - Width THEN r ELSE At(0, payload)

RouteMessageTypeFromOrdinal(v) == IF v \in 0..LastType THEN {v} ELSE {}

\* The message, or {} for an error.
Decode(payload) ==
  LET from == readString(readInt32(SkipPrefix(payload)))
      to   == readString(readInt32(from))
      type == readInt32(to)
      len  == readInt32(type)
      data == IF len.val < 0 THEN len ELSE readString(len)
  IN  IF payload # <<>> /\ data.ok
      THEN {[from |-> from.val, to |-> to.val,
             type |-> RouteMessageTypeFromOrdinal(type.val),
             data |-> IF len.val < 0 THEN {} ELSE {data.val}]}
      ELSE {}

-----------------------------------------------------------------------------
(* The writer.  A peer of core may put the length in front of the payload  *)
(* a second time.                                                          *)

Item == [message : Messages, extra : BOOLEAN]

Payload(x) ==
  IF reader = "rpc" THEN x
  ELSE LET p == EncodePayload(x.message)
       IN  IF x.extra THEN String32(p) ELSE p

EncodeFrame(payload) == String32(payload)

\* A message is a struct of strings and pointers, and no string comes near
\* the largest integer: the code writes lengths without a look at them.
ASSUME PayloadAssumption ==
  /\ \A m \in Messages :
       /\ m \in [from : Seq(Byte), to : Seq(Byte), type : SUBSET Nat,
                 data : SUBSET Seq(Byte)]
       /\ \A t, u \in m.type : t = u /\ 2 * t < Limit
       /\ \A s, t \in m.data : s = t
       /\ 2 * Len(EncodePayload(m)) < Limit - 2 * Width
  /\ RpcPayload \subseteq Seq(Byte)
  /\ \A p \in RpcPayload : Len(p) < Limit

Init ==
  /\ reader \in {"core", "rpc"}
  /\ sent = <<>> /\ stream = <<>> /\ got = <<>>
  /\ arrived = 0 /\ need = 0
  /\ eof = FALSE /\ short = FALSE
  /\ pc = "length"

WriteFrame ==
  /\ Len(sent) < MaxSent /\ ~eof
  /\ \E x \in IF reader = "core" THEN Item ELSE RpcPayload :
       /\ sent' = Append(sent, x)
       /\ stream' = stream \o EncodeFrame(Payload(x))
  /\ UNCHANGED <<reader, arrived, eof, pc, need, got, short>>

-----------------------------------------------------------------------------
(* The network.                                                            *)

Arrive ==
  /\ ~eof
  /\ arrived' \in (arrived + 1)..Len(stream)
  /\ UNCHANGED <<reader, sent, stream, eof, pc, need, got, short>>

\* The connection is lost or closed; what has arrived can still be read.
End ==
  /\ ~eof
  /\ eof' = TRUE
  /\ stream' = SubSeq(stream, 1, arrived)
  /\ UNCHANGED <<reader, sent, arrived, pc, need, got, short>>

-----------------------------------------------------------------------------
(* The readers.                                                            *)

Consume(n) ==
  /\ stream' = SubSeq(stream, n + 1, Len(stream))
  /\ arrived' = arrived - n

\* Variant: the length is read with one Read, as in readRpcFrame.
ReadFull_Once(n) == arrived > 0

ReadFull(n) == arrived >= n

\* Variant: there is no limit.
CoreLength_Any(n) == TRUE

\* Variant: the limit itself is refused.
CoreLength_Below(n) == n < MaxFrameSize

CoreLength(n) == n <= MaxFrameSize

\* Variant: only the upper limit is tested.
RpcLength_Upper(n) == n <= MaxRpcFrame

RpcLength(n) == n > 0 /\ n <= MaxRpcFrame

\* One conn.Read into a zeroed buffer: as many bytes as are there, one at
\* least.
ReadOnce == IF arrived < Width THEN arrived ELSE Width

\* The length of k bytes that were read, the rest of the buffer being zero.
Length(k) == Unsigned([i \in 1..Width |-> IF i <= k THEN stream[i] ELSE 0])

\* The range check; out of range ends the reader, and with it the connection.
Accept(n, ok) ==
  IF ok THEN need' = n /\ pc' = "body"
        ELSE need' = 0 /\ pc' = "closed"

CoreReadLength ==
  LET k == ReadOnce IN
  /\ reader = "core" /\ pc = "length"
  /\ ReadFull(Width)
  /\ Accept(Length(k), CoreLength(Length(k)))
  /\ Consume(k)
  /\ UNCHANGED <<reader, sent, eof, got, short>>

RpcReadLength ==
  LET k == ReadOnce IN
  /\ reader = "rpc" /\ pc = "length"
  /\ k > 0
  /\ Accept(Length(k), RpcLength(Length(k)))
  /\ Consume(k)
  /\ short' = (short \/ k < Width)
  /\ UNCHANGED <<reader, sent, eof, got>>

ReadBody ==
  /\ pc = "body"
  /\ arrived >= need
  /\ got' = Append(got, SubSeq(stream, 1, need))
  /\ Consume(need)
  /\ pc' = "length" /\ need' = 0
  /\ UNCHANGED <<reader, sent, eof, short>>

\* EOF where more was needed.
ReadEof ==
  /\ eof
  /\ \/ pc = "length" /\ arrived < (IF reader = "core" THEN Width ELSE 1)
     \/ pc = "body" /\ arrived < need
  /\ pc' = "closed" /\ need' = 0
  /\ UNCHANGED <<reader, sent, stream, arrived, eof, got, short>>

Read == CoreReadLength \/ RpcReadLength \/ ReadBody \/ ReadEof

Next == WriteFrame \/ Arrive \/ End \/ Read

\* A byte that was written arrives unless the connection ends, and the
\* goroutine that reads is scheduled.
Spec == Init /\ [][Next]_wireVars /\ WF_wireVars(Arrive) /\ WF_wireVars(Read)

-----------------------------------------------------------------------------
(* Properties.                                                             *)

\* The state of the two ends.  That need is a length some reader accepts is
\* what keeps the buffer that is made for it within its limit.
TypeOK ==
  /\ reader \in {"core", "rpc"} /\ pc \in {"length", "body", "closed"}
  /\ eof \in BOOLEAN /\ short \in BOOLEAN
  /\ Len(sent) <= MaxSent
  /\ arrived \in 0..Len(stream)
  /\ need \in 0..(IF reader = "core" THEN MaxFrameSize ELSE MaxRpcFrame)
  /\ \A p \in Range(got) : p \in Seq(Byte)

\* However the bytes are cut into chunks and wherever the connection ends,
\* the payloads ReadFrame returns are those that were written, in order,
\* whole and none twice.
FramesArriveWhole ==
  reader = "core" =>
    /\ Len(got) <= Len(sent)
    /\ \A i \in DOMAIN got : got[i] = Payload(sent[i])

\* readRpcFrame may take a part of a length for all of it.  As long as the
\* payloads are shorter than Base bytes, 256 in the code, what it makes of
\* the part is zero and ends the connection: a wrong payload is handed to
\* the JSON decoder only where a longer one was written.
OnlyLongFramesAreMisread ==
  reader = "rpc" /\ (\A p \in Range(sent) : Len(p) < Base) =>
    /\ Len(got) <= Len(sent)
    /\ \A i \in DOMAIN got : got[i] = sent[i]
    /\ short => pc = "closed"

\* The receiver of a message, types it does not know being nil to it.
Known(m) ==
  [m EXCEPT !.type = m.type \cap 0..LastType]

\* What DecodeRouteMessagePayload returns is the message that was encoded:
\* its check for an extra length never skips the length of a sender's id,
\* and nil stays different from empty.  A message with an extra length in
\* front is understood or refused, never taken for another one.
MessagesAreUnderstood ==
  reader = "core" =>
    \A i \in DOMAIN got :
      Decode(got[i]) \in IF sent[i].extra
                         THEN {{}, {Known(sent[i].message)}}
                         ELSE {{Known(sent[i].message)}}

\* What the comments of DecodeRouteMessagePayload say of its check: an extra
\* length in front of a message is skipped.
ExtraPrefixIsSkipped ==
  reader = "core" =>
    \A i \in DOMAIN got :
      sent[i].extra => Decode(got[i]) = {Known(sent[i].message)}

\* Every frame within the limit is read in the end, unless the connection
\* ends or a frame before it is beyond the limit.
EverythingIsRead ==
  \A n \in 1..MaxSent :
    (reader = "core" /\ Len(sent) >= n
       /\ \A i \in 1..n : Len(Payload(sent[i])) <= MaxFrameSize)
      ~> (Len(got) >= n \/ eof)

=============================================================================
