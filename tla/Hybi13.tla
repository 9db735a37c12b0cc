------------------------------- MODULE Hybi13 -------------------------------
(***************************************************************************)
(* The frames of a websocket (RFC 6455, version 13) as the library under   *)
(* FX4Src/websocketpp writes and reads them: hybi13::prepare_data_frame,   *)
(* prepare_control and prepare_close on the sending side, and on the       *)
(* receiving side the state machine hybi13::consume, called from           *)
(* connection::handle_read_frame with whatever number of bytes a read of   *)
(* the socket has returned.                                                *)
(*                                                                         *)
(* Bytes are bytes: a header is cut at any place, a payload is masked with *)
(* a key that is carried on from one read to the next, text goes through   *)
(* the table of utf8_validator.hpp.  What is left out is compression       *)
(* (permessage_deflate is disabled in config::asio_client).                *)
(***************************************************************************)
EXTENDS Integers, Sequences, FiniteSets, TLC
LOCAL INSTANCE Bitwise
LOCAL INSTANCE SequencesExt

CONSTANTS
  Servers,         \* which ends are looked at: TRUE a server's, FALSE a client's
  Keys,            \* masking keys the random generator may give, of 4 bytes
  Sendable,        \* frames the other end prepares: [op, payload, fin]
  Foreign,         \* frames another implementation sends, of the same form
  Broken,          \* what no frame begins with: the first byte, the size field,
                   \* the extended length, whether the mask bit is wrong, and the
                   \* close code it deserves
  CloseCodes,      \* codes given to prepare_close
  MaxMessageSize,  \* m_max_message_size
  MaxFrames,       \* bounds: frames in one behaviour, and their bytes; after
  MaxBytes,        \* what is no frame nothing more is sent
  MaxRead          \* bound: a read takes up to so many bytes, or all there are

Byte == 0..255
IsFrame(f) == /\ f.op \in 0..15 /\ f.payload \in Seq(Byte) /\ f.fin \in BOOLEAN

ASSUME ConstAssumption ==
  /\ Servers \subseteq BOOLEAN /\ Servers # {}
  /\ \A k \in Keys : k \in Seq(Byte) /\ Len(k) = 4
  /\ \A f \in Sendable \cup Foreign : IsFrame(f)
  /\ \A g \in Broken : /\ g.b0 \in Byte /\ g.size \in 0..127 /\ g.ext \in Seq(Byte)
                       /\ g.unmask \in BOOLEAN /\ g.code \in Nat \ {0}
  /\ CloseCodes \subseteq 0..65535
  /\ MaxMessageSize \in Nat /\ MaxFrames \in Nat
  /\ MaxBytes \in Nat /\ MaxRead \in Nat

CONTINUATION == 0
TEXT         == 1
CLOSE        == 8
IsControl(op)   == op >= 8                        \* opcode::is_control
IsReserved(op)  == op \in 3..7 \cup 11..15        \* opcode::reserved
payload_size_basic    == 125
payload_size_extended == 65535
code16 == 126
code64 == 127

protocol_error          == 1002
no_status               == 1005
abnormal_close          == 1006
invalid_payload         == 1007
message_too_big         == 1009
internal_endpoint_error == 1011
tls_handshake           == 1015

-----------------------------------------------------------------------------
(* Sending: frame.hpp's header constructors, and the hybi13 prepare calls. *)

\* basic_header(op, size, fin, mask)
BasicSize(size) == IF size <= payload_size_basic THEN size
                   ELSE IF size <= payload_size_extended THEN code16 ELSE code64

BasicHeader(op, size, fin, masked) ==
  << (IF fin THEN 128 ELSE 0) + op, (IF masked THEN 128 ELSE 0) + BasicSize(size) >>

\* copy_payload: big-endian, in as many bytes as the size calls for.  Sizes are
\* below 2^31 here, so the upper half of a 64 bit length is zero.
SizeBytes(size) ==
  LET n == CASE BasicSize(size) = code16 -> 2 [] BasicSize(size) = code64 -> 8 [] OTHER -> 0
  IN [i \in 1..n |-> IF n - i > 3 THEN 0 ELSE (size \div 256^(n - i)) % 256]

\* byte_mask with the key starting at its first byte.
XorOf == [b \in Byte, k \in {0} \cup UNION {{key[i] : i \in 1..4} : key \in Keys} |-> b ^^ k]
ByteMask(bytes, key) == [i \in 1..Len(bytes) |-> XorOf[bytes[i], key[((i - 1) % 4) + 1]]]

Prepared(op, payload, fin, masked, key) ==
  BasicHeader(op, Len(payload), fin, masked) \o SizeBytes(Len(payload))
    \o (IF masked THEN key \o ByteMask(payload, key) ELSE payload)

\* close::status::reserved and invalid
ReservedCode(code) == code \in 1016..2999 \cup {1004}
InvalidCode(code)  == \/ code <= 999 \/ code >= 5000
                      \/ code \in {no_status, abnormal_close, tls_handshake}

\* prepare_close refuses the codes that must not be on the wire; no_status is
\* sent as an empty payload.
InvalidOnly(code)  == ~InvalidCode(code) \/ code = no_status         \* mutant
MaySendCode(code)  == ~ReservedCode(code) /\ (InvalidCode(code) => code = no_status)
ClosePayload(code) == IF code = no_status THEN <<>> ELSE << code \div 256, code % 256 >>

-----------------------------------------------------------------------------
(***************************************************************************)
(* utf8_validator: the classes utf8d gives to the bytes, and the part of   *)
(* the table with the transitions, rows being states and columns classes.  *)
(***************************************************************************)
utf8_accept == 0
utf8_reject == 1
Utf8Class(b) ==
  CASE b <= 127 -> 0               [] b \in 128..143 -> 1  [] b \in 144..159 -> 9
    [] b \in 160..191 -> 7         [] b \in 192..193 -> 8  [] b \in 194..223 -> 2
    [] b = 224 -> 10               [] b = 237 -> 4         [] b \in 225..239 -> 3
    [] b = 240 -> 11               [] b \in 241..243 -> 6  [] b = 244 -> 5
    [] OTHER -> 8

\* From each state, the classes that lead somewhere else than to utf8_reject.
Utf8Next(s, c) ==
  CASE s = 0 /\ c = 0 -> 0  [] s = 0 /\ c = 2 -> 2  [] s = 0 /\ c = 3 -> 3
    [] s = 0 /\ c = 4 -> 5  [] s = 0 /\ c = 5 -> 8  [] s = 0 /\ c = 6 -> 7
    [] s = 0 /\ c = 10 -> 4 [] s = 0 /\ c = 11 -> 6
    [] s = 2 /\ c \in {1, 7, 9} -> 0
    [] s = 3 /\ c \in {1, 7, 9} -> 2
    [] s = 4 /\ c = 7 -> 2
    [] s = 5 /\ c \in {1, 9} -> 2
    [] s = 6 /\ c \in {7, 9} -> 3
    [] s = 7 /\ c \in {1, 7, 9} -> 3
    [] s = 8 /\ c = 1 -> 3
    [] OTHER -> utf8_reject

\* validator::decode goes on from the state it is in, and stops at a reject.
Decode(s, bytes) ==
  FoldLeft(LAMBDA u, b : IF u = utf8_reject THEN u ELSE Utf8Next(u, Utf8Class(b)), s, bytes)

-----------------------------------------------------------------------------
VARIABLES
  server,     \* base::m_server of the end that reads
  wire,       \* bytes sent and not yet read
  proc,       \* the hybi13 object
  closing,    \* the close code the processor's error led to, 0 before that
  delivered,  \* messages handed on by handle_read_frame, in order
  \* history
  sent,       \* the frames, as the sender sees them
  taken       \* bytes read so far

vars == <<server, wire, proc, closing, delivered, sent, taken>>

NoMsg == [op |-> -1, payload |-> <<>>, key |-> <<0, 0, 0, 0>>, utf8 |-> utf8_accept]

\* reset_headers.  The headers are kept as the bytes there are of them so far.
Reset(p) == [p EXCEPT !.state = "HEADER_BASIC", !.needed = 2, !.basic = <<>>, !.ext = <<>>]

NewProcessor == [state |-> "HEADER_BASIC", needed |-> 2, basic |-> <<>>, ext |-> <<>>,
                 data |-> NoMsg, control |-> NoMsg, current |-> "data"]

\* frame.hpp's getters.
Fin(p)         == p.basic[1] \div 128 = 1
Rsv(p)         == (p.basic[1] \div 16) % 8 # 0
Op(p)          == p.basic[1] % 16
Masked(p)      == p.basic[2] \div 128 = 1
SizeField(p)   == p.basic[2] % 128
KeyOffset(p)   == CASE SizeField(p) = code16 -> 2 [] SizeField(p) = code64 -> 8 [] OTHER -> 0
ExtendedLen(p) == KeyOffset(p) + (IF Masked(p) THEN 4 ELSE 0)
PayloadSize(p) == IF KeyOffset(p) = 0 THEN SizeField(p)
                  ELSE FoldLeft(LAMBDA v, b : v * 256 + b, 0, SubSeq(p.ext, 1, KeyOffset(p)))
MaskingKey(p)  == IF Masked(p) THEN SubSeq(p.ext, KeyOffset(p) + 1, KeyOffset(p) + 4)
                  ELSE <<0, 0, 0, 0>>

(***************************************************************************)
(* The checks.  Each gives the close code that processor::error::to_ws has *)
(* for the error, or 0.                                                    *)
(***************************************************************************)
CheckBasicHeader(p) ==
  LET op == Op(p)
      newMsg == p.data.op = -1
  IN IF \/ IsControl(op) /\ (SizeField(p) > payload_size_basic \/ ~Fin(p))
        \/ Rsv(p) \/ IsReserved(op)
        \/ newMsg /\ op = CONTINUATION
        \/ ~newMsg /\ ~IsControl(op) /\ op # CONTINUATION
        \/ server # Masked(p)
     THEN protocol_error ELSE 0

\* non_minimal_encoding has no case of its own in to_ws.
CheckExtendedHeader(p) ==
  IF \/ SizeField(p) = code16 /\ PayloadSize(p) <= payload_size_basic
     \/ SizeField(p) = code64 /\ PayloadSize(p) <= payload_size_extended
  THEN internal_endpoint_error ELSE 0

MessageTooBig(p) == PayloadSize(p) + Len(p.data.payload) > MaxMessageSize

(***************************************************************************)
(* One turn of consume's loop.  c has the processor, the bytes that are    *)
(* left of the read and the error.  Every state begins by taking what it   *)
(* needs, or what there is.                                                *)
(***************************************************************************)
Taken(c)  == IF c.proc.needed < Len(c.rest) THEN c.proc.needed ELSE Len(c.rest)
Bytes(c)  == SubSeq(c.rest, 1, Taken(c))
Left(c)   == SubSeq(c.rest, Taken(c) + 1, Len(c.rest))
Fail(c, code) == [c EXCEPT !.ec = code]

ReadBasic(c) ==
  LET p == [c.proc EXCEPT !.basic = @ \o Bytes(c), !.needed = @ - Taken(c)]
      d == [c EXCEPT !.proc = p, !.rest = Left(c)]
  IN IF p.needed > 0 THEN d
     ELSE IF CheckBasicHeader(p) # 0 THEN Fail(d, CheckBasicHeader(p))
     ELSE [d EXCEPT !.proc.state = "HEADER_EXTENDED", !.proc.ext = <<>>,
                    !.proc.needed = ExtendedLen(p)]

\* A new message gets a buffer and a validator; the next frame of one only a
\* new key.
StartFrame(p) ==
  LET q == [p EXCEPT !.state = "APPLICATION", !.needed = PayloadSize(p)]
      msg == [NoMsg EXCEPT !.op = Op(p), !.key = MaskingKey(p)]
  IN IF IsControl(Op(p)) THEN [q EXCEPT !.control = msg, !.current = "control"]
     ELSE [q EXCEPT !.data = IF @.op = -1 THEN msg ELSE [@ EXCEPT !.key = MaskingKey(p)],
                    !.current = "data"]

ReadExtended(c) ==
  LET p == [c.proc EXCEPT !.ext = @ \o Bytes(c), !.needed = @ - Taken(c)]
      d == [c EXCEPT !.proc = p, !.rest = Left(c)]
  IN IF p.needed > 0 THEN d
     ELSE IF CheckExtendedHeader(p) # 0 THEN Fail(d, CheckExtendedHeader(p))
     ELSE IF ~IsControl(Op(p)) /\ MessageTooBig(p) THEN Fail(d, message_too_big)
     ELSE [d EXCEPT !.proc = StartFrame(p)]

\* process_payload_bytes: byte_mask_circ gives back the key turned by as many
\* bytes as it has used.
Unrotated(key, n) == key                                              \* mutant
Rotated(key, n) == [i \in 1..4 |-> key[((i - 1 + n) % 4) + 1]]

Absorb(msg, bytes) ==
  LET plain == ByteMask(bytes, msg.key)
  IN [msg EXCEPT !.payload = @ \o plain,
                 !.key = Rotated(@, Len(bytes)),
                 !.utf8 = IF msg.op = TEXT THEN Decode(@, plain) ELSE @]

\* finalize_message looks at the opcode in the header it has, which is the one
\* of the last frame: CONTINUATION when a text came in fragments.
ReadPayload(c) ==
  LET msg == Absorb(c.proc.data, Bytes(c))
      ctl == Absorb(c.proc.control, Bytes(c))
      p == [c.proc EXCEPT !.needed = @ - Taken(c),
                          !.data = IF c.proc.current = "data" THEN msg ELSE @,
                          !.control = IF c.proc.current = "control" THEN ctl ELSE @]
      d == [c EXCEPT !.proc = p, !.rest = Left(c)]
  IN IF p.current = "data" /\ p.data.utf8 = utf8_reject THEN Fail(d, invalid_payload)
     ELSE IF p.needed > 0 THEN d
     ELSE IF ~Fin(p) THEN [d EXCEPT !.proc = Reset(p)]
     ELSE IF Op(p) = TEXT /\ p.data.utf8 # utf8_accept THEN Fail(d, invalid_payload)
     ELSE [d EXCEPT !.proc.state = "READY"]

GoesOn(c) == c.ec = 0 /\ c.proc.state # "READY" /\ (c.rest # <<>> \/ c.proc.needed = 0)

RECURSIVE Consume(_)
Consume(c) ==
  IF ~GoesOn(c) THEN c
  ELSE Consume(CASE c.proc.state = "HEADER_BASIC"    -> ReadBasic(c)
                 [] c.proc.state = "HEADER_EXTENDED" -> ReadExtended(c)
                 [] c.proc.state = "APPLICATION"     -> ReadPayload(c))

(***************************************************************************)
(* close::extract_code and extract_reason, of a close frame's payload: the *)
(* code, or 0 for one that process_control_frame answers with an error.    *)
(***************************************************************************)
ExtractCode(payload) ==
  LET code == payload[1] * 256 + payload[2]
  IN IF payload = <<>> THEN no_status
     ELSE IF Len(payload) = 1 \/ InvalidCode(code) \/ ReservedCode(code) THEN 0
     ELSE IF Decode(utf8_accept, SubSeq(payload, 3, Len(payload))) # utf8_accept THEN 0
     ELSE code

Message(msg) == [op |-> msg.op, payload |-> msg.payload,
                 code |-> IF msg.op = CLOSE THEN ExtractCode(msg.payload) ELSE 0]

\* get_message.
ForgetNothing(p) == Reset(p)                                          \* mutant
GetMessage(p) ==
  Reset(IF p.current = "control" THEN [p EXCEPT !.control = NoMsg]
                                 ELSE [p EXCEPT !.data = NoMsg])

\* handle_read_frame: consume until the bytes of the read are used up, handing
\* every message on; after an error close() is called and nothing is read.
RECURSIVE HandleReadFrame(_, _)
HandleReadFrame(c, out) ==
  LET d == Consume(c)
  IN IF c.rest = <<>> \/ c.ec # 0 THEN [proc |-> c.proc, ec |-> c.ec, out |-> out]
     ELSE IF d.proc.state # "READY" THEN HandleReadFrame(d, out)
     ELSE HandleReadFrame([d EXCEPT !.proc = GetMessage(d.proc)],
                          Append(out, Message(d.proc[d.proc.current])))

-----------------------------------------------------------------------------
(***************************************************************************)
(* Actions.  The other end has the same library (Prepare...) or another    *)
(* one, which may cut a text anywhere, use any close code (Improvise) or   *)
(* send what is no frame of this protocol (Break).                         *)
(***************************************************************************)
Init ==
  /\ server \in Servers
  /\ wire = <<>> /\ proc = NewProcessor /\ closing = 0 /\ delivered = <<>>
  /\ sent = <<>> /\ taken = 0

End == IF sent = <<>> THEN 0 ELSE sent[Len(sent)].end

Sends(bytes, frame) ==
  /\ Len(sent) < MaxFrames /\ End + Len(bytes) <= MaxBytes
  /\ sent # <<>> => sent[Len(sent)].code = 0
  /\ wire' = wire \o bytes
  /\ sent' = Append(sent, frame @@ [start |-> End, end |-> End + Len(bytes)])
  /\ UNCHANGED <<server, proc, closing, delivered, taken>>

SendsFrame(f, ours) ==
  \E key \in IF server THEN Keys ELSE {<<0, 0, 0, 0>>} :
    Sends(Prepared(f.op, f.payload, f.fin, server, key), f @@ [code |-> 0, ours |-> ours])

\* prepare_data_frame.
PrepareData(f) ==
  /\ ~IsControl(f.op)
  /\ f.op = TEXT => Decode(utf8_accept, f.payload) = utf8_accept
  /\ SendsFrame(f, TRUE)

\* prepare_ping and prepare_pong.
PrepareControl(f) ==
  /\ IsControl(f.op) /\ Len(f.payload) <= payload_size_basic
  /\ SendsFrame([f EXCEPT !.fin = TRUE], TRUE)

PrepareClose(code) ==
  /\ MaySendCode(code)
  /\ SendsFrame([op |-> CLOSE, payload |-> ClosePayload(code), fin |-> TRUE], TRUE)

Improvise(f) == SendsFrame(f, FALSE)

Break(g) ==
  LET masked == server # g.unmask
      bytes == << g.b0, (IF masked THEN 128 ELSE 0) + g.size >> \o g.ext
                 \o (IF masked THEN <<0, 0, 0, 0>> ELSE <<>>)
  IN Sends(bytes, [op |-> g.b0 % 16, payload |-> <<>>, fin |-> TRUE,
                   code |-> IF g.unmask THEN protocol_error ELSE g.code, ours |-> FALSE])

\* A read of the socket has given n bytes, and read_frame has been called
\* before; connection_read_buffer_size is not a bound here.
Read(n) ==
  /\ closing = 0 /\ n \in 1..Len(wire)
  /\ LET r == HandleReadFrame([proc |-> proc, rest |-> SubSeq(wire, 1, n), ec |-> 0], <<>>)
     IN proc' = r.proc /\ closing' = r.ec /\ delivered' = delivered \o r.out
  /\ wire' = SubSeq(wire, n + 1, Len(wire))
  /\ taken' = taken + n
  /\ UNCHANGED <<server, sent>>

Next ==
  \/ \E f \in Sendable : PrepareData(f) \/ PrepareControl(f)
  \/ \E code \in CloseCodes : PrepareClose(code)
  \/ \E f \in Foreign : Improvise(f)
  \/ \E g \in Broken : Break(g)
  \/ \E n \in 1..MaxRead \cup {Len(wire)} : Read(n)

Spec == Init /\ [][Next]_vars

-----------------------------------------------------------------------------
(***************************************************************************)
(* The reference: what the frames that were sent mean, frame by frame, by  *)
(* RFC 6455 and not by the reader's states.                                *)
(***************************************************************************)
\* UTF-8 by the numbers (RFC 3629): a code point is coded in as few bytes as it
\* takes, and is neither a surrogate nor beyond 10FFFF.
IsTail(b) == b \in 128..191
IsPoint(s) ==
  \/ Len(s) = 1 /\ s[1] <= 127
  \/ /\ Len(s) = 2 /\ s[1] \in 192..223 /\ IsTail(s[2])
     /\ (s[1] - 192) * 64 + s[2] - 128 >= 128
  \/ /\ Len(s) = 3 /\ s[1] \in 224..239 /\ IsTail(s[2]) /\ IsTail(s[3])
     /\ LET n == (s[1] - 224) * 4096 + (s[2] - 128) * 64 + s[3] - 128
        IN n >= 2048 /\ n \notin 55296..57343
  \/ /\ Len(s) = 4 /\ s[1] \in 240..247 /\ \A i \in 2..4 : IsTail(s[i])
     /\ (s[1] - 240) * 262144 + (s[2] - 128) * 4096 + (s[3] - 128) * 64 + s[4] - 128
          \in 65536..1114111

RECURSIVE WellFormed(_)
WellFormed(s) ==
  s = <<>> \/ \E k \in 1..4 : /\ k <= Len(s) /\ IsPoint(SubSeq(s, 1, k))
                              /\ WellFormed(SubSeq(s, k + 1, Len(s)))

\* The beginning of a text: the tails that complete any point that can be.
Tails == UNION {[1..k -> {128, 191}] : k \in 0..3}
Beginning(s) == \E t \in Tails : WellFormed(s \o t)

\* A frame within the message it belongs to; m has the messages before it, the
\* one it goes on with (op -1: none), and the code of the first faulty frame.
FaultOf(m, f) ==
  LET text == m.payload \o f.payload
      first == m.op = -1
      op == IF first THEN f.op ELSE m.op
  IN CASE f.code = protocol_error -> f.code
       [] IsControl(f.op) -> IF f.fin THEN 0 ELSE protocol_error
       [] first = (f.op = CONTINUATION) -> protocol_error
       [] f.code # 0 -> f.code
       [] Len(text) > MaxMessageSize -> message_too_big
       [] op = TEXT /\ ~Beginning(text) -> invalid_payload
       [] op = TEXT /\ f.fin /\ first /\ ~WellFormed(text) -> invalid_payload
       [] OTHER -> 0

Meaning(m, f) ==
  IF m.fault # 0 THEN m
  ELSE IF FaultOf(m, f) # 0 THEN [m EXCEPT !.fault = FaultOf(m, f), !.at = f.start]
  ELSE IF IsControl(f.op)
    THEN [m EXCEPT !.msgs = Append(@, Message([op |-> f.op, payload |-> f.payload]))]
  ELSE LET op == IF m.op = -1 THEN f.op ELSE m.op
           text == m.payload \o f.payload
       IN IF f.fin
            THEN [m EXCEPT !.msgs = Append(@, Message([op |-> op, payload |-> text])),
                           !.op = -1, !.payload = <<>>]
            ELSE [m EXCEPT !.op = op, !.payload = text]

MeaningOf(frames) ==
  FoldLeft(Meaning, [msgs |-> <<>>, op |-> -1, payload |-> <<>>, fault |-> 0, at |-> 0], frames)

\* The frames that have been read to their end, and the ones that are begun.
WholeFrames == SelectSeq(sent, LAMBDA f : f.end <= taken)
BegunFrames == SelectSeq(sent, LAMBDA f : f.start < taken)

TypeOK ==
  /\ server \in BOOLEAN /\ closing \in Nat /\ taken \in Nat
  /\ wire \in Seq(Byte) /\ taken + Len(wire) = End
  /\ proc.state \in {"HEADER_BASIC", "HEADER_EXTENDED", "APPLICATION"}
  /\ proc.needed \in Nat
  /\ Len(proc.basic) <= 2 /\ Len(proc.ext) <= 12
  /\ proc.current \in {"data", "control"}
  /\ \A msg \in {proc.data, proc.control} : /\ msg.op \in {-1} \cup 0..15
                                            /\ msg.payload \in Seq(Byte)
                                            /\ msg.key \in Seq(Byte)

\* However the bytes are cut into reads, what has been handed on is what the
\* frames read to their end mean, as soon as their last byte is there: joined
\* from fragments, unmasked, with the control frames that came in between, and
\* nothing from a faulty frame on (consume and handle_read_frame).
DeliversAll == delivered = MeaningOf(WholeFrames).msgs

\* Only a faulty frame closes the connection, with the code its fault calls for,
\* and once it is read to its end it has (the validate functions and to_ws).
RejectsBad ==
  /\ closing # 0 => LET m == MeaningOf(BegunFrames) IN closing = m.fault /\ taken > m.at
  /\ MeaningOf(WholeFrames).fault # 0 => closing # 0

\* What one end's prepare functions send, the other end's consume takes: a close
\* comes only of a frame that is not ours, of one that does not fit where it was
\* sent, or of a message that is too big; and a close code that prepare_close
\* lets through is one that extract_code accepts.
AcceptsOurs ==
  /\ (\A i \in 1..Len(sent) : sent[i].ours) =>
       closing \in {0, protocol_error, message_too_big}
  /\ \A i \in 1..Len(sent) : sent[i].ours /\ sent[i].op = CLOSE
                               => ExtractCode(sent[i].payload) # 0

=============================================================================
