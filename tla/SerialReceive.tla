----------------------------- MODULE SerialReceive -----------------------------
(***************************************************************************)
(* How standard_robot_pp_ros2 cuts the bytes of the serial port into       *)
(* packets (receiveData).  A packet is a header of four bytes, sof, len,   *)
(* id and a CRC8 of these, len bytes of data and a CRC16 of all before.    *)
(* receive() returns as many bytes as there are, up to the size of the     *)
(* vector it is given, and the vector keeps zeros where nothing came.      *)
(*                                                                         *)
(* A byte is <<k, i>>, the i-th byte of the k-th packet, or what noise     *)
(* makes of one.  The checks are taken to accept what was sent and nothing *)
(* else, with one exception that the arithmetic has: the CRC16 of a packet *)
(* and its checksum is zero and stays zero, so a packet followed by zeros  *)
(* passes as well.                                                         *)
(*                                                                         *)
(* Crc16Ok_Any and the like are faulty variants, used by no                *)
(* specification, that the properties rule out.                            *)
(***************************************************************************)
EXTENDS Integers, Sequences, FiniteSets

CONSTANTS
  NumPackets,   \* bound: packets the board sends, numbered from 1
  len,          \* of each packet, and of packet 0, whose end comes first
  SofBytes,     \* bytes of data that happen to have the value of sof
  DebugPackets, \* those with id ID_DEBUG, while debug_ is false
  Backlog,      \* bound: bytes waiting in the port
  MaxStrikes     \* bound: bytes lost or changed on the way, and exceptions

HeaderLen == 4
Numbers == 0 .. NumPackets
FrameLen(k) == HeaderLen + len[k] + 2
Frame(k) == [i \in 1 .. FrameLen(k) |-> <<k, i>>]
Header(k) == SubSeq(Frame(k), 1, HeaderLen)

Zero == <<-1, 0>>
NoiseSof == <<-1, 1>>
Noise == <<-1, 2>>
Bytes == UNION {{<<k, i>> : i \in 1 .. FrameLen(k)} : k \in Numbers} \cup {Zero, NoiseSof, Noise}

ASSUME ReceiveParameters ==
  /\ NumPackets \in Nat
  /\ len \in [Numbers -> Nat \ {0}]
  /\ SofBytes \subseteq Bytes
  /\ DebugPackets \subseteq Numbers
  /\ Backlog \in Nat
  /\ MaxStrikes \in Nat

VARIABLES
  wire,             \* bytes in the port, the next one first
  sent,             \* packets sent
  step,             \* of receiveData
  header_frame_buf,
  data_buf,
  remain_len,
  received_len_sum,
  published,        \* numbers of the packets published, in order; 0: not one sent
  taken,            \* history: the bytes read since the last sof
  strikes,          \* history: how often the line or a call failed
  hit,              \* history: the packets this struck
  split             \* history: the packets whose header came in pieces

bufVars == <<header_frame_buf, data_buf, remain_len, received_len_sum, taken>>
history == <<strikes, hit, split>>
receiveVars == <<wire, sent, step, bufVars, published, history>>

Zeros(n) == [i \in 1 .. n |-> Zero]
First(n) == SubSeq(wire, 1, n)
After(n) == SubSeq(wire, n + 1, Len(wire))

IsSof(b) == b[2] = 1 \/ b \in SofBytes

Crc8Ok(h) == \E k \in Numbers : h = Header(k)

Crc16Ok_Any(buf) == Len(buf) > 2

Crc16Ok_Exact(buf) == \E k \in Numbers : buf = Frame(k)

Crc16Ok(buf) ==
  \E k \in Numbers :
    /\ Len(buf) >= FrameLen(k)
    /\ buf = Frame(k) \o Zeros(Len(buf) - FrameLen(k))

(* data_buf.insert(data_buf.begin() + at, b.begin(), b.end()) *)
InsertAt(buf, at, b) == SubSeq(buf, 1, at) \o b \o SubSeq(buf, at + 1, Len(buf))

(* The board has been sending before the node starts. *)
ReceiveInit ==
  /\ \E i \in 2 .. FrameLen(0) + 1 : wire = SubSeq(Frame(0), i, FrameLen(0))
  /\ sent = 0
  /\ step = "sof"
  /\ header_frame_buf = <<>> /\ data_buf = <<>> /\ taken = <<>>
  /\ remain_len = 0 /\ received_len_sum = 0
  /\ published = <<>>
  /\ strikes = 0 /\ hit = {} /\ split = {}

-----------------------------------------------------------------------------
(* The board and the line.                                                 *)

BoardSends ==
  /\ sent < NumPackets
  /\ Len(wire) + FrameLen(sent + 1) <= Backlog
  /\ sent' = sent + 1
  /\ wire' = wire \o Frame(sent + 1)
  /\ UNCHANGED <<step, bufVars, published, history>>

Fault(i) ==
  /\ strikes < MaxStrikes
  /\ \/ wire' = SubSeq(wire, 1, i - 1) \o After(i)
     \/ \E b \in {Noise, NoiseSof} : wire' = [wire EXCEPT ![i] = b]
  /\ strikes' = strikes + 1
  /\ hit' = hit \cup ({wire[i][1]} \cap Numbers)
  /\ UNCHANGED <<sent, step, bufVars, published, split>>

-----------------------------------------------------------------------------
(* receiveData.                                                            *)

ReadSof ==
  /\ step = "sof"
  /\ wire # <<>>
  /\ wire' = After(1)
  /\ IF IsSof(wire[1])
     THEN step' = "header" /\ taken' = First(1)
     ELSE UNCHANGED <<step, taken>>
  /\ UNCHANGED <<sent, header_frame_buf, data_buf, remain_len, received_len_sum,
                 published, history>>

NumberOf(h) == CHOOSE k \in Numbers : h = Header(k)

(* What the header says is to come: the data and the CRC16. *)
Announced(h) == len[NumberOf(h)] + 2

(* The code does not look at how many of the three bytes came. *)
ReadHeader(n) ==
  /\ step = "header"
  /\ n \in 1 .. Len(wire) /\ n <= 3
  /\ header_frame_buf' = taken \o First(n) \o Zeros(3 - n)
  /\ taken' = taken \o First(n)
  /\ wire' = After(n)
  /\ IF Crc8Ok(header_frame_buf')
     THEN /\ step' = "data"
          /\ remain_len' = Announced(header_frame_buf')
     ELSE /\ step' = "sof"
          /\ UNCHANGED remain_len
  /\ received_len_sum' = 0
  /\ data_buf' = <<>>
  /\ split' = split \cup {k \in Numbers : n < 3 /\ taken = <<Frame(k)[1]>>}
  /\ UNCHANGED <<sent, published, strikes, hit>>

(* Of the vector a read is given: what is still missing. *)
BufSize == remain_len

(* The first read goes to data_buf, of the announced size; each later one  *)
(* to a remain_buf of the missing size, which is inserted.                 *)
ReadData(n) ==
  /\ step = "data"
  /\ n \in 1 .. Len(wire) /\ n <= BufSize
  /\ data_buf' = InsertAt(data_buf, received_len_sum, First(n) \o Zeros(BufSize - n))
  /\ received_len_sum' = received_len_sum + n
  /\ remain_len' = remain_len - n
  /\ taken' = taken \o First(n)
  /\ wire' = After(n)
  /\ step' = IF remain_len' <= 0 THEN "parse" ELSE "data"
  /\ UNCHANGED <<sent, header_frame_buf, published, history>>

Packet == header_frame_buf \o data_buf

(* fromVector takes the bytes of the packet's type, from the front. *)
Contents ==
  LET k == NumberOf(header_frame_buf)
  IN  IF SubSeq(Packet, 1, FrameLen(k)) = Frame(k) THEN k ELSE 0

Publish(k) == published' = Append(published, k)

Parse ==
  /\ step = "parse"
  /\ step' = "sof"
  /\ IF NumberOf(header_frame_buf) \notin DebugPackets /\ Crc16Ok(Packet)
     THEN Publish(Contents)
     ELSE UNCHANGED published
  /\ UNCHANGED <<wire, sent, bufVars, history>>

NumbersIn(s) == {s[i][1] : i \in DOMAIN s} \cap Numbers

(* A call of the port throws, or publishing does; serialPortProtect opens  *)
(* the port again, and some of the bytes that came meanwhile are gone.     *)
Fail ==
  /\ strikes < MaxStrikes
  /\ strikes' = strikes + 1
  /\ step' = "sof"
  /\ \E i \in 0 .. Len(wire) :
       /\ wire' = After(i)
       /\ hit' = hit \cup NumbersIn(First(i)) \cup (IF step = "sof" THEN {} ELSE NumbersIn(taken))
  /\ UNCHANGED <<sent, bufVars, published, split>>

ReceiveData == ReadSof \/ Parse \/ \E n \in 1 .. Len(wire) : ReadHeader(n) \/ ReadData(n)

ReceiveNext ==
  \/ BoardSends
  \/ \E i \in 1 .. Len(wire) : Fault(i)
  \/ ReceiveData
  \/ Fail

ReceiveSpec == ReceiveInit /\ [][ReceiveNext]_receiveVars

-----------------------------------------------------------------------------
(* What it should do.                                                      *)

Published(k) == \E i \in DOMAIN published : published[i] = k

(* What receiveData publishes was sent, and comes once and in order.       *)
Stream == INSTANCE PacketStream
ImplementsStream == Stream!Spec

SofNearEnd(k) == \E i \in FrameLen(k) - 2 .. FrameLen(k) : <<k, i>> \in SofBytes

(* Packets m + 1 .. k - 1 are shorter than packet m, all were lost, and k  *)
(* begins among the bytes that m still lacked.                             *)
Swallows(m, k) ==
  /\ m < k - 1 /\ FrameLen(k - 1) + HeaderLen < FrameLen(m)
  /\ \A j \in m .. k - 1 : ~Published(j)

(* A fault costs the packet it hits and the next one, and whatever the     *)
(* reads that complete a long packet take of the shorter ones behind it; a *)
(* header that comes in pieces (line 371 does not ask how much came) costs *)
(* its packet, and a lost packet the next one only when one of its last    *)
(* three bytes looks like a sof.  No other packet is lost.                 *)
Excused(k) ==
  \/ k \in hit \cup split \cup DebugPackets
  \/ k - 1 \in hit
  \/ \E m \in hit : Swallows(m, k)
  \/ ~Published(k - 1) /\ SofNearEnd(k - 1)

LostForAReason ==
  step = "sof" /\ wire = <<>> => \A k \in 1 .. sent : Published(k) \/ Excused(k)

(* The comments of lines 388 and 399: what is parsed is the whole packet,  *)
(* that is, the bytes read and nothing else.                               *)
CompletePacket == step = "parse" => Packet = taken
==============================================================================
