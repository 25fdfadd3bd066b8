----------------------------- MODULE RefereeBridge -----------------------------
(***************************************************************************)
(* How referee_serial_bridge cuts the bytes of its port into frames of a   *)
(* fixed size that begin with AA 55 (receiveLoop).  The CRC at the end is  *)
(* not checked, so that a pair of data bytes with these values is taken    *)
(* for a header whenever the search comes across it.                       *)
(*                                                                         *)
(* A byte is <<k, i>>, the i-th byte of the k-th frame, or noise.  Frame 0 *)
(* is the one under way when the node starts.                              *)
(***************************************************************************)
EXTENDS Integers, Sequences

CONSTANTS
  NumFrames,    \* bound: frames the board sends, numbered from 1
  FrameSize,    \* 72 in the code
  KeepSize,     \* 1024 in the code: what the buffer may hold without a header
  Starts,       \* bytes of data that have the value AA
  Seconds,      \* bytes of data that have the value 55
  LineSize,     \* bound: bytes waiting in the port
  MaxDamage     \* bound: bytes lost or changed on the way

ASSUME BridgeAssumption ==
  /\ NumFrames \in Nat /\ LineSize \in Nat /\ MaxDamage \in Nat
  /\ FrameSize \in Nat /\ FrameSize > 2
  /\ KeepSize \in Nat /\ KeepSize >= FrameSize

VARIABLES
  line,         \* bytes in the port, the next one first
  framesSent,
  buffer,
  scanning,     \* in the loop over the buffer, between two reads
  parsed,       \* frames parsed, in order; 0: bytes that are no frame
  damaged       \* history: of each damaged byte, the number of its frame

bridgeVars == <<line, framesSent, buffer, scanning, parsed, damaged>>

RefereeFrame(k) == [i \in 1 .. FrameSize |-> <<k, i>>]
Junk == <<-1, 0>>
From(s, i) == SubSeq(s, i, Len(s))

BridgeInit ==
  /\ \E i \in 2 .. FrameSize + 1 : line = From(RefereeFrame(0), i)
  /\ framesSent = 0
  /\ buffer = <<>> /\ scanning = FALSE
  /\ parsed = <<>> /\ damaged = <<>>

BoardSendsFrame ==
  /\ framesSent < NumFrames /\ Len(line) + FrameSize <= LineSize
  /\ framesSent' = framesSent + 1
  /\ line' = line \o RefereeFrame(framesSent')
  /\ UNCHANGED <<buffer, scanning, parsed, damaged>>

Damage(i) ==
  /\ Len(damaged) < MaxDamage
  /\ damaged' = Append(damaged, line[i][1])
  /\ \/ line' = SubSeq(line, 1, i - 1) \o From(line, i + 1)
     \/ line' = [line EXCEPT ![i] = Junk]
  /\ UNCHANGED <<framesSent, buffer, scanning, parsed>>

(* read() returns what there is, at most 1024 bytes; a read that fails is  *)
(* tried again.                                                            *)
ReadPort(n) ==
  /\ ~scanning
  /\ n \in 1 .. Len(line)
  /\ buffer' = buffer \o SubSeq(line, 1, n)
  /\ line' = From(line, n + 1)
  /\ scanning' = TRUE
  /\ UNCHANGED <<framesSent, parsed, damaged>>

IsHeader(i) ==
  /\ buffer[i][2] = 1 \/ buffer[i] \in Starts
  /\ buffer[i + 1][2] = 2 \/ buffer[i + 1] \in Seconds

Places_ShortByOne == 1 .. Len(buffer) - FrameSize

(* Where a whole frame may begin. *)
Places == 1 .. Len(buffer) - FrameSize + 1

(* parseRefereeData publishes whatever bytes follow the header. *)
ParseRefereeData(i) ==
  LET bytes == SubSeq(buffer, i, i + FrameSize - 1) k == buffer[i][1]
  IN  parsed' = Append(parsed, IF k > 0 /\ bytes = RefereeFrame(k) THEN k ELSE 0)

FrameFound ==
  /\ scanning
  /\ \E i \in Places :
       /\ IsHeader(i)
       /\ \A j \in 1 .. i - 1 : ~IsHeader(j)
       /\ ParseRefereeData(i)
       /\ buffer' = From(buffer, i + FrameSize)
  /\ UNCHANGED <<line, framesSent, scanning, damaged>>

(* An empty range of places also stands for a buffer that is too short.    *)
NoFrameFound ==
  /\ scanning
  /\ \A i \in Places : ~IsHeader(i)
  /\ scanning' = FALSE
  /\ buffer' = IF Len(buffer) > KeepSize THEN From(buffer, Len(buffer) - FrameSize + 1) ELSE buffer
  /\ UNCHANGED <<line, framesSent, parsed, damaged>>

BridgeNext ==
  \/ BoardSendsFrame
  \/ \E i \in 1 .. Len(line) : Damage(i) \/ ReadPort(i)
  \/ FrameFound \/ NoFrameFound

BridgeSpec == BridgeInit /\ [][BridgeNext]_bridgeVars

-----------------------------------------------------------------------------
Parsed(k) == \E i \in DOMAIN parsed : parsed[i] = k
Hit(k) == \E i \in DOMAIN damaged : damaged[i] = k
LooksLike(k) == \E i \in 1 .. FrameSize : <<k, i>> \in Starts

BridgeExcused(k) ==
  \/ Hit(k) \/ Hit(k - 1)
  \/ (k = 1 \/ ~Parsed(k - 1)) /\ LooksLike(k - 1)

(* The bridge falls in step again (receiveLoop's search): a damaged byte   *)
(* costs its frame and the next, and a frame that was lost or begun too    *)
(* late costs the next one only when its data look like a header.  No      *)
(* other frame is lost, and none that is complete waits.                   *)
BridgeRecovers ==
  ~scanning /\ line = <<>> => \A k \in 1 .. framesSent : Parsed(k) \/ BridgeExcused(k)
==============================================================================
