----------------------------- MODULE CommandFrames -----------------------------
(***************************************************************************)
(* The velocity on its way through standard_robot_pp_ros2: cmdVelCallback  *)
(* writes three floats without a lock while the sending thread reads them, *)
(* either into SBUS channels (sendDataSbus) or to a packet with a CRC16    *)
(* (sendDataOriginal), which begins by clearing them.  A step reads or     *)
(* writes one of the floats.                                               *)
(* Speeds are in thousandths of max_linear_velocity_ or of                 *)
(* max_angular_velocity_.  The CRC is what it was computed from.           *)
(***************************************************************************)
EXTENDS Integers, Sequences
LOCAL INSTANCE FiniteSetsExt

CONSTANT Commands  \* messages on cmd_vel: sequences vx, vy, wz

VARIABLES
  use_sbus_protocol_,
  speed_vector,      \* the three floats
  writing,           \* the message being written, and what of it is written
  received_cmd,      \* the last message that came
  in_time,           \* history: it came when the floats had been cleared
  reading,           \* floats read for the CRC, and then for the frame; negative:
                     \* floats still to be cleared
  crc16,             \* the floats the CRC was computed from
  frame,             \* the floats in the frame
  on_wire            \* the last frame sent: its floats and whether its CRC is right

commandVars == <<use_sbus_protocol_, speed_vector, writing, received_cmd, in_time, reading, crc16, frame,
                 on_wire>>

Stop == <<0, 0, 0>>

CommandInit ==
  /\ use_sbus_protocol_ \in BOOLEAN
  /\ speed_vector = Stop /\ writing = 3 /\ received_cmd = Stop /\ in_time = TRUE
  /\ reading = (IF use_sbus_protocol_ THEN 0 ELSE -3) /\ crc16 = Stop /\ frame = Stop
  /\ on_wire = [speeds |-> Stop, valid |-> TRUE]

-----------------------------------------------------------------------------
(* cmdVelCallback *)

CmdVelArrives(msg) ==
  /\ writing = 3
  /\ received_cmd' = msg
  /\ in_time' = (reading >= 0)
  /\ writing' = 0
  /\ UNCHANGED <<use_sbus_protocol_, speed_vector, reading, crc16, frame, on_wire>>

CmdVelCallback ==
  /\ writing < 3
  /\ writing' = writing + 1
  /\ speed_vector' = [speed_vector EXCEPT ![writing'] = received_cmd[writing']]
  /\ UNCHANGED <<use_sbus_protocol_, received_cmd, in_time, reading, crc16, frame, on_wire>>

-----------------------------------------------------------------------------
(* sendDataSbus and sendDataOriginal.                                      *)

(* Channel 0 is wz, channels 2 and 3 are vx and vy.                        *)
SbusOrder == <<3, 1, 2>>

FrameSent(valid) ==
  /\ on_wire' = [speeds |-> frame, valid |-> valid]
  /\ reading' = 0

SendDataSbus ==
  /\ use_sbus_protocol_
  /\ \/ /\ reading < 3
        /\ reading' = reading + 1
        /\ LET f == SbusOrder[reading + 1] IN frame' = [frame EXCEPT ![f] = speed_vector[f]]
        /\ UNCHANGED on_wire
     \/ /\ reading = 3
        /\ FrameSent(TRUE)
        /\ UNCHANGED frame
  /\ UNCHANGED <<use_sbus_protocol_, speed_vector, writing, received_cmd, in_time, crc16>>

AppendCrc16 == speed_vector[reading + 1]

SendDataOriginal ==
  /\ ~use_sbus_protocol_
  /\ \/ /\ reading \in 0 .. 2
        /\ crc16' = [crc16 EXCEPT ![reading + 1] = AppendCrc16]
        /\ reading' = reading + 1
        /\ UNCHANGED <<frame, on_wire>>
     \/ /\ reading \in 3 .. 5
        /\ frame' = [frame EXCEPT ![reading - 2] = speed_vector[reading - 2]]
        /\ reading' = reading + 1
        /\ UNCHANGED <<crc16, on_wire>>
     \/ /\ reading = 6
        /\ FrameSent(frame = crc16)
        /\ UNCHANGED <<crc16, frame>>
  /\ UNCHANGED <<use_sbus_protocol_, speed_vector, writing, received_cmd, in_time>>

(* What sendDataOriginal does before its loop. *)
ClearSpeed ==
  /\ reading < 0
  /\ speed_vector' = [speed_vector EXCEPT ![reading + 4] = 0]
  /\ reading' = reading + 1
  /\ UNCHANGED <<use_sbus_protocol_, writing, received_cmd, in_time, crc16, frame, on_wire>>

SendFrame == ClearSpeed \/ SendDataSbus \/ SendDataOriginal

CommandNext == (\E msg \in Commands : CmdVelArrives(msg)) \/ CmdVelCallback \/ SendFrame

CommandSpec ==
  /\ CommandInit /\ [][CommandNext]_commandVars
  /\ WF_commandVars(CmdVelCallback) /\ WF_commandVars(SendFrame)

-----------------------------------------------------------------------------
(* The channels of an SBUS frame.                                          *)

Center == 1024
Clamp(v, low, high) == IF v < low THEN low ELSE IF v > high THEN high ELSE v

(* The conversion to an integer cuts off the fraction.                     *)
MapValueToChannel(speed) == (1000 * Center + Clamp(speed, -1000, 1000) * (2047 - Center)) \div 1000

AvoidDeadZone(value) ==
  IF value < Center THEN Clamp(value, 600, 990)
  ELSE IF value > Center THEN Clamp(value, 1060, 1500)
  ELSE Center

Channels(speeds) ==
  <<AvoidDeadZone(MapValueToChannel(speeds[3])), Center,
    AvoidDeadZone(MapValueToChannel(speeds[1])), AvoidDeadZone(MapValueToChannel(speeds[2])),
    1000, 1600, Center, Center>>

(* packChannels for eight channels, to 11 bytes; the other eight have the  *)
(* same again.  Of each byte: the channels in it and by how many bits each *)
(* is shifted, to the right or, negative, to the left.                     *)
Shifts_Swapped ==
  <<{<<0, 0>>}, {<<0, 8>>, <<1, -3>>}, {<<1, 5>>, <<2, -6>>}, {<<2, 2>>}, {<<2, 1>>, <<3, -1>>},
    {<<3, 7>>, <<4, -4>>}, {<<4, 4>>, <<5, -7>>}, {<<5, 1>>}, {<<5, 9>>, <<6, -2>>},
    {<<6, 6>>, <<7, -5>>}, {<<7, 3>>}>>

Shifts ==
  <<{<<0, 0>>}, {<<0, 8>>, <<1, -3>>}, {<<1, 5>>, <<2, -6>>}, {<<2, 2>>}, {<<2, 10>>, <<3, -1>>},
    {<<3, 7>>, <<4, -4>>}, {<<4, 4>>, <<5, -7>>}, {<<5, 1>>}, {<<5, 9>>, <<6, -2>>},
    {<<6, 6>>, <<7, -5>>}, {<<7, 3>>}>>

Shift(v, by) == IF by >= 0 THEN v \div 2^by ELSE v * 2^(-by)

(* The parts of a byte share no bit, so that a sum stands for the "or".    *)
PackChannels(channels) ==
  [b \in 0 .. 10 |-> MapThenSumSet(LAMBDA s : Shift(channels[s[1] + 1], s[2]), Shifts[b + 1]) % 256]

(* What a receiver reads: channel c is in bits 11 c to 11 c + 10.          *)
Unpacked(bytes, c) ==
  LET Bit(n) == (bytes[n \div 8] \div 2^(n % 8)) % 2
  IN  MapThenSumSet(LAMBDA i : Bit(11 * c + i) * 2^i, 0 .. 10)

-----------------------------------------------------------------------------
(* What the comment at lines 793 to 799 says of the channels, and the code *)
(* does: wz in channel 0, vx in 2, vy in 3, each outside the dead zone of  *)
(* 1008 to 1039 and in 600 to 1500 on the side of the speed's sign, and no *)
(* speed is the centre; every channel is seen as it was set.  The docs of  *)
(* the package say otherwise (SBUS_QUICK_REFERENCE.md:18-30 and            *)
(* SBUS_MODIFICATION_GUIDE.md:292-325: vx, vy, wz in channels 0, 1, 2 over *)
(* the full scale 0 to 2047): a receiver written from them reads a turn    *)
(* for vx.  This is a statement about the code's table, not about theirs.  *)
Conveys(bytes, speeds) ==
  LET Seen(c) == Unpacked(bytes, c)
      Agrees(c, speed) ==
        \/ speed = 0 /\ Seen(c) = Center
        \/ speed > 0 /\ Seen(c) \in {Center} \cup 1040 .. 1500
        \/ speed < 0 /\ Seen(c) \in 600 .. 1007
  IN /\ \A c \in 0 .. 7 : Seen(c) = Channels(speeds)[c + 1]
     /\ Agrees(0, speeds[3]) /\ Agrees(2, speeds[1]) /\ Agrees(3, speeds[2])

(* Frames may mix two commands, or carry a CRC that does not fit; but once *)
(* no command comes any more, the board gets the last one, whole, again    *)
(* and again: with a CRC it accepts, or in the bits of SBUS channels       *)
(* (packChannels) by the table of the code, not by that of the docs: see   *)
(* Conveys.  (A command that comes before sendDataOriginal has cleared the *)
(* speeds may be lost.)                                                    *)
LastCommandIsSent ==
  <>[][CmdVelCallback \/ SendFrame]_commandVars /\ <>[]in_time =>
    <>[](/\ on_wire = [speeds |-> received_cmd, valid |-> TRUE]
         /\ use_sbus_protocol_ => Conveys(PackChannels(Channels(on_wire.speeds)), received_cmd))
==============================================================================
