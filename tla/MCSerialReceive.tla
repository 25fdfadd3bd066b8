---------------------------- MODULE MCSerialReceive ----------------------------
(* Packets of one length, and no byte of data that looks like a sof. *)
EXTENDS SerialReceive

MCLen == [k \in 0 .. NumPackets |-> 1]
==============================================================================
