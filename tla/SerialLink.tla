------------------------------ MODULE SerialLink ------------------------------
(***************************************************************************)
(* The threads of StandardRobotPpRos2Node and its serial port: protection  *)
(* opens and reopens the port, receive and send use it, the destructor     *)
(* stops the robot and joins them.  They share is_usb_ok_, without a lock. *)
(*                                                                         *)
(* A step boundary is at each access to the flag or the port.  Sleeps are  *)
(* not modelled: a thread may take any time.  What the bytes mean is in    *)
(* SerialReceive; here a read is the reading of a packet.  is_usb_ok_ has  *)
(* no initial value, and port() is null until init_port.                   *)
(*                                                                         *)
(* The port is external: open() fails without a device, and a port whose   *)
(* device went away is still "open" for is_open(), but every call on it    *)
(* throws, also after the device came back ("stale" below).                *)
(*                                                                         *)
(* ClosePort_Skipped and the like are faulty variants, used by no          *)
(* specification, that the properties rule out.                            *)
(***************************************************************************)
EXTENDS Naturals

CONSTANT MaxFaults  \* bound: how often the device goes away or a packet throws

ASSUME FaultsAssumption == MaxFaults \in Nat

VARIABLES
  ok,          \* rclcpp::ok()
  plugged,     \* the device is there
  port,        \* serial_driver_->port()
  is_usb_ok_,
  protect,     \* where serialPortProtect is
  receive,     \* where receiveData is
  send,        \* where sendDataSbus or sendDataOriginal is
  destructor,  \* where ~StandardRobotPpRos2Node is
  zeros,       \* frames with zero velocity the destructor has sent
  late,        \* history: frames send has sent after the first of these
  faults,      \* history: how many faults there were
  crashed      \* the process ended at a null port

threadVars == <<protect, receive, send, destructor>>
linkVars == <<ok, plugged, port, is_usb_ok_, threadVars, zeros, late, faults, crashed>>

LinkTypeOK ==
  /\ ok \in BOOLEAN /\ plugged \in BOOLEAN
  /\ port \in {"none", "closed", "open", "stale"}
  /\ is_usb_ok_ \in BOOLEAN
  /\ protect \in {"init", "first", "assume", "sleep", "close", "open", "confirm", "done"}
  /\ receive \in {"test", "read", "catch", "done"}
  /\ send \in {"test", "write", "catch", "done"}
  /\ destructor \in {"none", "zero", "join", "done"}
  /\ zeros \in 0 .. 3
  /\ late \in Nat
  /\ faults \in 0 .. MaxFaults
  /\ crashed \in BOOLEAN

LinkInit ==
  /\ ok = TRUE
  /\ plugged \in BOOLEAN
  /\ port = "none"
  /\ is_usb_ok_ \in BOOLEAN
  /\ protect = "init" /\ receive = "test" /\ send = "test" /\ destructor = "none"
  /\ zeros = 0 /\ late = 0 /\ faults = 0
  /\ crashed = FALSE

Crash ==
  /\ ~crashed
  /\ port = "none"
  /\ crashed' = TRUE
  /\ UNCHANGED <<ok, plugged, port, is_usb_ok_, threadVars, zeros, late, faults>>

-----------------------------------------------------------------------------
(* The device and the process.                                             *)

Unplug ==
  /\ ~crashed
  /\ plugged /\ faults < MaxFaults
  /\ plugged' = FALSE
  /\ port' = IF port = "open" THEN "stale" ELSE port
  /\ faults' = faults + 1
  /\ UNCHANGED <<ok, is_usb_ok_, threadVars, zeros, late, crashed>>

Plug ==
  /\ ~crashed
  /\ ~plugged
  /\ plugged' = TRUE
  /\ UNCHANGED <<ok, port, is_usb_ok_, threadVars, zeros, late, faults, crashed>>

Shutdown ==
  /\ ~crashed
  /\ ok
  /\ ok' = FALSE
  /\ UNCHANGED <<plugged, port, is_usb_ok_, threadVars, zeros, late, faults, crashed>>

-----------------------------------------------------------------------------
(* serialPortProtect.                                                      *)

ProtectStep ==
  /\ ~crashed
  /\ UNCHANGED <<ok, plugged, receive, send, destructor, zeros, late, faults, crashed>>

InitPort ==
  /\ protect = "init"
  /\ port' = "closed"
  /\ protect' = "first"
  /\ UNCHANGED is_usb_ok_
  /\ ProtectStep

OpenFirst ==
  /\ protect = "first"
  /\ is_usb_ok_' = plugged
  /\ port' = IF plugged THEN "open" ELSE "closed"
  /\ protect' = "assume"
  /\ ProtectStep

(* Line 308: also when the port did not open. *)
AssumeOk ==
  /\ protect = "assume"
  /\ is_usb_ok_' = TRUE
  /\ protect' = "sleep"
  /\ UNCHANGED port
  /\ ProtectStep

TestProtect_FlagOnly ==
  /\ protect = "sleep"
  /\ ~is_usb_ok_
  /\ protect' = "close"
  /\ UNCHANGED <<port, is_usb_ok_>>
  /\ ProtectStep

TestProtect ==
  /\ protect = "sleep"
  /\ \/ ~ok /\ protect' = "done"
     \/ ok /\ ~is_usb_ok_ /\ protect' = "close"
  /\ UNCHANGED <<port, is_usb_ok_>>
  /\ ProtectStep

ClosePort_Skipped ==
  /\ protect = "close"
  /\ protect' = IF port = "closed" THEN "open" ELSE "confirm"
  /\ UNCHANGED <<port, is_usb_ok_>>
  /\ ProtectStep

ClosePort ==
  /\ protect = "close"
  /\ port' = "closed"
  /\ protect' = "open"
  /\ UNCHANGED is_usb_ok_
  /\ ProtectStep

OpenPort ==
  /\ protect = "open"
  /\ \/ plugged /\ port' = "open" /\ protect' = "confirm" /\ UNCHANGED is_usb_ok_
     \/ ~plugged /\ is_usb_ok_' = FALSE /\ protect' = "sleep" /\ UNCHANGED port
  /\ ProtectStep

Confirm ==
  /\ protect = "confirm"
  /\ is_usb_ok_' = TRUE
  /\ protect' = "sleep"
  /\ UNCHANGED port
  /\ ProtectStep

Protect ==
  \/ InitPort \/ OpenFirst \/ AssumeOk
  \/ TestProtect \/ ClosePort \/ OpenPort \/ Confirm

-----------------------------------------------------------------------------
(* receiveData and sendData.                                               *)

ReceiveStep ==
  /\ ~crashed
  /\ UNCHANGED <<ok, plugged, port, protect, send, destructor, zeros, late, crashed>>

TestReceive ==
  /\ receive = "test"
  /\ \/ ~ok /\ receive' = "done"
     \/ ok /\ is_usb_ok_ /\ receive' = "read"
  /\ UNCHANGED <<is_usb_ok_, faults>>
  /\ ReceiveStep

Read ==
  /\ receive = "read" /\ port # "none"
  /\ receive' = IF port = "open" THEN "test" ELSE "catch"
  /\ UNCHANGED <<is_usb_ok_, faults>>
  /\ ReceiveStep

(* Lines 399 to 470 throw, as at() does for a model robot_models_ lacks. *)
PacketThrows ==
  /\ receive = "read" /\ port = "open" /\ faults < MaxFaults
  /\ receive' = "catch"
  /\ faults' = faults + 1
  /\ UNCHANGED is_usb_ok_
  /\ ReceiveStep

CatchReceive ==
  /\ receive = "catch"
  /\ is_usb_ok_' = FALSE
  /\ receive' = "test"
  /\ UNCHANGED faults
  /\ ReceiveStep

Receive == TestReceive \/ Read \/ CatchReceive \/ (receive = "read" /\ Crash)

SendStep ==
  /\ ~crashed
  /\ UNCHANGED <<ok, plugged, port, protect, receive, destructor, zeros, faults, crashed>>

TestSend_FlagOnly ==
  /\ send = "test"
  /\ is_usb_ok_ /\ send' = "write"
  /\ UNCHANGED <<is_usb_ok_, late>>
  /\ SendStep

TestSend ==
  /\ send = "test"
  /\ \/ ~ok /\ send' = "done"
     \/ ok /\ is_usb_ok_ /\ send' = "write"
  /\ UNCHANGED <<is_usb_ok_, late>>
  /\ SendStep

Write ==
  /\ send = "write" /\ port # "none"
  /\ \/ port = "open" /\ send' = "test" /\ late' = IF zeros > 0 THEN late + 1 ELSE late
     \/ port # "open" /\ send' = "catch" /\ UNCHANGED late
  /\ UNCHANGED is_usb_ok_
  /\ SendStep

CatchSend ==
  /\ send = "catch"
  /\ is_usb_ok_' = FALSE
  /\ send' = "test"
  /\ UNCHANGED late
  /\ SendStep

Send == TestSend \/ Write \/ CatchSend \/ (send = "write" /\ Crash)

-----------------------------------------------------------------------------
(* ~StandardRobotPpRos2Node, after the executor has stopped.               *)

DestructorStep ==
  /\ ~crashed
  /\ UNCHANGED <<ok, plugged, is_usb_ok_, protect, receive, send, late, faults, crashed>>

BeginDestruction ==
  /\ destructor = "none" /\ ~ok /\ port # "none"
  /\ destructor' = IF port \in {"open", "stale"} THEN "zero" ELSE "join"
  /\ UNCHANGED <<port, zeros>>
  /\ DestructorStep

AllSent(n) == n >= 3

SendZero ==
  /\ destructor = "zero"
  /\ \/ /\ port = "open"
        /\ zeros' = zeros + 1
        /\ destructor' = IF AllSent(zeros') THEN "join" ELSE "zero"
     \/ /\ port # "open"
        /\ destructor' = "join"
        /\ UNCHANGED zeros
  /\ UNCHANGED port
  /\ DestructorStep

JoinAndClose ==
  /\ destructor = "join"
  /\ send = "done" /\ receive = "done" /\ protect = "done"
  /\ destructor' = "done"
  /\ port' = "closed"
  /\ UNCHANGED zeros
  /\ DestructorStep

Destroy ==
  \/ BeginDestruction \/ SendZero \/ JoinAndClose
  \/ (destructor = "none" /\ ~ok /\ Crash)

-----------------------------------------------------------------------------

LinkNext ==
  \/ Unplug \/ Plug \/ Shutdown
  \/ Protect \/ Receive \/ PacketThrows \/ Send \/ Destroy

LinkSpec == LinkInit /\ [][LinkNext]_linkVars

(* The threads are scheduled, and the board goes on sending: without that  *)
(* Read may wait for ever.                                                 *)
FairLinkSpec ==
  /\ LinkSpec
  /\ WF_linkVars(Protect) /\ WF_linkVars(Receive) /\ WF_linkVars(Send) /\ WF_linkVars(Destroy)

-----------------------------------------------------------------------------
(* What it should do.                                                      *)

(* The destructor stops the robot (lines 57 to 107): the loop of send      *)
(* tests rclcpp::ok() before each frame, so that only one with a velocity  *)
(* may still follow the first zero frame.                                  *)
OneLateFrame == late <= 1

(* From some time on a thread that is using the port when it is closed has *)
(* handled the exception when it is open again: an iteration takes less    *)
(* than the second that serialPortProtect sleeps.                          *)
Prompt == <>[](protect = "confirm" => receive \in {"test", "done"} /\ send \in {"test", "done"})

(* Lines 311 to 333, reconnection: once the device stays, the port comes   *)
(* to be open, is not closed any more, and both loops use it.              *)
LinkRecovers ==
  Prompt /\ <>[](ok /\ plugged /\ ~crashed) => <>[](is_usb_ok_ /\ port = "open")

(* Lines 112 to 130: the three threads see the shutdown and end, wherever  *)
(* they are and whatever the port does.                                    *)
LinkShutsDown == ~ok ~> (destructor = "done" \/ crashed)
==============================================================================
