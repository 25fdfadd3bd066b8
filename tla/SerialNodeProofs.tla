--------------------------- MODULE SerialNodeProofs ---------------------------
(***************************************************************************)
(* Proofs about standard_robot_pp_ros2: its threads, and how it keeps the  *)
(* colour of the detector.                                                 *)
(***************************************************************************)
EXTENDS SerialLink, RobotPackets, TLAPS

(* The destructor runs only after the shutdown, and a frame is late only   *)
(* when it was already being written: its thread is past the loop's test,  *)
(* which no longer lets it through.                                        *)
StopIsFinal ==
  /\ destructor # "none" => ~ok
  /\ destructor = "zero" => zeros < 3
  /\ zeros > 0 => destructor # "none"
  /\ late > 0 => zeros > 0 /\ send # "write"

(* A null port is met only before init_port. *)
NullOnlyAtStart ==
  /\ port = "none" <=> protect = "init"
  /\ destructor # "none" => port # "none"

LinkInv == LinkTypeOK /\ StopIsFinal /\ NullOnlyAtStart /\ OneLateFrame

LEMMA InitLink == LinkInit => LinkInv
<1> SUFFICES ASSUME LinkInit PROVE LinkInv
  OBVIOUS
<1>1. LinkTypeOK
  <2>1. plugged \in BOOLEAN /\ is_usb_ok_ \in BOOLEAN
    BY DEF LinkInit
  <2>2. ok \in BOOLEAN /\ crashed \in BOOLEAN
    BY DEF LinkInit
  <2>3. zeros \in 0 .. 3 /\ late \in Nat /\ faults \in 0 .. MaxFaults
    BY FaultsAssumption DEF LinkInit
  <2>4. QED
    BY <2>1, <2>2, <2>3 DEF LinkInit, LinkTypeOK
<1>2. StopIsFinal
  BY DEF LinkInit, StopIsFinal
<1>3. NullOnlyAtStart
  BY DEF LinkInit, NullOnlyAtStart
<1>4. OneLateFrame
  BY DEF LinkInit, OneLateFrame
<1>5. QED
  BY <1>1, <1>2, <1>3, <1>4 DEF LinkInv

(* The steps of the device and of the protecting thread touch neither the  *)
(* frames nor the thread that writes them.                                 *)
LEMMA EnvironmentStep == LinkInv /\ (Unplug \/ Plug \/ Shutdown \/ Crash) => LinkInv'
<1> SUFFICES ASSUME LinkInv, Unplug \/ Plug \/ Shutdown \/ Crash PROVE LinkInv'
  OBVIOUS
<1> USE FaultsAssumption DEF LinkInv, LinkTypeOK, StopIsFinal, NullOnlyAtStart, OneLateFrame, threadVars
<1>1. CASE Unplug
  <2>0. plugged' \in BOOLEAN
    BY <1>1 DEF Unplug
  <2>1. faults' \in 0 .. MaxFaults
    BY <1>1 DEF Unplug
  <2>2. port' \in {"none", "closed", "open", "stale"} /\ (port' = "none" <=> port = "none")
    BY <1>1 DEF Unplug
  <2>3. QED
    BY <1>1, <2>0, <2>1, <2>2 DEF Unplug
<1>2. CASE Plug
  BY <1>2 DEF Plug
<1>3. CASE Shutdown
  BY <1>3 DEF Shutdown
<1>4. CASE Crash
  BY <1>4 DEF Crash
<1>5. QED
  BY <1>1, <1>2, <1>3, <1>4

LEMMA ProtectPreserves == LinkInv /\ Protect => LinkInv'
<1> SUFFICES ASSUME LinkInv, Protect PROVE LinkInv'
  OBVIOUS
<1> USE DEF LinkInv, LinkTypeOK, StopIsFinal, NullOnlyAtStart, OneLateFrame, ProtectStep
<1>1. CASE InitPort
  BY <1>1 DEF InitPort
<1>2. CASE OpenFirst
  BY <1>2 DEF OpenFirst
<1>3. CASE AssumeOk
  BY <1>3 DEF AssumeOk
<1>4. CASE TestProtect
  BY <1>4 DEF TestProtect
<1>5. CASE ClosePort
  BY <1>5 DEF ClosePort
<1>6. CASE OpenPort
  BY <1>6 DEF OpenPort
<1>7. CASE Confirm
  BY <1>7 DEF Confirm
<1>8. QED
  BY <1>1, <1>2, <1>3, <1>4, <1>5, <1>6, <1>7 DEF Protect

LEMMA ReceivePreserves == LinkInv /\ (Receive \/ PacketThrows) => LinkInv'
<1> SUFFICES ASSUME LinkInv, Receive \/ PacketThrows PROVE LinkInv'
  OBVIOUS
<1>1. CASE receive = "read" /\ Crash
  BY <1>1, EnvironmentStep
<1> USE FaultsAssumption DEF LinkInv, LinkTypeOK, StopIsFinal, NullOnlyAtStart, OneLateFrame, ReceiveStep
<1>2. CASE TestReceive
  BY <1>2 DEF TestReceive
<1>3. CASE Read
  BY <1>3 DEF Read
<1>4. CASE CatchReceive
  BY <1>4 DEF CatchReceive
<1>5. CASE PacketThrows
  BY <1>5 DEF PacketThrows
<1>6. QED
  BY <1>1, <1>2, <1>3, <1>4, <1>5 DEF Receive

LEMMA SendPreserves == LinkInv /\ Send => LinkInv'
<1> SUFFICES ASSUME LinkInv, Send PROVE LinkInv'
  OBVIOUS
<1>1. CASE send = "write" /\ Crash
  BY <1>1, EnvironmentStep
<1> USE DEF LinkInv, LinkTypeOK, StopIsFinal, NullOnlyAtStart, OneLateFrame, SendStep
<1>2. CASE TestSend
  <2>1. ok => late = 0
    OBVIOUS
  <2>2. QED
    BY <1>2, <2>1 DEF TestSend
<1>3. CASE Write
  <2>1. late = 0
    BY <1>3 DEF Write
  <2>2. QED
    BY <1>3, <2>1 DEF Write
<1>4. CASE CatchSend
  BY <1>4 DEF CatchSend
<1>5. QED
  BY <1>1, <1>2, <1>3, <1>4 DEF Send

LEMMA DestroyPreserves == LinkInv /\ Destroy => LinkInv'
<1> SUFFICES ASSUME LinkInv, Destroy PROVE LinkInv'
  OBVIOUS
<1>1. CASE destructor = "none" /\ ~ok /\ Crash
  BY <1>1, EnvironmentStep
<1> USE DEF LinkInv, LinkTypeOK, StopIsFinal, NullOnlyAtStart, OneLateFrame, DestructorStep
<1>2. CASE BeginDestruction
  BY <1>2 DEF BeginDestruction
<1>3. CASE SendZero
  BY <1>3 DEF SendZero, AllSent
<1>4. CASE JoinAndClose
  BY <1>4 DEF JoinAndClose
<1>5. QED
  BY <1>1, <1>2, <1>3, <1>4 DEF Destroy

LEMMA NextPreserves == LinkInv /\ [LinkNext]_linkVars => LinkInv'
<1> SUFFICES ASSUME LinkInv, [LinkNext]_linkVars PROVE LinkInv'
  OBVIOUS
<1>1. CASE UNCHANGED linkVars
  BY <1>1 DEF LinkInv, LinkTypeOK, StopIsFinal, NullOnlyAtStart, OneLateFrame, linkVars, threadVars
<1>2. QED
  BY <1>1, EnvironmentStep, ProtectPreserves, ReceivePreserves, SendPreserves, DestroyPreserves DEF LinkNext

(* The invariant holds in every behaviour. *)
THEOREM LinkCorrect == LinkSpec => []LinkInv
  BY InitLink, NextPreserves, PTL DEF LinkSpec

(* Every variable of the link keeps its type. *)
THEOREM LinkTypes == LinkSpec => []LinkTypeOK
<1>1. LinkInv => LinkTypeOK
  BY DEF LinkInv
<1>2. QED
  BY <1>1, LinkCorrect, PTL

(* After the first zero frame of the destructor the sending thread writes  *)
(* at most one frame more, however the threads are scheduled.              *)
THEOREM StopsAfterOneFrame == LinkSpec => []OneLateFrame
<1>1. LinkInv => OneLateFrame
  BY DEF LinkInv
<1>2. QED
  BY <1>1, LinkCorrect, PTL

-----------------------------------------------------------------------------
(***************************************************************************)
(* RobotPackets: while nothing came in between (lapse), whatever was asked *)
(* detector last is the color of the last status, in each of the stages    *)
(* that a request passes through.                                          *)
(***************************************************************************)
Requests ==
  {None} \cup [state : {"lost"}] \cup [state : {"sent", "lost"}, color : Colors]
  \cup [state : {"answered"}, successful : BOOLEAN]

Lapses == {"", "unsent", "lost", "refused", "overtaken", "restarted"}

ColorTypes ==
  /\ handling \in {"read", "param", "request", "sleep"}
  /\ previous_receive_color_ \in Colors
  /\ initial_set_param_ \in BOOLEAN /\ lapse \in Lapses
  /\ request \in Requests /\ callback \in Requests
  /\ running \subseteq Nodes
  /\ detect_color \in [Nodes -> Colors]
  /\ stray \in [Colors -> Nat] /\ restarts \in Nat

Shown == detect_color[detector_node_name_] = previous_receive_color_

(* From the request to the answer, to its callback and to the time after.  *)
AskedLast ==
  lapse = "" /\ handling \in {"read", "sleep"} =>
    /\ request.state = "sent" => request.color = previous_receive_color_
    /\ request.state = "answered" /\ request.successful => Shown
    /\ request = None /\ callback # None /\ callback.successful => Shown
    /\ request = None /\ callback = None /\ initial_set_param_ => Shown
    /\ ~(request = None /\ callback = None /\ ~initial_set_param_) => detector_node_name_ \in Nodes

(* A callback is that of an answer. *)
ColorInv ==
  /\ ColorTypes
  /\ callback # None => callback.state = "answered"
  /\ AskedLast

LEMMA SentIs ==
  ASSUME NEW r \in Requests, r.state = "sent"
  PROVE  r.color \in Colors
  <1>1. CASE r \in [state : {"sent", "lost"}, color : Colors]
    BY <1>1
  <1>2. CASE r = None
    BY <1>2 DEF None
  <1>3. CASE r \in [state : {"lost"}]
    BY <1>3
  <1>4. CASE r \in [state : {"answered"}, successful : BOOLEAN]
    BY <1>4
  <1> QED
    BY <1>1, <1>2, <1>3, <1>4 DEF Requests

LEMMA ColorInit == PacketsInit => ColorInv
  <1> SUFFICES ASSUME PacketsInit
               PROVE  ColorInv
    OBVIOUS
  <1>1. ColorTypes
    BY DEF PacketsInit, ColorTypes, Requests, Colors, Lapses
  <1>2. request = None /\ callback = None /\ ~initial_set_param_ /\ None.state = "none"
    BY DEF PacketsInit, None
  <1> QED
    BY <1>1, <1>2 DEF ColorInv, AskedLast

LEMMA ReceivePacketKeeps ==
  ASSUME ColorInv, NEW p \in Received, ReceivePacket(p)
  PROVE  ColorInv'
  <1>1. /\ handling = "read"
        /\ UNCHANGED <<initial_set_param_, detector_node_name_, request, callback, stray, running,
                       detect_color, restarts, lapse>>
    BY DEF ReceivePacket
  <1>2. \/ handling' = "param" /\ previous_receive_color_' \in Colors
        \/ UNCHANGED <<handling, previous_receive_color_>>
    BY DEF ReceivePacket, DetectColor, Colors
  <1>3. ColorTypes'
    BY <1>1, <1>2 DEF ColorInv, ColorTypes
  <1> QED
    BY <1>1, <1>2, <1>3 DEF ColorInv, AskedLast, Shown

LEMMA FindDetectorKeeps ==
  ASSUME ColorInv, FindDetector
  PROVE  ColorInv'
  <1>1. /\ lapse' = "unsent" /\ handling' \in {"sleep", "request"}
        /\ UNCHANGED <<initial_set_param_, previous_receive_color_, callback, running, detect_color, restarts>>
    BY DEF FindDetector
  <1>2. request' \in {request, None} /\ None \in Requests
    BY DEF FindDetector, Requests
  <1>3. stray' \in [Colors -> Nat]
    <2>1. stray \in [Colors -> Nat]
      BY DEF ColorInv, ColorTypes
    <2>2. \A same \in BOOLEAN : Replaced(request, same) \in [Colors -> Nat]
      BY <2>1 DEF Replaced
    <2>3. stray' = stray \/ \E same \in BOOLEAN : stray' = Replaced(request, same)
      BY DEF FindDetector
    <2> QED
      BY <2>1, <2>2, <2>3
  <1>4. ColorTypes'
    BY <1>1, <1>2, <1>3 DEF ColorInv, ColorTypes, Lapses
  <1> QED
    BY <1>1, <1>4 DEF ColorInv, AskedLast

LEMMA RequestColorKeeps ==
  ASSUME ColorInv, RequestColor
  PROVE  ColorInv'
  <1>1. /\ handling' = "sleep"
        /\ UNCHANGED <<initial_set_param_, previous_receive_color_, detector_node_name_, callback, stray,
                       running, detect_color, restarts>>
    BY DEF RequestColor
  <1>2. CASE set_param_future_ = "pending"
    <2>1. lapse' = "unsent" /\ request' = request
      BY <1>2 DEF RequestColor
    <2> QED
      BY <1>1, <2>1 DEF ColorInv, ColorTypes, AskedLast, Lapses
  <1>3. CASE set_param_future_ # "pending"
    <2>1. /\ request' = [state |-> IF detector_node_name_ \in running THEN "sent" ELSE "lost",
                         color |-> previous_receive_color_]
          /\ lapse' = IF detector_node_name_ \in running THEN "" ELSE "lost"
      BY <1>3 DEF RequestColor
    <2>2. request'.state \in {"sent", "lost"} /\ request'.color = previous_receive_color_
          /\ request' \in Requests /\ request' # None
      <3>1. request' \in [state : {"sent", "lost"}, color : Colors]
        BY <2>1 DEF ColorInv, ColorTypes
      <3> QED
        BY <2>1, <3>1 DEF Requests, None
    <2>3. lapse' \in Lapses /\ (lapse' = "" => detector_node_name_' \in Nodes)
      BY <1>1, <2>1 DEF ColorInv, ColorTypes, Lapses
    <2>4. ColorTypes'
      BY <1>1, <2>2, <2>3 DEF ColorInv, ColorTypes
    <2> QED
      BY <1>1, <2>2, <2>3, <2>4 DEF ColorInv, AskedLast
  <1> QED
    BY <1>2, <1>3

LEMMA AnswersKeep ==
  ASSUME ColorInv, NEW successful \in BOOLEAN, DetectorAnswers(successful)
  PROVE  ColorInv'
  <1>1. /\ request.state = "sent" /\ detector_node_name_ \in Nodes
        /\ request' = [state |-> "answered", successful |-> successful]
        /\ detect_color' = (IF successful THEN [detect_color EXCEPT ![detector_node_name_] = request.color]
                            ELSE detect_color)
        /\ UNCHANGED <<handling, initial_set_param_, previous_receive_color_, detector_node_name_, callback,
                       stray, running, restarts, lapse>>
    BY DEF DetectorAnswers, ColorInv, ColorTypes
  <1>2. request.color \in Colors
    BY <1>1, SentIs DEF ColorInv, ColorTypes
  <1>3. detect_color' \in [Nodes -> Colors] /\ (successful => detect_color'[detector_node_name_] = request.color)
    BY <1>1, <1>2 DEF ColorInv, ColorTypes
  <1>4. /\ request' \in Requests /\ request' # None
        /\ request'.state = "answered" /\ request'.successful = successful
    BY <1>1 DEF Requests, None
  <1>5. ColorTypes'
    BY <1>1, <1>3, <1>4 DEF ColorInv, ColorTypes
  <1> QED
    BY <1>1, <1>3, <1>4, <1>5 DEF ColorInv, AskedLast, Shown

LEMMA StrayKeeps ==
  ASSUME ColorInv, NEW c \in Colors, StrayArrives(c)
  PROVE  ColorInv'
  <1>1. /\ stray[c] > 0 /\ detector_node_name_ \in Nodes
        /\ stray' = [stray EXCEPT ![c] = @ - 1]
        /\ detect_color' = [detect_color EXCEPT ![detector_node_name_] = c]
        /\ lapse' = IF request.state # "sent" /\ c # previous_receive_color_ THEN "overtaken" ELSE lapse
        /\ UNCHANGED <<handling, initial_set_param_, previous_receive_color_, detector_node_name_, request,
                       callback, running, restarts>>
    BY DEF StrayArrives, ColorInv, ColorTypes
  <1>2. stray' \in [Colors -> Nat] /\ detect_color' \in [Nodes -> Colors]
        /\ detect_color'[detector_node_name_] = c
    <2>1. stray \in [Colors -> Nat] /\ detect_color \in [Nodes -> Colors]
      BY DEF ColorInv, ColorTypes
    <2>2. stray' \in [Colors -> Nat]
      <3>1. stray[c] - 1 \in Nat
        BY <1>1, <2>1
      <3> QED
        BY <1>1, <2>1, <3>1
    <2>3. detect_color' \in [Nodes -> Colors] /\ detect_color'[detector_node_name_] = c
      BY <1>1, <2>1
    <2> QED
      BY <2>2, <2>3
  <1>3. lapse' \in Lapses
    BY <1>1 DEF ColorInv, ColorTypes, Lapses
  <1>4. ColorTypes'
    BY <1>1, <1>2, <1>3 DEF ColorInv, ColorTypes
  <1>5. AskedLast'
    <2>1. None.state # "sent"
      BY DEF None
    <2>2. lapse' = "" => lapse = "" /\ (request.state # "sent" => c = previous_receive_color_)
      BY <1>1
    <2>3. UNCHANGED <<handling, initial_set_param_, previous_receive_color_, detector_node_name_, request,
                      callback>>
      BY <1>1
    <2>4. request.state # "answered" \/ request.state # "sent"
      OBVIOUS
    <2>5. CASE lapse' = ""
      <3>1. AskedLast /\ lapse = "" /\ (request.state # "sent" => c = previous_receive_color_)
        BY <2>2, <2>5 DEF ColorInv
      <3>2. request.state # "sent" => Shown'
        BY <1>2, <2>3, <3>1 DEF Shown
      <3>3. request = None => request.state # "sent"
        BY <2>1
      <3>4. handling' \in {"read", "sleep"} => handling \in {"read", "sleep"}
        BY <2>3
      <3> QED
        BY <2>3, <3>1, <3>2, <3>3, <3>4, <2>4, Zenon DEF AskedLast
    <2> QED
      BY <2>5 DEF AskedLast
  <1> QED
    BY <1>1, <1>4, <1>5 DEF ColorInv

LEMMA TakeAnswerKeeps ==
  ASSUME ColorInv, TakeAnswer
  PROVE  ColorInv'
  <1>1. /\ request.state = "answered" /\ callback = None /\ callback' = request /\ request' = None
        /\ UNCHANGED <<handling, initial_set_param_, previous_receive_color_, detector_node_name_, stray,
                       running, detect_color, restarts, lapse>>
    BY DEF TakeAnswer
  <1>2. None.state = "none" /\ None \in Requests
    BY DEF None, Requests
  <1>3. ColorTypes'
    BY <1>1, <1>2 DEF ColorInv, ColorTypes
  <1> QED
    BY <1>1, <1>2, <1>3 DEF ColorInv, AskedLast, Shown

LEMMA CallbackKeeps ==
  ASSUME ColorInv, SetParamCallback
  PROVE  ColorInv'
  <1>1. /\ callback # None /\ callback' = None
        /\ initial_set_param_' = (callback.successful \/ initial_set_param_)
        /\ lapse' = IF initial_set_param_ /\ ~callback.successful THEN "refused" ELSE lapse
        /\ UNCHANGED <<handling, previous_receive_color_, detector_node_name_, request, stray, running,
                       detect_color, restarts>>
    BY DEF SetParamCallback, ParamSet
  <1>2. lapse' \in Lapses /\ initial_set_param_' \in BOOLEAN /\ None \in Requests
    BY <1>1 DEF ColorInv, ColorTypes, Requests, Lapses
  <1>3. ColorTypes'
    BY <1>1, <1>2 DEF ColorInv, ColorTypes
  <1> QED
    BY <1>1, <1>3 DEF ColorInv, AskedLast, Shown

LEMMA DetectorKeeps ==
  ASSUME ColorInv, NEW n \in Nodes, DetectorStops(n) \/ DetectorStarts(n)
  PROVE  ColorInv'
  <1>1. CASE DetectorStarts(n)
    <2>1. /\ running' = running \cup {n}
          /\ UNCHANGED <<handling, initial_set_param_, previous_receive_color_, detector_node_name_, request,
                         callback, stray, detect_color, restarts, lapse>>
      BY <1>1 DEF DetectorStarts
    <2> QED
      BY <2>1 DEF ColorInv, ColorTypes, AskedLast, Shown
  <1>2. CASE DetectorStops(n)
    <2>1. /\ running' = running \ {n} /\ restarts' = restarts + 1
          /\ detect_color' = [detect_color EXCEPT ![n] = 0]
          /\ UNCHANGED <<handling, initial_set_param_, previous_receive_color_, detector_node_name_, callback>>
      BY <1>2 DEF DetectorStops
    <2>2. /\ \/ n = detector_node_name_ /\ lapse' = "restarted"
             \/ n # detector_node_name_ /\ UNCHANGED <<lapse, request>>
          /\ request' \in {request, [state |-> "lost"]}
          /\ stray' \in {stray, [c \in Colors |-> 0]}
      BY <1>2 DEF DetectorStops
    <2>3. /\ detect_color' \in [Nodes -> Colors]
          /\ n # detector_node_name_ /\ detector_node_name_ \in Nodes =>
               detect_color'[detector_node_name_] = detect_color[detector_node_name_]
      <3>1. 0 \in Colors /\ detect_color \in [Nodes -> Colors]
        BY DEF ColorInv, ColorTypes, Colors
      <3>2. detect_color' \in [Nodes -> Colors]
        BY <2>1, <3>1
      <3>3. n # detector_node_name_ /\ detector_node_name_ \in Nodes =>
              detect_color'[detector_node_name_] = detect_color[detector_node_name_]
        BY <2>1, <3>1
      <3> QED
        BY <3>2, <3>3
    <2>4. request' \in Requests
      BY <2>2 DEF ColorInv, ColorTypes, Requests
    <2>5. stray' \in [Colors -> Nat]
      BY <2>2 DEF ColorInv, ColorTypes
    <2>6. lapse' \in Lapses /\ restarts' \in Nat /\ running' \subseteq Nodes
      <3>1. lapse' \in Lapses
        BY <2>2 DEF ColorInv, ColorTypes, Lapses
      <3>2. restarts' \in Nat
        BY <2>1 DEF ColorInv, ColorTypes
      <3>3. running' \subseteq Nodes
        BY <2>1 DEF ColorInv, ColorTypes
      <3> QED
        BY <3>1, <3>2, <3>3
    <2>7. ColorTypes'
      BY <2>1, <2>3, <2>4, <2>5, <2>6 DEF ColorInv, ColorTypes
    <2>8. CASE n = detector_node_name_
      <3>1. lapse' # ""
        BY <2>2, <2>8
      <3>2. callback # None => callback.state = "answered"
        BY DEF ColorInv
      <3> QED
        BY <2>1, <2>7, <3>1, <3>2 DEF ColorInv, AskedLast
    <2>9. CASE n # detector_node_name_
      <3>1. UNCHANGED <<lapse, request, handling, initial_set_param_, previous_receive_color_, callback,
                        detector_node_name_>>
        BY <2>1, <2>2, <2>9
      <3>2. detector_node_name_ \in Nodes /\ Shown => Shown'
        BY <2>3, <2>9, <3>1 DEF Shown
      <3>3. request.state = "answered" => request # None
        BY DEF None
      <3>4. lapse' = lapse /\ request' = request /\ handling' = handling
            /\ initial_set_param_' = initial_set_param_ /\ callback' = callback
            /\ previous_receive_color_' = previous_receive_color_
            /\ detector_node_name_' = detector_node_name_
        BY <3>1
      <3>5. AskedLast'
        BY <3>2, <3>3, <3>4, Zenon DEF ColorInv, AskedLast
      <3> QED
        BY <2>7, <3>1, <3>5 DEF ColorInv
    <2> QED
      BY <2>8, <2>9
  <1> QED
    BY <1>1, <1>2

LEMMA ColorStep == ColorInv /\ [PacketsNext]_packetVars => ColorInv'
  <1> SUFFICES ASSUME ColorInv, [PacketsNext]_packetVars
               PROVE  ColorInv'
    OBVIOUS
  <1>1. ASSUME UNCHANGED colorVars, UNCHANGED handling \/ (handling = "sleep" /\ handling' = "read")
        PROVE  ColorInv'
    BY <1>1 DEF colorVars, ColorInv, ColorTypes, AskedLast, Shown
  <1>2. CASE Reopen \/ Wake \/ CallbackNext
    BY <1>1, <1>2 DEF Reopen, Wake, CallbackNext, CmdGimbalJointCallback, VisionTargetCallback,
                      CmdShootCallback, Commanded
  <1>3. CASE UNCHANGED packetVars
    BY <1>1, <1>3 DEF packetVars
  <1>4. CASE ReceiverNext
    BY <1>2, <1>4, ReceivePacketKeeps, FindDetectorKeeps, RequestColorKeeps, AnswersKeep, StrayKeeps,
       TakeAnswerKeeps, CallbackKeeps, DetectorKeeps DEF ReceiverNext
  <1> QED
    BY <1>2, <1>3, <1>4 DEF PacketsNext

(* Where the colour last received stands or is on its way, in every behaviour. *)
THEOREM ColorInvariant == PacketsSpec => []ColorInv
  BY ColorInit, ColorStep, PTL DEF PacketsSpec

(***************************************************************************)
(* For any detectors, packets and parameters, and any number of replaced   *)
(* clients and of restarts of a detector: the color is the last one but    *)
(* for the five reasons that ColorIsCurrent names.                         *)
(***************************************************************************)
THEOREM ColorIsAlwaysCurrent == PacketsSpec => []ColorIsCurrent
  <1>1. ColorInv => ColorIsCurrent
    BY DEF ColorInv, ColorTypes, Lapses, AskedLast, Shown, ColorIsCurrent
  <1> QED
    BY <1>1, ColorInvariant, PTL
=============================================================================
