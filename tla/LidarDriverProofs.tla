--------------------------- MODULE LidarDriverProofs ---------------------------
(***************************************************************************)
(* Proofs about the threads and callbacks of the driver: LidarHandoff, for *)
(* every number of lidars and every size of the rings; LidarSetup, for     *)
(* every network of lidars, every configuration file and every size of the *)
(* index.                                                                  *)
(***************************************************************************)
EXTENDS LidarHandoff, LidarSetup, FiniteSetTheorems, TLAPS

-----------------------------------------------------------------------------
(* LidarHandoff. *)

(* The scan under way, or the last one, has been at lidar l. *)
Passed(c, l) ==
  \/ polling[c] \in {"test", "wait", "future", "done"}
  \/ polling[c] \in {"scan", "drain", "publish"} /\ l < lidar[c]

(* The storing thread has yet to see to the packet it stored for l. *)
Seeing(c, l) == storing[c].step \in {"stored", "count"} /\ storing[c].at = l

(* The poll thread will scan again, or a packet of l is being seen to. *)
WillScan(c, l) == count[c] > 0 \/ storing[c].step = "signal" \/ Seeing(c, l)

(* A packet behind the scan has a wakeup to come.  Once the exit is        *)
(* requested a scan may leave packets behind, but then the poll thread     *)
(* does not come to wait again.                                            *)
PacketsAreOwed(c) ==
  ~request_exit \/ polling[c] = "wait" =>
    \A l \in Lidars \ skipped[c] :
      length[c][l] > 0 /\ Passed(c, l) => WillScan(c, l)

(* Only one thread signals, and only after it has seen the count at zero.  *)
OneSignal(c) == storing[c].step = "signal" => count[c] = 0

(* The poll thread works on a lidar that there is. *)
AtLidar(c) == polling[c] \in {"drain", "publish"} => lidar[c] \in Lidars

(* NoLostWakeup speaks of a thread that waits; the invariant has to follow *)
(* each packet through the scan and through the storing thread.            *)
HandoffInv ==
  /\ HandoffTypeOK
  /\ \A c \in Channels : OneSignal(c) /\ AtLidar(c) /\ PacketsAreOwed(c)

LEMMA InitHandoff == HandoffInit => HandoffInv
<1>1. SUFFICES ASSUME HandoffInit PROVE HandoffInv
  OBVIOUS
<1>2. lidar_count \in Nat /\ 1 \in 1 .. lidar_count /\ 0 \in 0 .. Capacity
        /\ 1 \in 1 .. lidar_count + 1
  BY HandoffParameters
<1>3. HandoffTypeOK
  <2>1. length \in [Channels -> [Lidars -> 0 .. Capacity]]
    BY <1>1, <1>2 DEF HandoffInit
  <2>2. storing \in [Channels -> [step : StoringSteps, at : Lidars]]
    BY <1>1, <1>2 DEF HandoffInit, StoringSteps, Lidars
  <2>3. /\ lidar_state \in [Lidars -> {"off", "sampling"}]
        /\ count \in [Channels -> 0 .. 1]
        /\ polling \in [Channels -> PollingSteps]
        /\ lidar \in [Channels -> 1 .. lidar_count + 1]
    BY <1>1, <1>2 DEF HandoffInit, PollingSteps
  <2>4. skipped \in [Channels -> SUBSET Lidars]
    BY <1>1 DEF HandoffInit
  <2>5. QED
    BY <1>1, <2>1, <2>2, <2>3, <2>4 DEF HandoffInit, HandoffTypeOK
<1>4. QED
  BY <1>1, <1>3 DEF HandoffInit, HandoffInv, OneSignal, AtLidar, PacketsAreOwed, Passed, Channels, Lidars

(* What a step of channel c leaves alone in the other channel. *)
LEMMA OtherChannel ==
  ASSUME NEW d \in Channels,
         length'[d] = length[d], count'[d] = count[d], storing'[d] = storing[d],
         polling'[d] = polling[d], lidar'[d] = lidar[d], skipped'[d] = skipped[d],
         request_exit' = request_exit,
         OneSignal(d), AtLidar(d), PacketsAreOwed(d)
  PROVE  OneSignal(d)' /\ AtLidar(d)' /\ PacketsAreOwed(d)'
  BY DEF OneSignal, AtLidar, PacketsAreOwed, Passed, WillScan, Seeing

(* The effect of the two updates of nested data. *)
LEMMA StoreThenEffect ==
  ASSUME HandoffTypeOK, NEW c \in Channels, NEW step \in StoringSteps, NEW l \in Lidars,
         StoreThen(c, step, l)
  PROVE  /\ storing' \in [Channels -> [step : StoringSteps, at : Lidars]]
         /\ storing'[c].step = step /\ storing'[c].at = l
         /\ \A d \in Channels : d # c => storing'[d] = storing[d]
<1>1. [step |-> step, at |-> l] \in [step : StoringSteps, at : Lidars]
  OBVIOUS
<1>2. QED
  BY <1>1 DEF StoreThen, HandoffTypeOK

LEMMA LengthEffect ==
  ASSUME HandoffTypeOK, NEW c \in Channels, NEW l \in Lidars, NEW n \in 0 .. Capacity,
         length' = [length EXCEPT ![c][l] = n]
  PROVE  /\ length' \in [Channels -> [Lidars -> 0 .. Capacity]]
         /\ length'[c][l] = n
         /\ \A k \in Lidars : k # l => length'[c][k] = length[c][k]
         /\ \A d \in Channels : d # c => length'[d] = length[d]
<1>1. length \in [Channels -> [Lidars -> 0 .. Capacity]] /\ length[c] \in [Lidars -> 0 .. Capacity]
  BY DEF HandoffTypeOK
<1>2. [length[c] EXCEPT ![l] = n] \in [Lidars -> 0 .. Capacity]
  BY <1>1
<1>3. length' = [length EXCEPT ![c] = [length[c] EXCEPT ![l] = n]]
  BY <1>1
<1>4. QED
  BY <1>1, <1>2, <1>3

LEMMA LookAtQueueKeeps ==
  ASSUME HandoffInv, NEW c \in Channels, LookAtQueue(c)
  PROVE  HandoffInv'
<1>1. HandoffTypeOK /\ storing[c].at \in Lidars
  BY DEF HandoffInv, HandoffTypeOK
<1>2. PICK step \in {"idle", "count"} :
        /\ StoreThen(c, step, storing[c].at)
        /\ step = "idle" => length[c][storing[c].at] = 0
  BY DEF LookAtQueue
<1>3. /\ storing' \in [Channels -> [step : StoringSteps, at : Lidars]]
      /\ storing'[c].step = step /\ storing'[c].at = storing[c].at
      /\ \A d \in Channels : d # c => storing'[d] = storing[d]
  BY <1>1, <1>2, StoreThenEffect DEF StoringSteps
<1>4. /\ storing[c].step = "stored"
      /\ UNCHANGED <<lidar_state, length, count, polling, lidar, skipped,
                     request_exit, exit_signal, driver>>
  BY DEF LookAtQueue, queueVars, pollVars, exitVars
<1>5. HandoffTypeOK'
  BY <1>1, <1>3, <1>4 DEF HandoffTypeOK
<1>6. ASSUME NEW d \in Channels, d # c
      PROVE  OneSignal(d)' /\ AtLidar(d)' /\ PacketsAreOwed(d)'
  BY <1>3, <1>4, <1>6, OtherChannel DEF HandoffInv
<1>7. OneSignal(c)' /\ AtLidar(c)'
  BY <1>3, <1>4 DEF HandoffInv, OneSignal, AtLidar
<1>8. PacketsAreOwed(c)'
  BY <1>1, <1>2, <1>3, <1>4 DEF HandoffInv, PacketsAreOwed, Passed, WillScan, Seeing
<1>9. QED
  BY <1>5, <1>6, <1>7, <1>8 DEF HandoffInv

LEMMA LookAtCountKeeps ==
  ASSUME HandoffInv, NEW c \in Channels, LookAtCount(c)
  PROVE  HandoffInv'
<1>1. HandoffTypeOK /\ storing[c].at \in Lidars /\ count[c] \in 0 .. 1
  BY DEF HandoffInv, HandoffTypeOK
<1>2. PICK step \in {"idle", "signal"} :
        /\ StoreThen(c, step, storing[c].at)
        /\ step = "idle" <=> count[c] > 0
  BY <1>1 DEF LookAtCount
<1>3. /\ storing' \in [Channels -> [step : StoringSteps, at : Lidars]]
      /\ storing'[c].step = step /\ storing'[c].at = storing[c].at
      /\ \A d \in Channels : d # c => storing'[d] = storing[d]
  BY <1>1, <1>2, StoreThenEffect DEF StoringSteps
<1>4. /\ storing[c].step = "count"
      /\ UNCHANGED <<lidar_state, length, count, polling, lidar, skipped,
                     request_exit, exit_signal, driver>>
  BY DEF LookAtCount, queueVars, pollVars, exitVars
<1>5. HandoffTypeOK'
  BY <1>1, <1>3, <1>4 DEF HandoffTypeOK
<1>6. ASSUME NEW d \in Channels, d # c
      PROVE  OneSignal(d)' /\ AtLidar(d)' /\ PacketsAreOwed(d)'
  BY <1>3, <1>4, <1>6, OtherChannel DEF HandoffInv
<1>7. OneSignal(c)' /\ AtLidar(c)'
  BY <1>1, <1>2, <1>3, <1>4 DEF HandoffInv, OneSignal, AtLidar
<1>8. PacketsAreOwed(c)'
  BY <1>1, <1>2, <1>3, <1>4 DEF HandoffInv, PacketsAreOwed, Passed, WillScan, Seeing
<1>9. QED
  BY <1>5, <1>6, <1>7, <1>8 DEF HandoffInv

LEMMA SignalKeeps ==
  ASSUME HandoffInv, NEW c \in Channels, Signal(c)
  PROVE  HandoffInv'
<1>1. HandoffTypeOK /\ storing[c].at \in Lidars /\ count[c] = 0
  BY DEF HandoffInv, HandoffTypeOK, Signal, OneSignal
<1>2. /\ storing' \in [Channels -> [step : StoringSteps, at : Lidars]]
      /\ storing'[c].step = "idle"
      /\ \A d \in Channels : d # c => storing'[d] = storing[d]
  BY <1>1, StoreThenEffect DEF StoringSteps, Signal
<1>3. /\ count' \in [Channels -> 0 .. 1] /\ count'[c] = 1
      /\ \A d \in Channels : d # c => count'[d] = count[d]
  BY <1>1 DEF Signal, HandoffTypeOK
<1>4. UNCHANGED <<lidar_state, length, polling, lidar, skipped,
                  request_exit, exit_signal, driver>>
  BY DEF Signal, pollVars, exitVars
<1>5. HandoffTypeOK'
  BY <1>1, <1>2, <1>3, <1>4 DEF HandoffTypeOK
<1>6. ASSUME NEW d \in Channels, d # c
      PROVE  OneSignal(d)' /\ AtLidar(d)' /\ PacketsAreOwed(d)'
  BY <1>2, <1>3, <1>4, <1>6, OtherChannel DEF HandoffInv
<1>7. OneSignal(c)' /\ AtLidar(c)'
  BY <1>2, <1>4 DEF HandoffInv, OneSignal, AtLidar
<1>8. PacketsAreOwed(c)'
  BY <1>3 DEF PacketsAreOwed, WillScan
<1>9. QED
  BY <1>5, <1>6, <1>7, <1>8 DEF HandoffInv

LEMMA PushKeeps ==
  ASSUME HandoffInv, NEW c \in Channels, NEW l \in Lidars, PushPacket(c, l)
  PROVE  HandoffInv'
<1>1. HandoffTypeOK /\ Capacity \in Nat /\ length[c][l] \in 0 .. Capacity
  BY HandoffParameters DEF HandoffInv, HandoffTypeOK
<1>2. PICK step \in {"stored", "count"} : StoreThen(c, step, l)
  BY DEF PushPacket
<1>3. /\ storing' \in [Channels -> [step : StoringSteps, at : Lidars]]
      /\ storing'[c].step = step /\ storing'[c].at = l
      /\ \A d \in Channels : d # c => storing'[d] = storing[d]
  BY <1>1, <1>2, StoreThenEffect DEF StoringSteps
<1>4. /\ storing[c].step = "idle"
      /\ UNCHANGED <<lidar_state, count, polling, lidar, skipped,
                     request_exit, exit_signal, driver>>
  BY DEF PushPacket, pollVars, exitVars
<1>5. /\ length' \in [Channels -> [Lidars -> 0 .. Capacity]]
      /\ \A k \in Lidars : k # l => length'[c][k] = length[c][k]
      /\ \A d \in Channels : d # c => length'[d] = length[d]
  <2>1. CASE Full(c, l)
    BY <1>1, <2>1 DEF PushPacket, HandoffTypeOK
  <2>2. CASE ~Full(c, l)
    <3>1. length[c][l] + 1 \in 0 .. Capacity
      BY <1>1, <2>2 DEF Full
    <3>2. length' = [length EXCEPT ![c][l] = length[c][l] + 1]
      BY <2>2 DEF PushPacket
    <3>3. QED
      BY <1>1, <3>1, <3>2, LengthEffect
  <2>3. QED
    BY <2>1, <2>2
<1>6. HandoffTypeOK'
  BY <1>1, <1>3, <1>4, <1>5 DEF HandoffTypeOK
<1>7. ASSUME NEW d \in Channels, d # c
      PROVE  OneSignal(d)' /\ AtLidar(d)' /\ PacketsAreOwed(d)'
  BY <1>3, <1>4, <1>5, <1>7, OtherChannel DEF HandoffInv
<1>8. OneSignal(c)' /\ AtLidar(c)'
  BY <1>3, <1>4 DEF HandoffInv, OneSignal, AtLidar
<1>9. PacketsAreOwed(c)'
  <2>1. SUFFICES ASSUME ~request_exit' \/ polling'[c] = "wait",
                        NEW k \in Lidars \ skipped'[c], length'[c][k] > 0, Passed(c, k)'
                 PROVE  WillScan(c, k)'
    BY DEF PacketsAreOwed
  <2>2. CASE k = l
    BY <1>3, <2>2 DEF WillScan, Seeing
  <2>3. CASE k # l
    <3>1. WillScan(c, k)
      BY <1>4, <1>5, <2>1, <2>3 DEF HandoffInv, PacketsAreOwed, Passed
    <3>2. QED
      BY <1>4, <3>1 DEF WillScan, Seeing
  <2>4. QED
    BY <2>2, <2>3
<1>10. QED
  BY <1>6, <1>7, <1>8, <1>9 DEF HandoffInv

(* A poll thread that goes on to another step without touching anything    *)
(* else, and without putting a lidar behind the scan.                      *)
LEMMA PollThenKeeps ==
  ASSUME HandoffInv, NEW c \in Channels, NEW step \in PollingSteps, PollThen(c, step),
         UNCHANGED <<lidar_state, queueVars, storing, lidar, skipped, exitVars>>,
         step \in {"drain", "publish"} => lidar[c] \in Lidars,
         step = "wait" => ~request_exit,
         \A l \in Lidars : Passed(c, l)' => Passed(c, l)
  PROVE  HandoffInv'
<1>1. HandoffTypeOK
  BY DEF HandoffInv
<1>2. /\ polling' \in [Channels -> PollingSteps]
      /\ polling'[c] = step
      /\ \A d \in Channels : d # c => polling'[d] = polling[d]
  BY <1>1 DEF PollThen, HandoffTypeOK
<1>3. UNCHANGED <<lidar_state, length, count, storing, lidar, skipped,
                  request_exit, exit_signal, driver>>
  BY DEF queueVars, exitVars
<1>4. HandoffTypeOK'
  BY <1>1, <1>2, <1>3 DEF HandoffTypeOK
<1>5. ASSUME NEW d \in Channels, d # c
      PROVE  OneSignal(d)' /\ AtLidar(d)' /\ PacketsAreOwed(d)'
  BY <1>2, <1>3, <1>5, OtherChannel DEF HandoffInv
<1>6. OneSignal(c)' /\ AtLidar(c)'
  BY <1>2, <1>3 DEF HandoffInv, OneSignal, AtLidar
<1>7. PacketsAreOwed(c)'
  <2>1. SUFFICES ASSUME ~request_exit' \/ polling'[c] = "wait",
                        NEW k \in Lidars \ skipped'[c], length'[c][k] > 0, Passed(c, k)'
                 PROVE  WillScan(c, k)'
    BY DEF PacketsAreOwed
  <2>2. ~request_exit
    BY <1>2, <1>3, <2>1
  <2>3. WillScan(c, k)
    BY <1>3, <2>1, <2>2 DEF HandoffInv, PacketsAreOwed
  <2>4. QED
    BY <1>3, <2>3 DEF WillScan, Seeing
<1>8. QED
  BY <1>4, <1>5, <1>6, <1>7 DEF HandoffInv

LEMMA WaitKeeps ==
  ASSUME HandoffInv, NEW c \in Channels, Wait(c)
  PROVE  HandoffInv'
<1>1. HandoffTypeOK /\ count[c] = 1 /\ lidar_count \in Nat /\ 1 \in 1 .. lidar_count + 1
  BY HandoffParameters DEF HandoffInv, HandoffTypeOK, Wait
<1>2. /\ polling' \in [Channels -> PollingSteps]
      /\ polling'[c] = "scan"
      /\ \A d \in Channels : d # c => polling'[d] = polling[d]
  BY <1>1 DEF PollThen, HandoffTypeOK, PollingSteps, Wait
<1>3. /\ count' \in [Channels -> 0 .. 1] /\ count'[c] = 0
      /\ \A d \in Channels : d # c => count'[d] = count[d]
  BY <1>1 DEF Wait, HandoffTypeOK
<1>4. /\ lidar' \in [Channels -> 1 .. lidar_count + 1] /\ lidar'[c] = 1
      /\ \A d \in Channels : d # c => lidar'[d] = lidar[d]
  BY <1>1 DEF Wait, HandoffTypeOK
<1>5. /\ skipped' \in [Channels -> SUBSET Lidars]
      /\ \A d \in Channels : d # c => skipped'[d] = skipped[d]
  BY <1>1 DEF Wait, HandoffTypeOK
<1>6. UNCHANGED <<lidar_state, length, storing, request_exit, exit_signal, driver>>
  BY DEF Wait, exitVars
<1>7. HandoffTypeOK'
  BY <1>1, <1>2, <1>3, <1>4, <1>5, <1>6 DEF HandoffTypeOK
<1>8. ASSUME NEW d \in Channels, d # c
      PROVE  OneSignal(d)' /\ AtLidar(d)' /\ PacketsAreOwed(d)'
  BY <1>2, <1>3, <1>4, <1>5, <1>6, <1>8, OtherChannel DEF HandoffInv
<1>9. OneSignal(c)' /\ AtLidar(c)'
  BY <1>2, <1>3 DEF OneSignal, AtLidar
<1>10. PacketsAreOwed(c)'
  <2>1. \A l \in Lidars : ~(l < lidar'[c])
    BY <1>4 DEF Lidars
  <2>2. QED
    BY <1>2, <2>1 DEF PacketsAreOwed, Passed
<1>11. QED
  BY <1>7, <1>8, <1>9, <1>10 DEF HandoffInv

(* The scan moves on to the next lidar: the one it leaves is skipped, or   *)
(* its queue is empty, or the exit is requested.                           *)
LEMMA NextLidarKeeps ==
  ASSUME HandoffInv, NEW c \in Channels, lidar[c] \in Lidars,
         polling[c] \in {"scan", "drain"}, polling'[c] = "scan",
         polling' \in [Channels -> PollingSteps],
         \A d \in Channels : d # c => polling'[d] = polling[d],
         lidar' = [lidar EXCEPT ![c] = lidar[c] + 1],
         skipped' \in [Channels -> SUBSET Lidars],
         skipped[c] \subseteq skipped'[c],
         \A d \in Channels : d # c => skipped'[d] = skipped[d],
         UNCHANGED <<lidar_state, queueVars, storing, exitVars>>,
         lidar[c] \in skipped'[c] \/ length[c][lidar[c]] = 0 \/ request_exit
  PROVE  HandoffInv'
<1>1. HandoffTypeOK /\ lidar_count \in Nat /\ lidar[c] \in 1 .. lidar_count
  BY HandoffParameters DEF HandoffInv, HandoffTypeOK, Lidars
<1>2. UNCHANGED <<lidar_state, length, count, storing, request_exit, exit_signal, driver>>
  BY DEF queueVars, exitVars
<1>3. /\ lidar' \in [Channels -> 1 .. lidar_count + 1]
      /\ lidar'[c] = lidar[c] + 1
      /\ \A d \in Channels : d # c => lidar'[d] = lidar[d]
  <2>1. lidar[c] + 1 \in 1 .. lidar_count + 1
    BY <1>1
  <2>2. QED
    BY <1>1, <2>1 DEF HandoffTypeOK
<1>4. HandoffTypeOK'
  BY <1>1, <1>2, <1>3 DEF HandoffTypeOK
<1>5. ASSUME NEW d \in Channels, d # c
      PROVE  OneSignal(d)' /\ AtLidar(d)' /\ PacketsAreOwed(d)'
  BY <1>2, <1>3, <1>5, OtherChannel DEF HandoffInv
<1>6. OneSignal(c)' /\ AtLidar(c)'
  BY <1>2 DEF HandoffInv, OneSignal, AtLidar
<1>7. PacketsAreOwed(c)'
  <2>1. SUFFICES ASSUME ~request_exit, NEW k \in Lidars \ skipped'[c],
                        length[c][k] > 0, k < lidar[c] + 1
                 PROVE  WillScan(c, k)'
    BY <1>2, <1>3 DEF PacketsAreOwed, Passed
  <2>2. k # lidar[c]
    <3>1. ~(0 > 0)
      OBVIOUS
    <3>2. QED
      BY <2>1, <3>1
  <2>3. k < lidar[c]
    BY <1>1, <2>1, <2>2 DEF Lidars
  <2>4. WillScan(c, k)
    BY <2>1, <2>3 DEF HandoffInv, PacketsAreOwed, Passed
  <2>5. QED
    BY <1>2, <2>4 DEF WillScan, Seeing
<1>8. QED
  BY <1>4, <1>5, <1>6, <1>7 DEF HandoffInv

LEMMA PublishKeeps ==
  ASSUME HandoffInv, NEW c \in Channels, Publish(c)
  PROVE  HandoffInv'
<1>1. HandoffTypeOK /\ lidar[c] \in Lidars /\ length[c][lidar[c]] \in 0 .. Capacity
        /\ Capacity \in Nat
  BY HandoffParameters DEF HandoffInv, HandoffTypeOK, AtLidar, Publish
<1>2. /\ polling[c] = "publish"
      /\ polling' \in [Channels -> PollingSteps]
      /\ polling'[c] \in {"publish", "drain"}
      /\ \A d \in Channels : d # c => polling'[d] = polling[d]
  BY <1>1 DEF PollThen, HandoffTypeOK, PollingSteps, Publish
<1>3. UNCHANGED <<lidar_state, count, storing, lidar, skipped, request_exit, exit_signal, driver>>
  BY DEF Publish, exitVars
<1>4. length[c][lidar[c]] - 1 \in 0 .. Capacity
  BY <1>1 DEF Publish
<1>5. length' = [length EXCEPT ![c][lidar[c]] = length[c][lidar[c]] - 1]
  BY DEF Publish
<1>6. /\ length' \in [Channels -> [Lidars -> 0 .. Capacity]]
      /\ \A k \in Lidars : k # lidar[c] => length'[c][k] = length[c][k]
      /\ \A d \in Channels : d # c => length'[d] = length[d]
  BY <1>1, <1>4, <1>5, LengthEffect
<1>7. HandoffTypeOK'
  BY <1>1, <1>2, <1>3, <1>6 DEF HandoffTypeOK
<1>8. ASSUME NEW d \in Channels, d # c
      PROVE  OneSignal(d)' /\ AtLidar(d)' /\ PacketsAreOwed(d)'
  BY <1>2, <1>3, <1>6, <1>8, OtherChannel DEF HandoffInv
<1>9. OneSignal(c)' /\ AtLidar(c)'
  BY <1>1, <1>3 DEF HandoffInv, OneSignal, AtLidar
<1>10. PacketsAreOwed(c)'
  <2>1. SUFFICES ASSUME ~request_exit, NEW k \in Lidars \ skipped[c],
                        length'[c][k] > 0, k < lidar[c]
                 PROVE  WillScan(c, k)'
    BY <1>2, <1>3 DEF PacketsAreOwed, Passed
  <2>2. k # lidar[c]
    BY <1>1, <2>1 DEF Lidars
  <2>3. WillScan(c, k)
    BY <1>2, <1>6, <2>1, <2>2 DEF HandoffInv, PacketsAreOwed, Passed
  <2>4. QED
    BY <1>3, <2>3 DEF WillScan, Seeing
<1>11. QED
  BY <1>7, <1>8, <1>9, <1>10 DEF HandoffInv

LEMMA PollKeeps ==
  ASSUME HandoffInv, NEW c \in Channels, Poll(c)
  PROVE  HandoffInv'
<1>1. /\ HandoffTypeOK /\ lidar_count \in Nat
      /\ lidar[c] \in 1 .. lidar_count + 1
      /\ polling[c] \in {"drain", "publish"} => lidar[c] \in Lidars
  BY HandoffParameters DEF HandoffInv, HandoffTypeOK, AtLidar
<1>2. ASSUME NEW step \in PollingSteps, PollThen(c, step)
      PROVE  polling'[c] = step
  BY <1>1, <1>2 DEF PollThen, HandoffTypeOK
<1>3. CASE TestExit(c)
  <2>1. PICK step \in {"future", "wait"} :
          PollThen(c, step) /\ (step = "wait" => ~request_exit)
    BY <1>3 DEF TestExit
  <2>2. \A l \in Lidars : Passed(c, l)
    BY <1>3 DEF TestExit, Passed
  <2>3. QED
    BY <1>3, <2>1, <2>2, PollThenKeeps DEF TestExit, PollingSteps
<1>4. CASE Wait(c)
  BY <1>4, WaitKeeps
<1>5. CASE ScanSkips(c)
  <2>1. /\ skipped' \in [Channels -> SUBSET Lidars]
        /\ skipped[c] \subseteq skipped'[c]
        /\ lidar[c] \in skipped'[c]
        /\ \A d \in Channels : d # c => skipped'[d] = skipped[d]
    BY <1>1, <1>5 DEF ScanSkips, HandoffTypeOK
  <2>2. polling' \in [Channels -> PollingSteps] /\ polling' = polling
    BY <1>1, <1>5 DEF ScanSkips, HandoffTypeOK
  <2>3. QED
    BY <1>5, <2>1, <2>2, NextLidarKeeps DEF ScanSkips
<1>6. CASE ScanFinds(c)
  <2>1. polling[c] = "scan" /\ lidar' = lidar /\ PollThen(c, "drain") /\ polling'[c] = "drain"
    BY <1>2, <1>6 DEF ScanFinds, PollingSteps
  <2>2. \A l \in Lidars : Passed(c, l)' => Passed(c, l)
    BY <2>1 DEF Passed
  <2>3. QED
    BY <1>6, <2>1, <2>2, PollThenKeeps DEF ScanFinds, PollingSteps
<1>7. CASE ScanEnds(c)
  <2>1. PollThen(c, "future") /\ polling[c] = "scan" /\ lidar[c] = lidar_count + 1
    BY <1>1, <1>7 DEF ScanEnds, Lidars
  <2>2. \A l \in Lidars : Passed(c, l)
    BY <1>1, <2>1 DEF Passed, Lidars
  <2>3. QED
    BY <1>7, <2>1, <2>2, PollThenKeeps DEF ScanEnds, PollingSteps
<1>8. CASE DrainEnds(c)
  <2>1. /\ polling' \in [Channels -> PollingSteps] /\ polling'[c] = "scan"
        /\ \A d \in Channels : d # c => polling'[d] = polling[d]
    BY <1>1, <1>8 DEF DrainEnds, PollThen, HandoffTypeOK, PollingSteps
  <2>2. skipped' = skipped /\ skipped \in [Channels -> SUBSET Lidars]
    BY <1>1, <1>8 DEF DrainEnds, HandoffTypeOK
  <2>3. QED
    BY <1>1, <1>8, <2>1, <2>2, NextLidarKeeps DEF DrainEnds
<1>9. CASE DrainGoesOn(c)
  <2>1. polling[c] = "drain" /\ lidar' = lidar /\ PollThen(c, "publish") /\ polling'[c] = "publish"
    BY <1>2, <1>9 DEF DrainGoesOn, PollingSteps
  <2>2. \A l \in Lidars : Passed(c, l)' => Passed(c, l)
    BY <2>1 DEF Passed
  <2>3. QED
    BY <1>1, <1>9, <2>1, <2>2, PollThenKeeps DEF DrainGoesOn, PollingSteps
<1>10. CASE Publish(c)
  BY <1>10, PublishKeeps
<1>11. CASE PublishEnds(c)
  <2>1. polling[c] = "publish" /\ lidar' = lidar /\ PollThen(c, "drain") /\ polling'[c] = "drain"
    BY <1>2, <1>11 DEF PublishEnds, PollingSteps
  <2>2. \A l \in Lidars : Passed(c, l)' => Passed(c, l)
    BY <2>1 DEF Passed
  <2>3. QED
    BY <1>1, <1>11, <2>1, <2>2, PollThenKeeps DEF PublishEnds, PollingSteps
<1>12. CASE PollFuture(c)
  <2>1. PICK step \in {"done", "test"} : PollThen(c, step)
    BY <1>12 DEF PollFuture
  <2>2. \A l \in Lidars : Passed(c, l)
    BY <1>12 DEF PollFuture, Passed
  <2>3. QED
    BY <1>12, <2>1, <2>2, PollThenKeeps DEF PollFuture, PollingSteps
<1>13. QED
  BY <1>3, <1>4, <1>5, <1>6, <1>7, <1>8, <1>9, <1>10, <1>11, <1>12 DEF Poll

(* Connecting a lidar and ending the driver touch neither the queues nor   *)
(* the two threads; a requested exit only weakens what is owed.            *)
LEMMA DriverKeeps ==
  ASSUME HandoffInv, HandoffTypeOK',
         UNCHANGED <<queueVars, storing, pollVars>>,
         request_exit => request_exit'
  PROVE  HandoffInv'
<1>1. UNCHANGED <<length, count, storing, polling, lidar, skipped>>
  BY DEF queueVars, pollVars
<1>2. ASSUME NEW c \in Channels
      PROVE  OneSignal(c)' /\ AtLidar(c)' /\ PacketsAreOwed(c)'
  <2>1. OneSignal(c)' /\ AtLidar(c)'
    BY <1>1 DEF HandoffInv, OneSignal, AtLidar
  <2>2. PacketsAreOwed(c)'
    BY <1>1 DEF HandoffInv, PacketsAreOwed, Passed, WillScan, Seeing
  <2>3. QED
    BY <2>1, <2>2
<1>3. QED
  BY <1>2 DEF HandoffInv

LEMMA HandoffStep == HandoffInv /\ [HandoffNext]_handoffVars => HandoffInv'
<1>1. SUFFICES ASSUME HandoffInv, [HandoffNext]_handoffVars PROVE HandoffInv'
  OBVIOUS
<1>2. HandoffTypeOK
  BY <1>1 DEF HandoffInv
<1>3. ASSUME NEW l \in Lidars, Connect(l)
      PROVE  HandoffInv'
  <2>1. HandoffTypeOK'
    BY <1>2, <1>3 DEF Connect, HandoffTypeOK, queueVars, pollVars, exitVars
  <2>2. QED
    BY <1>1, <1>3, <2>1, DriverKeeps DEF Connect, exitVars
<1>4. ASSUME NEW c \in Channels, Store(c)
      PROVE  HandoffInv'
  BY <1>1, <1>4, LookAtQueueKeeps, LookAtCountKeeps, SignalKeeps DEF Store
<1>5. CASE RequestExit
  <2>1. HandoffTypeOK'
    BY <1>2, <1>5 DEF RequestExit, HandoffTypeOK, queueVars, pollVars
  <2>2. QED
    BY <1>1, <1>5, <2>1, DriverKeeps DEF RequestExit
<1>6. CASE SetExitSignal
  <2>1. HandoffTypeOK'
    BY <1>2, <1>6 DEF SetExitSignal, HandoffTypeOK, queueVars, pollVars
  <2>2. QED
    BY <1>1, <1>6, <2>1, DriverKeeps DEF SetExitSignal
<1>7. ASSUME NEW c \in Channels, NEW step, NEW next \in {"joinImu", "destroyed"},
             Join(c, step, next)
      PROVE  HandoffInv'
  <2>1. HandoffTypeOK'
    BY <1>2, <1>7 DEF Join, HandoffTypeOK, queueVars, pollVars
  <2>2. QED
    BY <1>1, <1>7, <2>1, DriverKeeps DEF Join
<1>8. CASE UNCHANGED handoffVars
  <2>1. HandoffTypeOK'
    BY <1>2, <1>8 DEF handoffVars, HandoffTypeOK, queueVars, pollVars, exitVars
  <2>2. QED
    BY <1>1, <1>8, <2>1, DriverKeeps DEF handoffVars, exitVars
<1>9. CASE Destroy
  <2>1. CASE Join("pcd", "joinPcd", "joinImu")
    BY <1>7, <2>1 DEF Channels
  <2>2. CASE Join("imu", "joinImu", "destroyed")
    BY <1>7, <2>2 DEF Channels
  <2>3. QED
    BY <1>6, <1>9, <2>1, <2>2 DEF Destroy
<1>10. QED
  BY <1>1, <1>3, <1>4, <1>5, <1>8, <1>9, PushKeeps, PollKeeps DEF HandoffNext

-----------------------------------------------------------------------------

(* What the counts, the semaphores and the steps of the threads say of one *)
(* another, in every behaviour.                                            *)
THEOREM HandoffInvariant == HandoffSpec => []HandoffInv
  BY InitHandoff, HandoffStep, PTL DEF HandoffSpec

(* The two threads and the destructor keep to their steps, the lengths of  *)
(* the queues stay within the rings, and the semaphore never counts past   *)
(* one.                                                                    *)
THEOREM HandoffTypeCorrect == HandoffSpec => []HandoffTypeOK
<1>1. HandoffInv => HandoffTypeOK
  BY DEF HandoffInv
<1>2. QED
  BY <1>1, HandoffInvariant, PTL

(* No wakeup is lost, for any number of lidars and any size of the rings.  *)
THEOREM WakeupsKept == HandoffSpec => []NoLostWakeup
<1>1. HandoffInv => NoLostWakeup
  <2>1. SUFFICES ASSUME HandoffInv, NEW c \in Channels,
                        polling[c] = "wait", count[c] = 0, storing[c].step = "idle",
                        NEW l \in Lidars \ skipped[c]
                 PROVE  length[c][l] = 0
    BY DEF NoLostWakeup
  <2>2. ~WillScan(c, l) /\ Passed(c, l)
    BY <2>1 DEF WillScan, Seeing, Passed
  <2>3. ~(length[c][l] > 0)
    BY <2>1, <2>2 DEF HandoffInv, PacketsAreOwed
  <2>4. length[c][l] \in 0 .. Capacity /\ Capacity \in Nat
    BY <2>1, HandoffParameters DEF HandoffInv, HandoffTypeOK
  <2>5. QED
    BY <2>3, <2>4
<1>2. QED
  BY <1>1, HandoffInvariant, PTL

-----------------------------------------------------------------------------
(* LidarSetup. *)

(* LidarInfoChangeCallback holds config_mutex_ for lidar l. *)
Setting(l) == info.step = "set" /\ info.lidar = l

Todo(l) == IF Setting(l) THEN info.todo ELSE {}

Asked(l) == \E s \in Settings : pending[l][s] > 0

(* Once a first request is on its way, each wanted setting has its bit, is *)
(* acknowledged, or is yet to be set under the mutex: an acknowledgement   *)
(* that leaves set_bits empty is the last one.                             *)
BitsCoverWanted(l) ==
  Asked(l) \/ Setting(l) => Wanted(l) \subseteq set_bits[l] \cup acked[l] \cup Todo(l)

SampledAfterAll(l) == connect_state[l] = "sampling" => Wanted(l) \subseteq acked[l]

Remembered(l) == \A s \in set_bits[l] : pending[l][s] > 0 \/ s \in dropped[l]

LidarInv(l) == BitsCoverWanted(l) /\ SampledAfterAll(l) /\ Remembered(l)

SetupInv == SetupTypeOK /\ \A l \in Lidar : LidarInv(l)

LEMMA WantedIsSettings == ASSUME NEW l \in Lidar PROVE Wanted(l) \subseteq Settings
  BY SetupParameters DEF Wanted

LEMMA WorkModeIsNoSetting == "work_mode" \notin Settings
<1>1. DOMAIN Bit = {"data_type", "scan_pattern", "blind_spot", "dual_emit"}
  BY DEF Bit
<1>2. QED
  BY <1>1, SetupParameters

(* The update of the requests of a lidar. *)
LEMMA PendingEffect ==
  ASSUME SetupTypeOK, NEW l \in Lidar, NEW r \in Requests, NEW n \in Nat,
         pending' = [pending EXCEPT ![l][r] = n]
  PROVE  /\ pending' \in [Lidar -> [Requests -> Nat]]
         /\ pending'[l][r] = n
         /\ \A q \in Requests : q # r => pending'[l][q] = pending[l][q]
         /\ \A k \in Lidar : k # l => pending'[k] = pending[k]
<1>1. pending \in [Lidar -> [Requests -> Nat]] /\ pending[l] \in [Requests -> Nat]
  BY DEF SetupTypeOK
<1>2. [pending[l] EXCEPT ![r] = n] \in [Requests -> Nat]
  BY <1>1
<1>3. pending' = [pending EXCEPT ![l] = [pending[l] EXCEPT ![r] = n]]
  BY <1>1
<1>4. QED
  BY <1>1, <1>2, <1>3

(* A step that leaves alone all that is said of lidar l. *)
LEMMA OtherLidar ==
  ASSUME NEW l \in Lidar, LidarInv(l),
         set_bits'[l] = set_bits[l], connect_state'[l] = connect_state[l],
         pending'[l] = pending[l], acked'[l] = acked[l], dropped'[l] = dropped[l],
         Setting(l)' <=> Setting(l), Todo(l)' = Todo(l)
  PROVE  LidarInv(l)'
  BY DEF LidarInv, BitsCoverWanted, SampledAfterAll, Remembered, Asked, Wanted

LEMMA InitSetup == SetupInit => SetupInv
<1>1. SUFFICES ASSUME SetupInit PROVE SetupInv
  OBVIOUS
<1>2. SetupTypeOK
  BY <1>1, SetupParameters DEF SetupInit, SetupTypeOK
<1>3. ASSUME NEW l \in Lidar PROVE LidarInv(l)
  <2>1. ~Setting(l) /\ ~Asked(l)
    BY <1>1 DEF SetupInit, Setting, Asked, Idle, Requests
  <2>2. QED
    BY <1>1, <2>1 DEF SetupInit, LidarInv, BitsCoverWanted, SampledAfterAll, Remembered
<1>4. QED
  BY <1>2, <1>3 DEF SetupInv

LEMMA InfoChangeKeeps ==
  ASSUME SetupInv, NEW k \in Lidar, InfoChange(k)
  PROVE  SetupInv'
<1>1. /\ UNCHANGED <<indexed, set_bits, connect_state, pending, acked, dropped>>
      /\ info.step = "idle"
      /\ changes' = changes + 1 /\ changes < MaxChanges
  BY DEF InfoChange, deviceVars, historyVars
<1>2. PICK step \in {"set", "insert"}, todo \in SUBSET Settings :
        /\ info' = [step |-> step, lidar |-> k, todo |-> todo]
        /\ step = "set" => todo = Wanted(k)
  BY WantedIsSettings DEF InfoChange
<1>3. SetupTypeOK'
  <2>1. changes' \in 0 .. MaxChanges
    BY <1>1, SetupParameters DEF SetupInv, SetupTypeOK
  <2>2. QED
    BY <1>1, <1>2, <2>1 DEF SetupInv, SetupTypeOK
<1>4. ASSUME NEW l \in Lidar PROVE LidarInv(l)'
  <2>1. ~Setting(l) /\ Todo(l) = {}
    BY <1>1 DEF Setting, Todo
  <2>2. Wanted(l)' = Wanted(l)
    BY DEF Wanted
  <2>3. BitsCoverWanted(l)'
    <3>1. CASE Setting(l)'
      BY <1>2, <2>2, <3>1 DEF BitsCoverWanted, Setting, Todo
    <3>2. CASE ~Setting(l)'
      BY <1>1, <2>1, <2>2, <3>2 DEF SetupInv, LidarInv, BitsCoverWanted, Asked
    <3>3. QED
      BY <3>1, <3>2
  <2>4. SampledAfterAll(l)' /\ Remembered(l)'
    BY <1>1, <2>2 DEF SetupInv, LidarInv, SampledAfterAll, Remembered
  <2>5. QED
    BY <2>3, <2>4 DEF LidarInv
<1>5. QED
  BY <1>3, <1>4 DEF SetupInv

(* LidarInfoChangeCallback at work: what InfoThen leaves.                  *)
LEMMA InfoThenEffect ==
  ASSUME SetupTypeOK, info # Idle, NEW step \in {"set", "finish"}, NEW todo \in SUBSET Settings,
         InfoThen(step, todo)
  PROVE  /\ info.lidar \in Lidar
         /\ info' = [step |-> step, lidar |-> info.lidar, todo |-> todo]
         /\ info' \in [step : {"insert", "set", "finish"}, lidar : Lidar, todo : SUBSET Settings]
<1>1. info \in [step : {"insert", "set", "finish"}, lidar : Lidar, todo : SUBSET Settings]
  BY DEF SetupTypeOK
<1>2. QED
  BY <1>1 DEF InfoThen

(* Leaving the callback, or passing to a step without the mutex.           *)
LEMMA MutexLeftKeeps ==
  ASSUME SetupInv, SetupTypeOK',
         UNCHANGED <<deviceVars, historyVars>>,
         \A l \in Lidar, s \in Settings : pending'[l][s] = pending[l][s],
         info'.step # "set",
         info.step = "set" => info.todo = {}
  PROVE  SetupInv'
<1>1. UNCHANGED <<set_bits, connect_state, acked, dropped>>
  BY DEF deviceVars, historyVars
<1>2. ASSUME NEW l \in Lidar PROVE LidarInv(l)'
  <2>1. Todo(l) = {} /\ ~Setting(l)'
    BY DEF Todo, Setting
  <2>2. Wanted(l)' = Wanted(l) /\ (Asked(l)' => Asked(l))
    BY DEF Wanted, Asked
  <2>3. BitsCoverWanted(l)'
    BY <1>1, <2>1, <2>2 DEF SetupInv, LidarInv, BitsCoverWanted
  <2>4. SampledAfterAll(l)'
    BY <1>1, <2>2 DEF SetupInv, LidarInv, SampledAfterAll
  <2>5. Remembered(l)'
    BY <1>1 DEF SetupInv, SetupTypeOK, LidarInv, Remembered
  <2>6. QED
    BY <2>3, <2>4, <2>5 DEF LidarInv
<1>3. QED
  BY <1>2 DEF SetupInv

LEMMA GetFreeIndexKeeps ==
  ASSUME SetupInv, GetFreeIndex
  PROVE  SetupInv'
<1>1. /\ SetupTypeOK /\ info.step = "insert"
      /\ UNCHANGED <<deviceVars, pending, changes, historyVars>>
  BY DEF SetupInv, GetFreeIndex
<1>2. info # Idle
  BY <1>1 DEF Idle
<1>3. CASE IndexIsFull
  <2>1. SetupTypeOK' /\ info'.step # "set"
    BY <1>1, <1>3 DEF GetFreeIndex, SetupTypeOK, Idle, deviceVars, historyVars
  <2>2. QED
    BY <1>1, <2>1, MutexLeftKeeps
<1>4. CASE ~IndexIsFull
  <2>1. /\ info.lidar \in Lidar
        /\ info'.step # "set"
        /\ info' \in [step : {"insert", "set", "finish"}, lidar : Lidar, todo : SUBSET Settings]
    BY <1>1, <1>2, <1>4, InfoThenEffect DEF GetFreeIndex
  <2>2. indexed' = indexed \cup {info.lidar} /\ indexed' \subseteq Lidar
    BY <1>1, <1>4, <2>1 DEF GetFreeIndex, SetupTypeOK
  <2>3. IsFiniteSet(indexed') /\ Cardinality(indexed') <= kMaxSourceLidar
    <3>1. IsFiniteSet(indexed) /\ Cardinality(indexed) \in Nat
      BY <1>1, FS_CardinalityType DEF SetupTypeOK
    <3>2. /\ IsFiniteSet(indexed \cup {info.lidar})
          /\ Cardinality(indexed \cup {info.lidar}) =
               IF info.lidar \in indexed THEN Cardinality(indexed) ELSE Cardinality(indexed) + 1
      BY <3>1, FS_AddElement
    <3>3. Cardinality(indexed) < kMaxSourceLidar
      BY <1>4, <3>1, SetupParameters DEF IndexIsFull
    <3>4. QED
      BY <2>2, <3>1, <3>2, <3>3, SetupParameters
  <2>4. SetupTypeOK'
    BY <1>1, <2>1, <2>2, <2>3 DEF SetupTypeOK, deviceVars, historyVars
  <2>5. QED
    BY <1>1, <2>1, <2>4, MutexLeftKeeps
<1>5. QED
  BY <1>3, <1>4

LEMMA UnlockKeeps ==
  ASSUME SetupInv, Unlock
  PROVE  SetupInv'
<1>1. /\ SetupTypeOK /\ info.step = "set" /\ info.todo = {}
      /\ UNCHANGED <<indexed, deviceVars, pending, changes, historyVars>>
  BY DEF SetupInv, Unlock
<1>2. /\ info'.step # "set"
      /\ info' \in [step : {"insert", "set", "finish"}, lidar : Lidar, todo : SUBSET Settings]
  BY <1>1, InfoThenEffect DEF Unlock, Idle
<1>3. SetupTypeOK'
  BY <1>1, <1>2 DEF SetupTypeOK, deviceVars, historyVars
<1>4. QED
  BY <1>1, <1>2, <1>3, MutexLeftKeeps

LEMMA FinishKeeps ==
  ASSUME SetupInv, Finish
  PROVE  SetupInv'
<1>1. /\ SetupTypeOK /\ info.step = "finish" /\ info' = Idle
      /\ UNCHANGED <<indexed, deviceVars, changes, historyVars>>
  BY DEF SetupInv, Finish
<1>2. info.lidar \in Lidar /\ "work_mode" \in Requests /\ "work_mode" \notin Settings
  BY <1>1, WorkModeIsNoSetting DEF SetupTypeOK, Idle, Requests
<1>3. pending[info.lidar]["work_mode"] + 1 \in Nat
  BY <1>1, <1>2 DEF SetupTypeOK
<1>4. pending' = [pending EXCEPT ![info.lidar]["work_mode"] = pending[info.lidar]["work_mode"] + 1]
  BY DEF Finish
<1>5. /\ pending' \in [Lidar -> [Requests -> Nat]]
      /\ \A q \in Requests : q # "work_mode" => pending'[info.lidar][q] = pending[info.lidar][q]
      /\ \A k \in Lidar : k # info.lidar => pending'[k] = pending[k]
  BY <1>1, <1>2, <1>3, <1>4, PendingEffect
<1>6. SetupTypeOK' /\ info'.step # "set"
  BY <1>1, <1>5 DEF SetupTypeOK, Idle, deviceVars, historyVars
<1>7. \A l \in Lidar, s \in Settings : pending'[l][s] = pending[l][s]
  BY <1>2, <1>5 DEF Requests
<1>8. QED
  BY <1>1, <1>6, <1>7, MutexLeftKeeps

LEMMA SetSettingKeeps ==
  ASSUME SetupInv, NEW s \in Settings, SetSetting(s)
  PROVE  SetupInv'
<1>1. /\ SetupTypeOK /\ info.step = "set" /\ s \in info.todo
      /\ UNCHANGED <<indexed, connect_state, changes, acked, dropped>>
  BY DEF SetupInv, SetSetting, historyVars
<1>2. info.lidar \in Lidar /\ info.todo \in SUBSET Settings /\ s \in Requests
  BY <1>1 DEF SetupTypeOK, Idle, Requests
<1>3. /\ info' = [step |-> "set", lidar |-> info.lidar, todo |-> info.todo \ {s}]
      /\ info' \in [step : {"insert", "set", "finish"}, lidar : Lidar, todo : SUBSET Settings]
  BY <1>1, <1>2, InfoThenEffect DEF SetSetting, Idle
<1>4. pending[info.lidar][s] \in Nat
  BY <1>1, <1>2 DEF SetupTypeOK
<1>5. /\ pending' \in [Lidar -> [Requests -> Nat]]
      /\ pending'[info.lidar][s] = pending[info.lidar][s] + 1
      /\ \A q \in Requests : q # s => pending'[info.lidar][q] = pending[info.lidar][q]
      /\ \A k \in Lidar : k # info.lidar => pending'[k] = pending[k]
  <2>1. pending' = [pending EXCEPT ![info.lidar][s] = pending[info.lidar][s] + 1]
    BY DEF SetSetting
  <2>2. pending[info.lidar][s] + 1 \in Nat
    BY <1>4
  <2>3. QED
    BY <1>1, <1>2, <2>1, <2>2, PendingEffect
<1>6. /\ set_bits' \in [Lidar -> SUBSET Settings]
      /\ set_bits'[info.lidar] = set_bits[info.lidar] \cup {s}
      /\ \A k \in Lidar : k # info.lidar => set_bits'[k] = set_bits[k]
  BY <1>1, <1>2 DEF SetSetting, SetupTypeOK
<1>7. SetupTypeOK'
  BY <1>1, <1>3, <1>5, <1>6 DEF SetupTypeOK
<1>8. ASSUME NEW l \in Lidar PROVE LidarInv(l)'
  <2>1. CASE l # info.lidar
    <3>1. (Setting(l)' <=> Setting(l)) /\ Todo(l)' = Todo(l)
      BY <1>3, <2>1 DEF Setting, Todo
    <3>2. QED
      BY <1>1, <1>5, <1>6, <2>1, <3>1, OtherLidar DEF SetupInv
  <2>2. CASE l = info.lidar
    <3>1. Setting(l) /\ Setting(l)' /\ Todo(l) = info.todo /\ Todo(l)' = info.todo \ {s}
      BY <1>1, <1>3, <2>2 DEF Setting, Todo
    <3>2. Wanted(l)' = Wanted(l)
      BY DEF Wanted
    <3>3. BitsCoverWanted(l)'
      BY <1>1, <1>6, <2>2, <3>1, <3>2 DEF SetupInv, LidarInv, BitsCoverWanted
    <3>4. SampledAfterAll(l)'
      BY <1>1, <3>2 DEF SetupInv, LidarInv, SampledAfterAll
    <3>5. Remembered(l)'
      <4>1. \A t \in set_bits[l] : t \in Settings /\ t \in Requests
        BY <1>1, <2>2 DEF SetupTypeOK, Requests
      <4>2. QED
        BY <1>1, <1>4, <1>5, <1>6, <2>2, <4>1 DEF SetupInv, LidarInv, Remembered
    <3>6. QED
      BY <3>3, <3>4, <3>5 DEF LidarInv
  <2>3. QED
    BY <2>1, <2>2
<1>9. QED
  BY <1>7, <1>8 DEF SetupInv

-----------------------------------------------------------------------------

(* One answer fewer is awaited.                                            *)
LEMMA AnswerEffect ==
  ASSUME SetupTypeOK, NEW l \in Lidar, NEW r \in Requests, pending[l][r] > 0, Answer(l, r)
  PROVE  /\ pending' \in [Lidar -> [Requests -> Nat]]
         /\ pending'[l][r] = pending[l][r] - 1
         /\ \A q \in Requests : q # r => pending'[l][q] = pending[l][q]
         /\ \A k \in Lidar : k # l => pending'[k] = pending[k]
         /\ \A k \in Lidar, q \in Requests : pending'[k][q] > 0 => pending[k][q] > 0
<1>1. pending[l][r] \in Nat /\ pending[l][r] - 1 \in Nat
  BY DEF SetupTypeOK
<1>2. pending' = [pending EXCEPT ![l][r] = pending[l][r] - 1]
  BY DEF Answer
<1>3. /\ pending' \in [Lidar -> [Requests -> Nat]]
      /\ pending'[l][r] = pending[l][r] - 1
      /\ \A q \in Requests : q # r => pending'[l][q] = pending[l][q]
      /\ \A k \in Lidar : k # l => pending'[k] = pending[k]
  BY <1>1, <1>2, PendingEffect
<1>4. QED
  BY <1>3

LEMMA SettingSucceedsKeeps ==
  ASSUME SetupInv, NEW l \in Lidar, NEW s \in Settings, SettingSucceeds(l, s)
  PROVE  SetupInv'
<1>1. /\ SetupTypeOK /\ pending[l][s] > 0 /\ s \in Requests /\ info.step # "set"
      /\ UNCHANGED <<indexed, info, changes, dropped>>
  BY DEF SetupInv, SettingSucceeds, Requests, MutexFree
<1>2. /\ pending' \in [Lidar -> [Requests -> Nat]]
      /\ \A q \in Requests : q # s => pending'[l][q] = pending[l][q]
      /\ \A k \in Lidar : k # l => pending'[k] = pending[k]
  BY <1>1, AnswerEffect DEF SettingSucceeds
<1>3. /\ set_bits' \in [Lidar -> SUBSET Settings]
      /\ set_bits'[l] = set_bits[l] \ {s}
      /\ \A k \in Lidar : k # l => set_bits'[k] = set_bits[k]
  BY <1>1 DEF SettingSucceeds, ClearBit, SetupTypeOK
<1>4. /\ connect_state' \in [Lidar -> {"off", "sampling"}]
      /\ connect_state'[l] = "sampling" => set_bits'[l] = {} \/ connect_state[l] = "sampling"
      /\ \A k \in Lidar : k # l => connect_state'[k] = connect_state[k]
  BY <1>1 DEF SettingSucceeds, ClearBit, SetupTypeOK
<1>5. /\ acked' \in [Lidar -> SUBSET Requests]
      /\ acked'[l] = acked[l] \cup {s}
      /\ \A k \in Lidar : k # l => acked'[k] = acked[k]
  BY <1>1 DEF SettingSucceeds, Acknowledge, SetupTypeOK
<1>6. SetupTypeOK'
  BY <1>1, <1>2, <1>3, <1>4, <1>5 DEF SetupTypeOK
<1>7. \A k \in Lidar : ~Setting(k) /\ ~Setting(k)' /\ Todo(k) = {} /\ Todo(k)' = {}
  BY <1>1 DEF Setting, Todo
<1>8. ASSUME NEW k \in Lidar PROVE LidarInv(k)'
  <2>1. CASE k # l
    BY <1>1, <1>2, <1>3, <1>4, <1>5, <1>7, <2>1, OtherLidar DEF SetupInv
  <2>2. CASE k = l
    <3>1. Wanted(l) \subseteq set_bits[l] \cup acked[l]
      BY <1>1, <1>7 DEF SetupInv, LidarInv, BitsCoverWanted, Asked
    <3>2. Wanted(l) \subseteq set_bits'[l] \cup acked'[l]
      BY <1>3, <1>5, <3>1
    <3>3. Wanted(l)' = Wanted(l)
      BY DEF Wanted
    <3>4. BitsCoverWanted(l)'
      BY <3>2, <3>3 DEF BitsCoverWanted
    <3>5. SampledAfterAll(l)'
      BY <1>4, <1>5, <3>2, <3>3 DEF SetupInv, LidarInv, SampledAfterAll
    <3>6. Remembered(l)'
      <4>1. \A t \in set_bits[l] : t \in Requests
        BY <1>1 DEF SetupTypeOK, Requests
      <4>2. QED
        BY <1>1, <1>2, <1>3, <4>1 DEF SetupInv, LidarInv, Remembered
    <3>7. QED
      BY <2>2, <3>4, <3>5, <3>6 DEF LidarInv
  <2>3. QED
    BY <2>1, <2>2
<1>9. QED
  BY <1>6, <1>8 DEF SetupInv

(* A refused or a missed reply. *)
LEMMA DropKeeps ==
  ASSUME SetupInv, NEW l \in Lidar, NEW s \in Settings, pending[l][s] > 0,
         Answer(l, s), Drop(l, s),
         UNCHANGED <<indexed, deviceVars, info, changes, acked>>
  PROVE  SetupInv'
<1>1. /\ SetupTypeOK /\ s \in Requests
      /\ UNCHANGED <<indexed, set_bits, connect_state, info, changes, acked>>
  BY DEF SetupInv, Requests, deviceVars
<1>2. /\ pending' \in [Lidar -> [Requests -> Nat]]
      /\ \A q \in Requests : q # s => pending'[l][q] = pending[l][q]
      /\ \A k \in Lidar : k # l => pending'[k] = pending[k]
      /\ \A k \in Lidar, q \in Requests : pending'[k][q] > 0 => pending[k][q] > 0
  BY <1>1, AnswerEffect
<1>3. /\ dropped' \in [Lidar -> SUBSET Settings]
      /\ dropped'[l] = dropped[l] \cup {s}
      /\ \A k \in Lidar : k # l => dropped'[k] = dropped[k]
  BY <1>1 DEF Drop, SetupTypeOK
<1>4. SetupTypeOK'
  BY <1>1, <1>2, <1>3 DEF SetupTypeOK
<1>5. ASSUME NEW k \in Lidar PROVE LidarInv(k)'
  <2>1. CASE k # l
    BY <1>1, <1>2, <1>3, <2>1, OtherLidar DEF SetupInv, Setting, Todo
  <2>2. CASE k = l
    <3>1. Wanted(l)' = Wanted(l) /\ (Setting(l)' <=> Setting(l)) /\ Todo(l)' = Todo(l)
      BY <1>1 DEF Wanted, Setting, Todo
    <3>2. Asked(l)' => Asked(l)
      BY <1>2 DEF Asked, Requests
    <3>3. BitsCoverWanted(l)' /\ SampledAfterAll(l)'
      BY <1>1, <3>1, <3>2 DEF SetupInv, LidarInv, BitsCoverWanted, SampledAfterAll
    <3>4. Remembered(l)'
      <4>1. \A t \in set_bits[l] : t \in Requests
        BY <1>1 DEF SetupTypeOK, Requests
      <4>2. QED
        BY <1>1, <1>2, <1>3, <4>1 DEF SetupInv, LidarInv, Remembered
    <3>5. QED
      BY <2>2, <3>3, <3>4 DEF LidarInv
  <2>3. QED
    BY <2>1, <2>2
<1>6. QED
  BY <1>4, <1>5 DEF SetupInv

LEMMA WorkModeSucceedsKeeps ==
  ASSUME SetupInv, NEW l \in Lidar, WorkModeSucceeds(l)
  PROVE  SetupInv'
<1>1. /\ SetupTypeOK /\ "work_mode" \in Requests /\ pending[l]["work_mode"] > 0
      /\ UNCHANGED <<indexed, set_bits, connect_state, info, changes, dropped>>
  BY DEF SetupInv, Requests, WorkModeSucceeds, deviceVars
<1>2. /\ pending' \in [Lidar -> [Requests -> Nat]]
      /\ \A q \in Requests : q # "work_mode" => pending'[l][q] = pending[l][q]
      /\ \A k \in Lidar : k # l => pending'[k] = pending[k]
  BY <1>1, AnswerEffect DEF WorkModeSucceeds
<1>3. /\ acked' \in [Lidar -> SUBSET Requests]
      /\ acked'[l] = acked[l] \cup {"work_mode"}
      /\ \A k \in Lidar : k # l => acked'[k] = acked[k]
  BY <1>1 DEF Acknowledge, WorkModeSucceeds, SetupTypeOK
<1>4. SetupTypeOK'
  BY <1>1, <1>2, <1>3 DEF SetupTypeOK
<1>5. ASSUME NEW k \in Lidar PROVE LidarInv(k)'
  <2>1. CASE k # l
    BY <1>1, <1>2, <1>3, <2>1, OtherLidar DEF SetupInv, Setting, Todo
  <2>2. CASE k = l
    <3>1. Wanted(l)' = Wanted(l) /\ (Setting(l)' <=> Setting(l)) /\ Todo(l)' = Todo(l)
      BY <1>1 DEF Wanted, Setting, Todo
    <3>2. \A t \in Settings : pending'[l][t] = pending[l][t]
      BY <1>2, WorkModeIsNoSetting DEF Requests
    <3>3. BitsCoverWanted(l)' /\ SampledAfterAll(l)'
      BY <1>1, <1>3, <3>1, <3>2 DEF SetupInv, LidarInv, BitsCoverWanted, SampledAfterAll, Asked
    <3>4. Remembered(l)'
      BY <1>1, <3>2 DEF SetupInv, SetupTypeOK, LidarInv, Remembered
    <3>5. QED
      BY <2>2, <3>3, <3>4 DEF LidarInv
  <2>3. QED
    BY <2>1, <2>2
<1>6. QED
  BY <1>4, <1>5 DEF SetupInv

LEMMA StutterKeeps == ASSUME SetupInv, UNCHANGED setupVars PROVE SetupInv'
<1>1. UNCHANGED <<indexed, set_bits, connect_state, pending, info, changes, acked, dropped>>
  BY DEF setupVars, deviceVars, historyVars
<1>2. SetupTypeOK'
  BY <1>1 DEF SetupInv, SetupTypeOK
<1>3. ASSUME NEW l \in Lidar PROVE LidarInv(l)'
  BY <1>1, OtherLidar DEF SetupInv, Setting, Todo
<1>4. QED
  BY <1>2, <1>3 DEF SetupInv

LEMMA SetupStep == SetupInv /\ [SetupNext]_setupVars => SetupInv'
<1>1. SUFFICES ASSUME SetupInv, [SetupNext]_setupVars PROVE SetupInv'
  OBVIOUS
<1>2. CASE InfoStep
  BY <1>1, <1>2, GetFreeIndexKeeps, SetSettingKeeps, UnlockKeeps, FinishKeeps DEF InfoStep
<1>3. ASSUME NEW l \in Lidar, NEW s \in Settings, SettingReply(l, s)
      PROVE  SetupInv'
  <2>1. CASE SettingFails(l, s)
    BY <1>1, <2>1, DropKeeps DEF SettingFails
  <2>2. CASE SettingMissed(l, s)
    BY <1>1, <2>2, DropKeeps DEF SettingMissed
  <2>3. CASE SettingTimesOut(l, s)
    BY <1>1, <2>3, StutterKeeps DEF SettingTimesOut
  <2>4. QED
    BY <1>1, <1>3, <2>1, <2>2, <2>3, SettingSucceedsKeeps DEF SettingReply
<1>4. ASSUME NEW l \in Lidar, WorkModeFails(l)
      PROVE  SetupInv'
  BY <1>1, <1>4, StutterKeeps DEF WorkModeFails
<1>5. QED
  BY <1>1, <1>2, <1>3, <1>4, InfoChangeKeeps, WorkModeSucceedsKeeps, StutterKeeps DEF SetupNext, Reply

-----------------------------------------------------------------------------

(* What the requests on their way say of the lidars, in every behaviour.   *)
THEOREM SetupInvariant == SetupSpec => []SetupInv
  BY InitSetup, SetupStep, PTL DEF SetupSpec

(* The index never holds more lidars than it has room for, and the state   *)
(* keeps its type.                                                         *)
THEOREM SetupTypeCorrect == SetupSpec => []SetupTypeOK
<1>1. SetupInv => SetupTypeOK
  BY DEF SetupInv
<1>2. QED
  BY <1>1, SetupInvariant, PTL

(* For every configuration file: no lidar is sampled before it has         *)
(* acknowledged every setting it was to be given.                          *)
THEOREM ConfiguredBeforeSampled == SetupSpec => []SampledIsConfigured
<1>1. SetupInv => SampledIsConfigured
  BY DEF SetupInv, LidarInv, SampledAfterAll, SampledIsConfigured
<1>2. QED
  BY <1>1, SetupInvariant, PTL

(* For every configuration file: a set bit has a request to clear it, or   *)
(* the driver has stopped retrying that setting.                           *)
THEOREM BitsAreRemembered == SetupSpec => []NothingForgotten
<1>1. SetupInv => NothingForgotten
  BY DEF SetupInv, LidarInv, Remembered, NothingForgotten
<1>2. QED
  BY <1>1, SetupInvariant, PTL
==============================================================================
