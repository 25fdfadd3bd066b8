------------------------------- MODULE LidarQueue -------------------------------
(***************************************************************************)
(* The packet queue of one lidar (comm/ldq.cpp): a ring of storage packets *)
(* without a lock, filled by PushLidarData on the point process thread and *)
(* emptied by PublishCustomPointcloud on the poll thread.                  *)
(*                                                                         *)
(* wr_idx and rd_idx are free-running unsigned counters: they wrap at      *)
(* IdxRange and their last bits, idx & mask, choose the slot.  Both are    *)
(* volatile; the order of the stores to a slot and to its index is taken   *)
(* as written, which is what an x86-64 build does.                         *)
(*                                                                         *)
(* QueueIsFull_Late and the like are faulty variants, used by no           *)
(* specification, that the properties rule out.                            *)
(***************************************************************************)
EXTENDS Integers, Sequences

CONSTANTS
  Payloads,  \* what a packet can carry
  NoPayload, \* an empty slot, no packet
  size,      \* slots of the ring: 16 in the code at 10 Hz
  IdxRange   \* 2^32 in the code

ASSUME RingParameters ==
  /\ NoPayload \notin Payloads
  /\ size \in Nat \ {0}
  /\ IdxRange \in Nat
  /\ \E k \in 2 .. IdxRange : IdxRange = size * k   \* both are powers of two

VARIABLES
  wr_idx, rd_idx,
  storage_packet,  \* the ring
  writer,          \* step of QueuePushAny the writer is at
  pushed,          \* the packet it is pushing
  reader,          \* step of QueuePop the reader is at
  pkg,             \* the reader's local storage packet
  delivered        \* the packet handed out last

ringVars == <<wr_idx, rd_idx, storage_packet>>
ringAndThreads == <<ringVars, writer, pushed, reader, pkg, delivered>>

Idx == 0 .. IdxRange - 1
Slots == 0 .. size - 1

(* base_time and points_num make the head of a storage packet. *)
StoragePacket == [head : Payloads \cup {NoPayload}, points : Payloads \cup {NoPayload}]
Whole(p) == [head |-> p, points |-> p]
Empty == Whole(NoPayload)

Slot(idx) == idx % size                               \* idx & mask
QueueUsedSize == (wr_idx - rd_idx) % IdxRange

QueueIsFull == QueueUsedSize > size - 1

QueueIsEmpty == rd_idx = wr_idx

RingTypeOK ==
  /\ wr_idx \in Idx /\ rd_idx \in Idx
  /\ storage_packet \in [Slots -> StoragePacket]
  /\ writer \in {"idle", "points", "index"}
  /\ pushed \in Payloads \cup {NoPayload}
  /\ reader \in {"idle", "points", "index"}
  /\ pkg \in StoragePacket
  /\ delivered \in StoragePacket

(* What InitQueue() leaves. *)
RingInit ==
  /\ wr_idx = 0 /\ rd_idx = 0
  /\ storage_packet = [s \in Slots |-> Empty]
  /\ writer = "idle" /\ pushed = NoPayload
  /\ reader = "idle" /\ pkg = Empty
  /\ delivered = Empty

-----------------------------------------------------------------------------
(* The writer: if (!QueueIsFull) QueuePushAny, in three steps.  When the   *)
(* ring is full the packet is dropped and nothing changes.                 *)

PushHead(p) ==
  /\ writer = "idle"
  /\ ~QueueIsFull
  /\ storage_packet' = [storage_packet EXCEPT ![Slot(wr_idx)] =
                          [head |-> p, points |-> NoPayload]]
  /\ pushed' = p
  /\ writer' = "points"
  /\ UNCHANGED <<wr_idx, rd_idx, reader, pkg, delivered>>

PushPoints ==
  /\ writer = "points"
  /\ storage_packet' = [storage_packet EXCEPT ![Slot(wr_idx)].points = pushed]
  /\ writer' = "index"
  /\ UNCHANGED <<wr_idx, rd_idx, pushed, reader, pkg, delivered>>

PushIndex ==
  /\ writer = "index"
  /\ wr_idx' = (wr_idx + 1) % IdxRange
  /\ writer' = "idle"
  /\ UNCHANGED <<rd_idx, storage_packet, pushed, reader, pkg, delivered>>

-----------------------------------------------------------------------------
(* The reader: while (!QueueIsEmpty) QueuePop, in three steps.             *)

PopHead ==
  /\ reader = "idle"
  /\ ~QueueIsEmpty
  /\ pkg' = [pkg EXCEPT !.head = storage_packet[Slot(rd_idx)].head]
  /\ reader' = "points"
  /\ UNCHANGED <<ringVars, writer, pushed, delivered>>

PopPoints ==
  /\ reader = "points"
  /\ pkg' = [pkg EXCEPT !.points = storage_packet[Slot(rd_idx)].points]
  /\ reader' = "index"
  /\ UNCHANGED <<ringVars, writer, pushed, delivered>>

PopIndex_WrapsAtSize ==
  /\ reader = "index"
  /\ rd_idx' = (rd_idx + 1) % size
  /\ delivered' = pkg
  /\ reader' = "idle"
  /\ UNCHANGED <<wr_idx, storage_packet, writer, pushed, pkg>>

PopIndex ==
  /\ reader = "index"
  /\ rd_idx' = (rd_idx + 1) % IdxRange
  /\ delivered' = pkg
  /\ reader' = "idle"
  /\ UNCHANGED <<wr_idx, storage_packet, writer, pushed, pkg>>

RingNext ==
  \/ \E p \in Payloads : PushHead(p)
  \/ PushPoints \/ PushIndex
  \/ PopHead \/ PopPoints \/ PopIndex

RingSpec == RingInit /\ [][RingNext]_ringAndThreads

-----------------------------------------------------------------------------
(* The writer and the reader are never in the same slot, though neither    *)
(* locks and the indices wrap.                                             *)
NeverSameSlot ==
  writer # "idle" /\ reader # "idle" => Slot(wr_idx) # Slot(rd_idx)

(* A packet is handed out as it was put in: its points belong to its head. *)
DeliveredWhole == delivered.head = delivered.points

(* The packets that wait, oldest first. *)
Waiting == [i \in 1 .. QueueUsedSize |-> storage_packet[Slot((rd_idx + i - 1) % IdxRange)]]

Fifo == INSTANCE BoundedFifo WITH
          Packets <- {Whole(p) : p \in Payloads}, size <- size, Nothing <- Empty,
          queue <- Waiting, delivered <- delivered

(* The ring is a bounded queue: nothing lost, repeated or out of order.    *)
FifoSpec == Fifo!Spec
==============================================================================
