---------------------------- MODULE LidarDataProofs ----------------------------
(***************************************************************************)
(* Proofs about the way of a lidar's points through the driver: LidarQueue *)
(* for every size of the ring, every range of the indices that the size    *)
(* divides, and every payload; PubHandler for any number of lidars, any    *)
(* interval and any number of packets lost in a row; CloudMessages for any *)
(* files with well-formed entries and any scene.                           *)
(***************************************************************************)
EXTENDS LidarQueue, PubHandler, CloudMessages, FiniteSetTheorems, SequenceTheorems,
        InductionLemmas, TLAPS

(* Quotients and remainders. *)
LEMMA Division ==
  ASSUME NEW a \in Int, NEW m \in Nat \ {0}
  PROVE  /\ a % m \in 0 .. m - 1
         /\ a \div m \in Int
         /\ a = m * (a \div m) + (a % m)
  OBVIOUS

LEMMA Remainder ==
  ASSUME NEW m \in Nat \ {0}, NEW q \in Int, NEW r \in 0 .. m - 1
  PROVE  (m * q + r) % m = r
  OBVIOUS

LEMMA RingShape ==
  /\ size \in Nat \ {0}
  /\ IdxRange \in Nat
  /\ IdxRange >= 2 * size
  /\ \E k \in Nat \ {0} : IdxRange = size * k
<1>1. PICK k \in 2 .. IdxRange : IdxRange = size * k
  BY RingParameters
<1>2. size * k >= size * 2
  BY <1>1, RingParameters
<1>3. QED
  BY <1>1, <1>2, RingParameters

(* Differences and sums of indices wrap at most once. *)
LEMMA Wrap ==
  ASSUME NEW x \in Int, 0 - IdxRange <= x, x < 2 * IdxRange
  PROVE  x % IdxRange = IF x < 0 THEN x + IdxRange
                        ELSE IF x < IdxRange THEN x ELSE x - IdxRange
<1>1. IdxRange \in Nat \ {0}
  BY RingShape
<1>2. CASE x < 0
  <2>1. x = IdxRange * (-1) + (x + IdxRange)
    BY <1>1
  <2>2. x + IdxRange \in 0 .. IdxRange - 1
    BY <1>1, <1>2
  <2>3. QED
    BY <1>1, <1>2, <2>1, <2>2, Remainder
<1>3. CASE 0 <= x /\ x < IdxRange
  <2>1. x = IdxRange * 0 + x
    BY <1>1
  <2>2. QED
    BY <1>1, <1>3, <2>1, Remainder
<1>4. CASE x >= IdxRange
  <2>1. x = IdxRange * 1 + (x - IdxRange)
    BY <1>1
  <2>2. x - IdxRange \in 0 .. IdxRange - 1
    BY <1>1, <1>4
  <2>3. QED
    BY <1>1, <1>4, <2>1, <2>2, Remainder
<1>5. QED
  BY <1>1, <1>2, <1>3, <1>4

(* The range of the indices is a multiple of the size, so wrapping an      *)
(* index does not change its slot.                                         *)
LEMMA SlotWrap ==
  ASSUME NEW x \in Int
  PROVE  Slot(x % IdxRange) = Slot(x) /\ Slot(x) \in Slots
<1>1. PICK k \in Nat \ {0} : IdxRange = size * k
  BY RingShape
<1>2. size \in Nat \ {0} /\ IdxRange \in Nat \ {0}
  BY RingShape
<1>3. PICK q \in Int, r \in 0 .. IdxRange - 1 : x = IdxRange * q + r /\ r = x % IdxRange
  BY <1>2, Division
<1>4. PICK p \in Int, s \in 0 .. size - 1 : r = size * p + s /\ s = r % size
  <2>1. r \in Int
    BY <1>2
  <2>2. QED
    BY <1>2, <2>1, Division
<1>5. x = size * (k * q + p) + s
  <2>1. IdxRange * q = size * (k * q)
    BY <1>1, <1>2
  <2>2. size * (k * q + p) = size * (k * q) + size * p
    BY <1>1, <1>2
  <2>3. size * (k * q) \in Int /\ size * p \in Int /\ s \in Int
    BY <1>1, <1>2
  <2>4. x = size * (k * q) + (size * p + s)
    BY <1>3, <1>4, <2>1
  <2>5. QED
    BY <2>2, <2>3, <2>4
<1>6. k * q + p \in Int
  BY <1>1
<1>7. x % size = s
  BY <1>2, <1>5, <1>6, Remainder
<1>8. QED
  BY <1>3, <1>4, <1>7 DEF Slot, Slots

LEMMA SlotPeriod == ASSUME NEW x \in Int PROVE Slot(x + IdxRange) = Slot(x)
<1>1. PICK k \in Nat \ {0} : IdxRange = size * k
  BY RingShape
<1>2. size \in Nat \ {0}
  BY RingShape
<1>3. PICK q \in Int, r \in 0 .. size - 1 : x = size * q + r /\ r = x % size
  BY <1>2, Division
<1>4. x + IdxRange = size * (q + k) + r
  <2>1. size * (q + k) = size * q + size * k
    BY <1>2
  <2>2. size * q \in Int /\ size * k \in Int /\ r \in Int
    BY <1>2
  <2>3. QED
    BY <1>1, <1>3, <2>1, <2>2
<1>5. (x + IdxRange) % size = r
  BY <1>2, <1>4, Remainder, q + k \in Int
<1>6. QED
  BY <1>3, <1>5 DEF Slot

(* Indices less than a ring apart have different slots. *)
LEMMA SlotsDiffer ==
  ASSUME NEW x \in Int, NEW y \in Int, x < y, y - x < size
  PROVE  Slot(x) # Slot(y)
<1>1. size \in Nat \ {0}
  BY RingShape
<1>2. SUFFICES ASSUME x % size = y % size PROVE FALSE
  BY DEF Slot
<1>3. PICK p \in Int, q \in Int, r \in 0 .. size - 1 :
        x = size * p + r /\ y = size * q + r
  BY <1>1, <1>2, Division
<1>4. y - x = size * (q - p)
  <2>1. size * (q - p) = size * q - size * p
    BY <1>1
  <2>2. size * q \in Int /\ size * p \in Int
    BY <1>1
  <2>3. QED
    BY <1>3, <2>1, <2>2
<1>5. CASE q - p <= 0
  <2>1. size * (q - p) <= 0
    BY <1>1, <1>5
  <2>2. QED
    BY <1>4, <2>1
<1>6. CASE q - p >= 1
  <2>1. size * (q - p) >= size
    BY <1>1, <1>6
  <2>2. QED
    BY <1>1, <1>4, <2>1
<1>7. QED
  BY <1>5, <1>6

-----------------------------------------------------------------------------
(* The i-th slot after the one the reader is at. *)
At(i) == Slot(rd_idx + i)

WholePackets == {Whole(p) : p \in Payloads}

(* The writer holds the slot after the waiting ones, with what it has      *)
(* stored in it so far.                                                    *)
WriterInv ==
  writer # "idle" =>
    /\ QueueUsedSize < size
    /\ pushed \in Payloads
    /\ storage_packet[At(QueueUsedSize)] =
         IF writer = "points" THEN [head |-> pushed, points |-> NoPayload]
                              ELSE Whole(pushed)

(* The reader holds the first waiting slot and has copied part of it.      *)
ReaderInv ==
  reader # "idle" =>
    /\ QueueUsedSize > 0
    /\ pkg.head = storage_packet[At(0)].head
    /\ reader = "index" => pkg.points = storage_packet[At(0)].points

WaitingInv == \A i \in 0 .. QueueUsedSize - 1 : storage_packet[At(i)] \in WholePackets

(* Neither promise is inductive alone: what keeps the writer and the       *)
(* reader apart is the number of waiting packets, and a packet handed out  *)
(* is whole because the slot it was copied from was.                       *)
RingInv ==
  /\ RingTypeOK
  /\ QueueUsedSize \in 0 .. size
  /\ WriterInv
  /\ ReaderInv
  /\ WaitingInv
  /\ delivered \in WholePackets \cup {Empty}

(* The used size, and the slots of the two indices. *)
LEMMA UsedSize ==
  ASSUME RingTypeOK
  PROVE  /\ QueueUsedSize = IF wr_idx >= rd_idx THEN wr_idx - rd_idx
                            ELSE wr_idx - rd_idx + IdxRange
         /\ QueueUsedSize \in Nat
         /\ Slot(wr_idx) = At(QueueUsedSize)
         /\ Slot(rd_idx) = At(0)
         /\ QueueIsEmpty <=> QueueUsedSize = 0
<1>1. wr_idx \in 0 .. IdxRange - 1 /\ rd_idx \in 0 .. IdxRange - 1
  BY DEF RingTypeOK, Idx
<1>2. IdxRange \in Nat
  BY RingShape
<1>3. QueueUsedSize = IF wr_idx >= rd_idx THEN wr_idx - rd_idx
                      ELSE wr_idx - rd_idx + IdxRange
  BY <1>1, <1>2, Wrap DEF QueueUsedSize
<1>4. wr_idx = (rd_idx + QueueUsedSize) % IdxRange
  <2>1. rd_idx + QueueUsedSize \in Int /\ 0 <= rd_idx + QueueUsedSize
          /\ rd_idx + QueueUsedSize < 2 * IdxRange
    BY <1>1, <1>2, <1>3
  <2>2. QED
    BY <1>1, <1>2, <1>3, <2>1, Wrap
<1>5. Slot(wr_idx) = At(QueueUsedSize)
  <2>1. rd_idx + QueueUsedSize \in Int
    BY <1>1, <1>2, <1>3
  <2>2. Slot((rd_idx + QueueUsedSize) % IdxRange) = Slot(rd_idx + QueueUsedSize)
    BY <2>1, SlotWrap
  <2>3. QED
    BY <1>4, <2>2 DEF At
<1>6. QED
  BY <1>1, <1>2, <1>3, <1>5 DEF At, QueueIsEmpty

(* The slots of a window no longer than the ring are distinct. *)
LEMMA WindowSlots ==
  ASSUME RingTypeOK, NEW i \in Nat, NEW j \in Nat, i < size, j < size, i # j
  PROVE  At(i) # At(j)
<1>1. rd_idx \in Int /\ size \in Nat
  BY RingShape DEF RingTypeOK, Idx
<1>2. CASE i < j
  BY <1>1, <1>2, SlotsDiffer, rd_idx + i \in Int, rd_idx + j \in Int DEF At
<1>3. CASE j < i
  BY <1>1, <1>3, SlotsDiffer, rd_idx + i \in Int, rd_idx + j \in Int DEF At
<1>4. QED
  BY <1>2, <1>3

LEMMA AtInSlots == ASSUME RingTypeOK, NEW i \in Nat PROVE At(i) \in Slots
<1>1. rd_idx + i \in Int
  BY RingShape DEF RingTypeOK, Idx
<1>2. QED
  BY <1>1, SlotWrap DEF At

LEMMA PacketUpdates ==
  ASSUME NEW r \in StoragePacket, NEW v \in Payloads \cup {NoPayload}
  PROVE  /\ [r EXCEPT !.head = v] \in StoragePacket
         /\ [r EXCEPT !.head = v].head = v
         /\ [r EXCEPT !.head = v].points = r.points
         /\ [r EXCEPT !.points = v] \in StoragePacket
         /\ [r EXCEPT !.points = v].points = v
         /\ [r EXCEPT !.points = v].head = r.head
         /\ r = [head |-> r.head, points |-> r.points]
         /\ r.head \in Payloads \cup {NoPayload}
         /\ r.points \in Payloads \cup {NoPayload}
  BY DEF StoragePacket

-----------------------------------------------------------------------------
LEMMA InitRing == RingInit => RingInv
<1>1. SUFFICES ASSUME RingInit PROVE RingInv
  OBVIOUS
<1>2. IdxRange \in Nat /\ size \in Nat /\ IdxRange >= 2 * size /\ size > 0
  BY RingShape
<1>3. Empty \in StoragePacket
  BY DEF Empty, Whole, StoragePacket
<1>4. RingTypeOK
  BY <1>1, <1>2, <1>3 DEF RingInit, RingTypeOK, Idx
<1>5. QueueUsedSize = 0
  BY <1>1, <1>2, <1>4, UsedSize DEF RingInit
<1>6. QED
  BY <1>1, <1>2, <1>4, <1>5 DEF RingInit, RingInv, WriterInv, ReaderInv, WaitingInv

(* The steps that do not move an index leave every slot number alone. *)
LEMMA SlotsStay ==
  ASSUME UNCHANGED <<wr_idx, rd_idx>>
  PROVE  QueueUsedSize' = QueueUsedSize /\ \A i : At(i)' = At(i)
  BY DEF QueueUsedSize, At, Slot

LEMMA PushHeadKeeps ==
  ASSUME RingInv, NEW p \in Payloads, PushHead(p)
  PROVE  RingInv'
<1> USE DEF PushHead
<1>1. RingTypeOK /\ QueueUsedSize \in 0 .. size
  BY DEF RingInv
<1>2. QueueUsedSize < size /\ QueueUsedSize \in Nat /\ size \in Nat
  BY <1>1, RingShape DEF QueueIsFull
<1>3. QueueUsedSize' = QueueUsedSize /\ \A i : At(i)' = At(i)
  BY SlotsStay
<1>4. Slot(wr_idx) = At(QueueUsedSize) /\ At(QueueUsedSize) \in Slots
  BY <1>1, <1>2, UsedSize, AtInSlots
<1>5. [head |-> p, points |-> NoPayload] \in StoragePacket
  BY DEF StoragePacket
<1>6. RingTypeOK'
  BY <1>1, <1>4, <1>5 DEF RingTypeOK
<1>7. \A i \in 0 .. QueueUsedSize - 1 :
        storage_packet'[At(i)] = storage_packet[At(i)]
  <2>1. TAKE i \in 0 .. QueueUsedSize - 1
  <2>2. At(i) \in Slots /\ At(i) # At(QueueUsedSize)
    BY <1>1, <1>2, AtInSlots, WindowSlots
  <2>3. QED
    BY <1>1, <1>4, <2>2 DEF RingTypeOK
<1>8. WriterInv'
  BY <1>1, <1>2, <1>3, <1>4 DEF WriterInv, RingTypeOK
<1>9. ReaderInv'
  BY <1>2, <1>3, <1>7 DEF RingInv, ReaderInv
<1>10. WaitingInv'
  BY <1>2, <1>3, <1>7 DEF RingInv, WaitingInv
<1>11. QED
  BY <1>1, <1>3, <1>6, <1>8, <1>9, <1>10 DEF RingInv

LEMMA PushPointsKeeps ==
  ASSUME RingInv, PushPoints
  PROVE  RingInv'
<1> USE DEF PushPoints
<1>1. RingTypeOK /\ QueueUsedSize \in 0 .. size /\ WriterInv
  BY DEF RingInv
<1>2. QueueUsedSize < size /\ QueueUsedSize \in Nat /\ size \in Nat /\ pushed \in Payloads
  BY <1>1, RingShape DEF WriterInv
<1>3. QueueUsedSize' = QueueUsedSize /\ \A i : At(i)' = At(i)
  BY SlotsStay
<1>4. Slot(wr_idx) = At(QueueUsedSize) /\ At(QueueUsedSize) \in Slots
  BY <1>1, <1>2, UsedSize, AtInSlots
<1>5. storage_packet[At(QueueUsedSize)] = [head |-> pushed, points |-> NoPayload]
  BY <1>1 DEF WriterInv
<1>6. storage_packet' = [storage_packet EXCEPT ![At(QueueUsedSize)] = Whole(pushed)]
  <2>1. [storage_packet[At(QueueUsedSize)] EXCEPT !.points = pushed] = Whole(pushed)
    BY <1>5 DEF Whole
  <2>2. QED
    BY <1>4, <2>1
<1>7. Whole(pushed) \in StoragePacket
  BY <1>2 DEF Whole, StoragePacket
<1>8. RingTypeOK'
  BY <1>1, <1>4, <1>6, <1>7 DEF RingTypeOK
<1>9. \A i \in 0 .. QueueUsedSize - 1 :
        storage_packet'[At(i)] = storage_packet[At(i)]
  <2>1. TAKE i \in 0 .. QueueUsedSize - 1
  <2>2. At(i) \in Slots /\ At(i) # At(QueueUsedSize)
    BY <1>1, <1>2, AtInSlots, WindowSlots
  <2>3. QED
    BY <1>1, <1>6, <2>2 DEF RingTypeOK
<1>10. WriterInv'
  BY <1>1, <1>2, <1>3, <1>4, <1>6 DEF WriterInv, RingTypeOK
<1>11. ReaderInv'
  <2>1. UNCHANGED <<reader, pkg>>
    OBVIOUS
  <2>2. QueueUsedSize > 0 => storage_packet'[At(0)] = storage_packet[At(0)]
    BY <1>2, <1>9
  <2> HIDE DEF PushPoints
  <2>3. QED
    BY <1>3, <2>1, <2>2 DEF RingInv, ReaderInv
<1>12. WaitingInv'
  BY <1>2, <1>3, <1>9 DEF RingInv, WaitingInv
<1>13. QED
  BY <1>1, <1>3, <1>8, <1>10, <1>11, <1>12 DEF RingInv

(* An index that moves on by one shifts the window of waiting packets.     *)
LEMMA WriterMoves ==
  ASSUME RingTypeOK, QueueUsedSize < size,
         wr_idx' = (wr_idx + 1) % IdxRange, rd_idx' = rd_idx
  PROVE  /\ wr_idx' \in Idx
         /\ QueueUsedSize' = QueueUsedSize + 1
         /\ \A i : At(i)' = At(i)
<1>1. wr_idx \in 0 .. IdxRange - 1 /\ rd_idx \in 0 .. IdxRange - 1
  BY DEF RingTypeOK, Idx
<1>2. IdxRange \in Nat /\ size \in Nat /\ IdxRange >= 2 * size /\ size > 0
  BY RingShape
<1>3. wr_idx' = IF wr_idx + 1 < IdxRange THEN wr_idx + 1 ELSE 0
  <2>1. wr_idx + 1 \in Int /\ wr_idx + 1 < 2 * IdxRange /\ 0 - IdxRange <= wr_idx + 1
    BY <1>1, <1>2
  <2>2. QED
    BY <1>1, <1>2, <2>1, Wrap
<1>4. QueueUsedSize = IF wr_idx >= rd_idx THEN wr_idx - rd_idx
                      ELSE wr_idx - rd_idx + IdxRange
  BY UsedSize
<1>5. QueueUsedSize' = IF wr_idx' >= rd_idx THEN wr_idx' - rd_idx
                       ELSE wr_idx' - rd_idx + IdxRange
  <2>1. /\ wr_idx' - rd_idx \in Int
        /\ wr_idx' - rd_idx < IdxRange
        /\ 0 - IdxRange <= wr_idx' - rd_idx
    BY <1>1, <1>2, <1>3
  <2>2. (wr_idx' - rd_idx) % IdxRange = IF wr_idx' - rd_idx < 0 THEN wr_idx' - rd_idx + IdxRange
                                        ELSE wr_idx' - rd_idx
    BY <1>2, <2>1, Wrap
  <2>3. QueueUsedSize' = (wr_idx' - rd_idx) % IdxRange
    BY DEF QueueUsedSize
  <2>4. QED
    BY <1>1, <1>2, <1>3, <2>2, <2>3
<1>6. \A i : At(i)' = At(i)
  BY DEF At, Slot
<1>7. QED
  BY <1>1, <1>2, <1>3, <1>4, <1>5, <1>6 DEF Idx

LEMMA ReaderMoves ==
  ASSUME RingTypeOK, QueueUsedSize > 0,
         rd_idx' = (rd_idx + 1) % IdxRange, wr_idx' = wr_idx
  PROVE  /\ rd_idx' \in Idx
         /\ QueueUsedSize' = QueueUsedSize - 1
         /\ \A i \in Nat : At(i)' = At(i + 1)
<1>1. wr_idx \in 0 .. IdxRange - 1 /\ rd_idx \in 0 .. IdxRange - 1
  BY DEF RingTypeOK, Idx
<1>2. IdxRange \in Nat /\ size \in Nat /\ IdxRange >= 2 * size /\ size > 0
  BY RingShape
<1>3. rd_idx' = IF rd_idx + 1 < IdxRange THEN rd_idx + 1 ELSE 0
  <2>1. rd_idx + 1 \in Int /\ rd_idx + 1 < 2 * IdxRange /\ 0 - IdxRange <= rd_idx + 1
    BY <1>1, <1>2
  <2>2. QED
    BY <1>1, <1>2, <2>1, Wrap
<1>4. QueueUsedSize = IF wr_idx >= rd_idx THEN wr_idx - rd_idx
                      ELSE wr_idx - rd_idx + IdxRange
  BY UsedSize
<1>5. QueueUsedSize' = IF wr_idx >= rd_idx' THEN wr_idx - rd_idx'
                       ELSE wr_idx - rd_idx' + IdxRange
  <2>1. /\ wr_idx - rd_idx' \in Int
        /\ wr_idx - rd_idx' < IdxRange
        /\ 0 - IdxRange <= wr_idx - rd_idx'
    BY <1>1, <1>2, <1>3
  <2>2. (wr_idx - rd_idx') % IdxRange = IF wr_idx - rd_idx' < 0 THEN wr_idx - rd_idx' + IdxRange
                                        ELSE wr_idx - rd_idx'
    BY <1>2, <2>1, Wrap
  <2>3. QueueUsedSize' = (wr_idx - rd_idx') % IdxRange
    BY DEF QueueUsedSize
  <2>4. QED
    BY <1>1, <1>2, <1>3, <2>2, <2>3
<1>6. \A i \in Nat : At(i)' = At(i + 1)
  <2>1. TAKE i \in Nat
  <2>2. rd_idx' + i \in Int /\ rd_idx + (i + 1) \in Int
    BY <1>1, <1>2, <1>3
  <2>3. CASE rd_idx + 1 < IdxRange
    <3>1. rd_idx' + i = rd_idx + (i + 1)
      BY <1>1, <1>3, <2>3
    <3>2. QED
      BY <3>1 DEF At, Slot
  <2>4. CASE ~(rd_idx + 1 < IdxRange)
    <3>1. rd_idx + (i + 1) = (rd_idx' + i) + IdxRange
      BY <1>1, <1>2, <1>3, <2>4
    <3>2. Slot((rd_idx' + i) + IdxRange) = Slot(rd_idx' + i)
      BY <2>2, SlotPeriod
    <3>3. QED
      BY <3>1, <3>2 DEF At, Slot
  <2>5. QED
    BY <2>3, <2>4
<1>7. QED
  BY <1>1, <1>2, <1>3, <1>4, <1>5, <1>6 DEF Idx

LEMMA PushIndexKeeps ==
  ASSUME RingInv, PushIndex
  PROVE  RingInv'
<1> USE DEF PushIndex
<1>1. RingTypeOK /\ QueueUsedSize \in 0 .. size /\ WriterInv
  BY DEF RingInv
<1>2. QueueUsedSize < size /\ QueueUsedSize \in Nat /\ size \in Nat /\ pushed \in Payloads
        /\ storage_packet[At(QueueUsedSize)] = Whole(pushed)
  BY <1>1, RingShape DEF WriterInv
<1>3. /\ wr_idx' \in Idx
      /\ QueueUsedSize' = QueueUsedSize + 1
      /\ \A i : At(i)' = At(i)
  BY <1>1, <1>2, WriterMoves
<1>4. RingTypeOK'
  BY <1>1, <1>3 DEF RingTypeOK
<1>5. WriterInv'
  BY DEF WriterInv
<1>6. ReaderInv'
  BY <1>2, <1>3 DEF RingInv, ReaderInv
<1>7. WaitingInv'
  <2>1. Whole(pushed) \in WholePackets
    BY <1>2 DEF WholePackets
  <2>2. \A i \in 0 .. QueueUsedSize : storage_packet[At(i)] \in WholePackets
    BY <1>2, <2>1 DEF RingInv, WaitingInv
  <2>3. QED
    BY <1>2, <1>3, <2>2 DEF WaitingInv
<1>8. QueueUsedSize' \in 0 .. size
  BY <1>2, <1>3
<1>9. delivered' \in WholePackets \cup {Empty}
  BY DEF RingInv
<1>10. QED
  BY <1>4, <1>5, <1>6, <1>7, <1>8, <1>9 DEF RingInv, WholePackets

LEMMA PopHeadKeeps ==
  ASSUME RingInv, PopHead
  PROVE  RingInv'
<1> USE DEF PopHead, ringVars
<1>1. RingTypeOK /\ QueueUsedSize \in 0 .. size /\ QueueUsedSize \in Nat
  BY UsedSize DEF RingInv
<1>2. QueueUsedSize > 0
  BY <1>1, UsedSize
<1>3. QueueUsedSize' = QueueUsedSize /\ \A i : At(i)' = At(i)
  BY SlotsStay
<1>4. Slot(rd_idx) = At(0) /\ At(0) \in Slots /\ storage_packet[At(0)] \in StoragePacket
  BY <1>1, UsedSize, AtInSlots DEF RingTypeOK
<1>5. storage_packet[At(0)].head \in Payloads \cup {NoPayload} /\ pkg \in StoragePacket
  BY <1>1, <1>4, PacketUpdates DEF RingTypeOK
<1>6. pkg' \in StoragePacket /\ pkg'.head = storage_packet[At(0)].head
  BY <1>4, <1>5, PacketUpdates
<1>7. RingTypeOK'
  BY <1>1, <1>6 DEF RingTypeOK
<1>8. WriterInv'
  BY <1>3 DEF RingInv, WriterInv
<1>9. ReaderInv'
  BY <1>2, <1>3, <1>6 DEF ReaderInv
<1>10. WaitingInv'
  BY <1>1, <1>3 DEF RingInv, WaitingInv
<1>11. QED
  BY <1>1, <1>3, <1>7, <1>8, <1>9, <1>10 DEF RingInv, WholePackets

LEMMA PopPointsKeeps ==
  ASSUME RingInv, PopPoints
  PROVE  RingInv'
<1> USE DEF PopPoints, ringVars
<1>1. RingTypeOK /\ QueueUsedSize \in 0 .. size /\ QueueUsedSize \in Nat
  BY UsedSize DEF RingInv
<1>2. QueueUsedSize > 0 /\ pkg.head = storage_packet[At(0)].head
  BY DEF RingInv, ReaderInv
<1>3. QueueUsedSize' = QueueUsedSize /\ \A i : At(i)' = At(i)
  BY SlotsStay
<1>4. Slot(rd_idx) = At(0) /\ At(0) \in Slots /\ storage_packet[At(0)] \in StoragePacket
  BY <1>1, UsedSize, AtInSlots DEF RingTypeOK
<1>5. storage_packet[At(0)].points \in Payloads \cup {NoPayload} /\ pkg \in StoragePacket
  BY <1>1, <1>4, PacketUpdates DEF RingTypeOK
<1>6. /\ pkg' \in StoragePacket
      /\ pkg'.head = storage_packet[At(0)].head
      /\ pkg'.points = storage_packet[At(0)].points
  BY <1>2, <1>4, <1>5, PacketUpdates
<1>7. RingTypeOK'
  BY <1>1, <1>6 DEF RingTypeOK
<1>8. WriterInv'
  BY <1>3 DEF RingInv, WriterInv
<1>9. ReaderInv'
  BY <1>2, <1>3, <1>6 DEF ReaderInv
<1>10. WaitingInv'
  BY <1>1, <1>3 DEF RingInv, WaitingInv
<1>11. QED
  BY <1>1, <1>3, <1>7, <1>8, <1>9, <1>10 DEF RingInv, WholePackets

(* What the reader hands out is the oldest waiting packet, whole. *)
LEMMA ReaderHasOldest ==
  ASSUME RingInv, reader = "index"
  PROVE  QueueUsedSize > 0 /\ pkg = storage_packet[At(0)] /\ pkg \in WholePackets
<1>1. RingTypeOK /\ QueueUsedSize \in Nat /\ QueueUsedSize > 0
  BY UsedSize DEF RingInv, ReaderInv
<1>2. pkg \in StoragePacket /\ storage_packet[At(0)] \in StoragePacket
  BY <1>1, AtInSlots DEF RingTypeOK
<1>3. /\ pkg.head = storage_packet[At(0)].head
      /\ pkg.points = storage_packet[At(0)].points
  BY DEF RingInv, ReaderInv
<1>4. pkg = storage_packet[At(0)]
  BY <1>2, <1>3 DEF StoragePacket
<1>5. storage_packet[At(0)] \in WholePackets
  BY <1>1 DEF RingInv, WaitingInv
<1>6. QED
  BY <1>1, <1>4, <1>5

LEMMA PopIndexKeeps ==
  ASSUME RingInv, PopIndex
  PROVE  RingInv'
<1> USE DEF PopIndex
<1>1. RingTypeOK /\ QueueUsedSize \in 0 .. size /\ QueueUsedSize \in Nat /\ size \in Nat
  BY UsedSize, RingShape DEF RingInv
<1>2. QueueUsedSize > 0 /\ pkg \in WholePackets
  BY ReaderHasOldest
<1>3. /\ rd_idx' \in Idx
      /\ QueueUsedSize' = QueueUsedSize - 1
      /\ \A i \in Nat : At(i)' = At(i + 1)
  BY <1>1, <1>2, ReaderMoves
<1>4. RingTypeOK'
  BY <1>1, <1>3 DEF RingTypeOK
<1>5. WriterInv'
  <2>1. QueueUsedSize' \in Nat /\ QueueUsedSize' + 1 = QueueUsedSize
    BY <1>1, <1>2, <1>3
  <2>2. At(QueueUsedSize)' = At(QueueUsedSize)
    BY <1>1, <1>2, <1>3, <2>1 DEF At
  <2>3. writer' = writer /\ pushed' = pushed /\ storage_packet' = storage_packet
    OBVIOUS
  <2>4. QED
    BY <1>1, <1>2, <1>3, <2>2, <2>3 DEF RingInv, WriterInv
<1>6. ReaderInv'
  BY DEF ReaderInv
<1>7. WaitingInv'
  BY <1>1, <1>2, <1>3 DEF RingInv, WaitingInv
<1>8. QueueUsedSize' \in 0 .. size
  BY <1>1, <1>2, <1>3
<1>9. QED
  BY <1>2, <1>4, <1>5, <1>6, <1>7, <1>8 DEF RingInv, WholePackets

LEMMA StutterKeeps == RingInv /\ UNCHANGED ringAndThreads => RingInv'
<1>1. SUFFICES ASSUME RingInv, UNCHANGED ringAndThreads PROVE RingInv'
  OBVIOUS
<1> USE DEF ringAndThreads, ringVars
<1>2. QueueUsedSize' = QueueUsedSize /\ \A i : At(i)' = At(i)
  BY <1>1, SlotsStay
<1>3. RingTypeOK'
  BY <1>1 DEF RingInv, RingTypeOK
<1>4. WriterInv' /\ ReaderInv' /\ WaitingInv'
  BY <1>1, <1>2 DEF RingInv, WriterInv, ReaderInv, WaitingInv
<1>5. QED
  BY <1>1, <1>2, <1>3, <1>4 DEF RingInv, WholePackets

(* What the slots hold between the two cursors, in every behaviour.        *)
THEOREM RingInvariant == RingSpec => []RingInv
<1>1. RingInv /\ [RingNext]_ringAndThreads => RingInv'
  <2>1. SUFFICES ASSUME RingInv, [RingNext]_ringAndThreads PROVE RingInv'
    OBVIOUS
  <2>2. CASE UNCHANGED ringAndThreads
    BY <2>1, <2>2, StutterKeeps
  <2>3. ASSUME NEW p \in Payloads, PushHead(p) PROVE RingInv'
    BY <2>1, <2>3, PushHeadKeeps
  <2>4. CASE PushPoints
    BY <2>1, <2>4, PushPointsKeeps
  <2>5. CASE PushIndex
    BY <2>1, <2>5, PushIndexKeeps
  <2>6. CASE PopHead
    BY <2>1, <2>6, PopHeadKeeps
  <2>7. CASE PopPoints
    BY <2>1, <2>7, PopPointsKeeps
  <2>8. CASE PopIndex
    BY <2>1, <2>8, PopIndexKeeps
  <2>9. QED
    BY <2>1, <2>2, <2>3, <2>4, <2>5, <2>6, <2>7, <2>8 DEF RingNext
<1>2. QED
  BY <1>1, InitRing, PTL DEF RingSpec

(* The indices stay in their range and the steps in their order. *)
THEOREM TypeCorrect == RingSpec => []RingTypeOK
<1>1. RingInv => RingTypeOK
  BY DEF RingInv
<1>2. QED
  BY <1>1, RingInvariant, PTL

(* The writer and the reader are never in the same slot. *)
THEOREM Exclusion == RingSpec => []NeverSameSlot
<1>1. RingInv => NeverSameSlot
  <2>1. SUFFICES ASSUME RingInv, writer # "idle", reader # "idle"
                 PROVE  Slot(wr_idx) # Slot(rd_idx)
    BY DEF NeverSameSlot
  <2>2. RingTypeOK /\ QueueUsedSize \in Nat /\ 0 < QueueUsedSize /\ QueueUsedSize < size
    BY <2>1, UsedSize DEF RingInv, WriterInv, ReaderInv
  <2>3. At(QueueUsedSize) # At(0)
    BY <2>2, RingShape, WindowSlots
  <2>4. QED
    BY <2>2, <2>3, UsedSize
<1>2. QED
  BY <1>1, RingInvariant, PTL

(* A packet handed out is whole. *)
THEOREM PacketsWhole == RingSpec => []DeliveredWhole
<1>1. RingInv => DeliveredWhole
  BY DEF RingInv, DeliveredWhole, WholePackets, Whole, Empty
<1>2. QED
  BY <1>1, RingInvariant, PTL

-----------------------------------------------------------------------------
(* The ring implements a bounded queue.                                    *)

LEMMA Window ==
  ASSUME NEW r \in Idx, NEW u \in Nat, NEW S
  PROVE  [i \in 1 .. u |-> S[Slot((r + i - 1) % IdxRange)]]
           = [i \in 1 .. u |-> S[Slot(r + (i - 1))]]
<1>1. \A i \in 1 .. u : Slot((r + i - 1) % IdxRange) = Slot(r + (i - 1))
  <2>1. TAKE i \in 1 .. u
  <2>2. r + i - 1 \in Int /\ r + i - 1 = r + (i - 1)
    BY DEF Idx
  <2>3. Slot((r + i - 1) % IdxRange) = Slot(r + i - 1)
    BY <2>2, SlotWrap
  <2>4. QED
    BY <2>2, <2>3
<1>2. QED
  BY <1>1

LEMMA WaitingWindow ==
  ASSUME RingTypeOK
  PROVE  Waiting = [i \in 1 .. QueueUsedSize |-> storage_packet[At(i - 1)]]
  BY UsedSize, Window DEF Waiting, At, RingTypeOK

LEMMA WaitingNext ==
  ASSUME rd_idx' \in Idx, QueueUsedSize' \in Nat
  PROVE  Waiting' = [i \in 1 .. QueueUsedSize' |-> storage_packet'[At(i - 1)']]
<1>1. Waiting' = [i \in 1 .. QueueUsedSize' |->
                    storage_packet'[Slot((rd_idx' + i - 1) % IdxRange)]]
  BY DEF Waiting, Slot
<1>2. \A i : At(i - 1)' = Slot(rd_idx' + (i - 1))
  BY DEF At, Slot
<1>3. [i \in 1 .. QueueUsedSize' |-> storage_packet'[Slot((rd_idx' + i - 1) % IdxRange)]]
        = [i \in 1 .. QueueUsedSize' |-> storage_packet'[Slot(rd_idx' + (i - 1))]]
  BY Window
<1>4. QED
  BY <1>1, <1>2, <1>3

LEMMA SequenceItself ==
  ASSUME NEW S, NEW s \in Seq(S)
  PROVE  s = [i \in 1 .. Len(s) |-> s[i]]
  OBVIOUS

LEMMA WaitingIsQueue ==
  ASSUME RingInv
  PROVE  /\ Waiting \in Seq(WholePackets)
         /\ Len(Waiting) = QueueUsedSize
         /\ QueueUsedSize \in Nat
         /\ \A i \in 1 .. QueueUsedSize : Waiting[i] = storage_packet[At(i - 1)]
<1>1. RingTypeOK /\ QueueUsedSize \in Nat
  BY UsedSize DEF RingInv
<1>2. \A i \in 1 .. QueueUsedSize : storage_packet[At(i - 1)] \in WholePackets
  BY <1>1 DEF RingInv, WaitingInv
<1>3. Waiting = [i \in 1 .. QueueUsedSize |-> storage_packet[At(i - 1)]]
  BY <1>1, WaitingWindow
<1>4. Waiting \in [1 .. QueueUsedSize -> WholePackets]
  BY <1>2, <1>3
<1>5. Waiting \in Seq(WholePackets) /\ Len(Waiting) = QueueUsedSize
  BY <1>1, <1>4
<1>6. QED
  BY <1>1, <1>3, <1>5

(* A step that neither moves an index nor writes to a waiting slot leaves  *)
(* the queue as it is.                                                     *)
LEMMA QueueStays ==
  ASSUME RingInv, RingInv', UNCHANGED <<wr_idx, rd_idx>>,
         \A i \in 0 .. QueueUsedSize - 1 : storage_packet'[At(i)] = storage_packet[At(i)]
  PROVE  Waiting' = Waiting
<1>1. QueueUsedSize' = QueueUsedSize /\ \A i : At(i)' = At(i)
  BY SlotsStay
<1>2. RingTypeOK /\ RingTypeOK' /\ QueueUsedSize \in Nat
  BY UsedSize DEF RingInv
<1>3. Waiting = [i \in 1 .. QueueUsedSize |-> storage_packet[At(i - 1)]]
  BY <1>2, WaitingWindow
<1>4. Waiting' = [i \in 1 .. QueueUsedSize' |-> storage_packet'[At(i - 1)']]
  BY <1>1, <1>2, WaitingNext DEF RingTypeOK
<1>5. \A i \in 1 .. QueueUsedSize : storage_packet'[At(i - 1)'] = storage_packet[At(i - 1)]
  BY <1>1, <1>2
<1>6. QED
  BY <1>1, <1>3, <1>4, <1>5

LEMMA PushAppends ==
  ASSUME RingInv, PushIndex
  PROVE  /\ pushed \in Payloads
         /\ Len(Waiting) < size
         /\ Waiting' = Append(Waiting, Whole(pushed))
<1> USE DEF PushIndex
<1>1. RingTypeOK /\ QueueUsedSize \in Nat /\ QueueUsedSize < size /\ pushed \in Payloads
        /\ storage_packet[At(QueueUsedSize)] = Whole(pushed)
  BY UsedSize DEF RingInv, WriterInv
<1>2. QueueUsedSize' = QueueUsedSize + 1 /\ \A i : At(i)' = At(i)
  BY <1>1, WriterMoves
<1>3. Waiting' = [i \in 1 .. QueueUsedSize + 1 |-> storage_packet[At(i - 1)]]
  <2>1. Waiting' = [i \in 1 .. QueueUsedSize' |-> storage_packet'[At(i - 1)']]
    BY <1>1, <1>2, WaitingNext DEF RingTypeOK
  <2>2. storage_packet' = storage_packet
    OBVIOUS
  <2> HIDE DEF PushIndex
  <2>3. QED
    BY <1>2, <2>1, <2>2
<1>4. /\ Waiting \in Seq(WholePackets)
      /\ Len(Waiting) = QueueUsedSize
      /\ \A i \in 1 .. QueueUsedSize : Waiting[i] = storage_packet[At(i - 1)]
  BY WaitingIsQueue
<1>5. Whole(pushed) \in WholePackets
  BY <1>1 DEF WholePackets
<1> DEFINE longer == Append(Waiting, Whole(pushed))
<1>6. /\ longer \in Seq(WholePackets)
      /\ Len(longer) = QueueUsedSize + 1
      /\ \A i \in 1 .. QueueUsedSize : longer[i] = Waiting[i]
      /\ longer[QueueUsedSize + 1] = Whole(pushed)
  BY <1>4, <1>5, AppendProperties
<1>7. \A i \in 1 .. QueueUsedSize + 1 : longer[i] = storage_packet[At(i - 1)]
  <2>1. TAKE i \in 1 .. QueueUsedSize + 1
  <2>2. CASE i \in 1 .. QueueUsedSize
    BY <1>4, <1>6, <2>2
  <2>3. CASE i = QueueUsedSize + 1
    <3>1. i - 1 = QueueUsedSize
      BY <1>1, <2>3
    <3>2. QED
      BY <1>1, <1>6, <2>3, <3>1
  <2> HIDE DEF longer
  <2>4. i \in 1 .. QueueUsedSize \/ i = QueueUsedSize + 1
    BY <1>1
  <2>5. QED
    BY <2>2, <2>3, <2>4
<1>8. longer = [i \in 1 .. QueueUsedSize + 1 |-> storage_packet[At(i - 1)]]
  <2> HIDE DEF longer
  <2>1. longer = [i \in 1 .. Len(longer) |-> longer[i]]
    BY <1>6, SequenceItself
  <2>2. QED
    BY <1>6, <1>7, <2>1
<1>9. QED
  BY <1>1, <1>3, <1>4, <1>8

LEMMA PopTakesHead ==
  ASSUME RingInv, PopIndex
  PROVE  /\ Waiting # <<>>
         /\ delivered' = Head(Waiting)
         /\ Waiting' = Tail(Waiting)
<1> USE DEF PopIndex
<1>1. RingTypeOK /\ QueueUsedSize \in Nat /\ QueueUsedSize > 0
        /\ pkg = storage_packet[At(0)]
  BY UsedSize, ReaderHasOldest DEF RingInv
<1>2. /\ rd_idx' \in Idx
      /\ QueueUsedSize' = QueueUsedSize - 1
      /\ \A i \in Nat : At(i)' = At(i + 1)
  BY <1>1, ReaderMoves
<1>3. Waiting' = [i \in 1 .. QueueUsedSize - 1 |-> storage_packet[At(i)]]
  <2>1. Waiting' = [i \in 1 .. QueueUsedSize' |-> storage_packet'[At(i - 1)']]
    BY <1>1, <1>2, WaitingNext
  <2>2. \A i \in 1 .. QueueUsedSize - 1 : At(i - 1)' = At(i)
    <3>1. TAKE i \in 1 .. QueueUsedSize - 1
    <3>2. i - 1 \in Nat /\ (i - 1) + 1 = i
      BY <1>1
    <3>3. At(i - 1)' = At((i - 1) + 1)
      BY <1>2, <3>2 DEF At
    <3>4. QED
      BY <3>2, <3>3
  <2>3. storage_packet' = storage_packet
    OBVIOUS
  <2> HIDE DEF PopIndex
  <2>4. QED
    BY <1>2, <2>1, <2>2, <2>3
<1>4. /\ Waiting \in Seq(WholePackets)
      /\ Len(Waiting) = QueueUsedSize
      /\ \A i \in 1 .. QueueUsedSize : Waiting[i] = storage_packet[At(i - 1)]
  BY WaitingIsQueue
<1>5. Waiting # <<>> /\ Head(Waiting) = storage_packet[At(0)]
  <2>1. 1 \in 1 .. QueueUsedSize /\ 1 - 1 = 0
    BY <1>1
  <2>2. Waiting[1] = storage_packet[At(0)]
    BY <1>4, <2>1
  <2>3. QED
    BY <1>1, <1>4, <2>2
<1>6. /\ Tail(Waiting) \in Seq(WholePackets)
      /\ Len(Tail(Waiting)) = QueueUsedSize - 1
      /\ \A i \in 1 .. QueueUsedSize - 1 : Tail(Waiting)[i] = Waiting[i + 1]
  BY <1>1, <1>4, <1>5, HeadTailProperties
<1>7. \A i \in 1 .. QueueUsedSize - 1 : Tail(Waiting)[i] = storage_packet[At(i)]
  <2>1. TAKE i \in 1 .. QueueUsedSize - 1
  <2>2. i + 1 \in 1 .. QueueUsedSize /\ (i + 1) - 1 = i
    BY <1>1
  <2>3. Waiting[i + 1] = storage_packet[At(i)]
    BY <1>4, <2>2
  <2>4. QED
    BY <1>6, <2>3
<1>8. Tail(Waiting) = [i \in 1 .. QueueUsedSize - 1 |-> storage_packet[At(i)]]
  <2> DEFINE rest == Tail(Waiting)
  <2>1. rest = [i \in 1 .. Len(rest) |-> rest[i]]
    BY <1>6, SequenceItself
  <2>2. Len(rest) = QueueUsedSize - 1 /\ \A i \in 1 .. QueueUsedSize - 1 : rest[i] = storage_packet[At(i)]
    BY <1>6, <1>7
  <2> HIDE DEF rest
  <2>3. rest = [i \in 1 .. QueueUsedSize - 1 |-> storage_packet[At(i)]]
    BY <2>1, <2>2
  <2>4. QED
    BY <2>3 DEF rest
<1>9. QED
  BY <1>1, <1>3, <1>5, <1>8

(* The ring behaves as a bounded queue: every packet that is taken in is   *)
(* handed out once and in order, and at most size packets wait.            *)
THEOREM RingIsFifo == RingSpec => FifoSpec
<1> USE DEF Fifo!vars
<1>1. RingInit => Fifo!Init
  <2>1. SUFFICES ASSUME RingInit PROVE Fifo!Init
    OBVIOUS
  <2>2. RingInv
    BY <2>1, InitRing
  <2>3. QueueUsedSize = 0
    BY <2>1, <2>2, UsedSize DEF RingInit, RingInv, QueueIsEmpty
  <2>4. Waiting = <<>>
    BY <2>2, <2>3, WaitingIsQueue
  <2>5. QED
    BY <2>1, <2>4 DEF Fifo!Init, RingInit
<1>2. RingInv /\ RingInv' /\ [RingNext]_ringAndThreads => [Fifo!Next]_Fifo!vars
  <2>1. SUFFICES ASSUME RingInv, RingInv', [RingNext]_ringAndThreads
                 PROVE  [Fifo!Next]_Fifo!vars
    OBVIOUS
  <2>2. RingTypeOK /\ QueueUsedSize \in Nat /\ size \in Nat
    BY <2>1, UsedSize, RingShape DEF RingInv
  <2>3. ASSUME UNCHANGED <<wr_idx, rd_idx, storage_packet, delivered>>
        PROVE  UNCHANGED Fifo!vars
    BY <2>1, <2>3, QueueStays
  <2>4. ASSUME UNCHANGED <<wr_idx, rd_idx, delivered>>, QueueUsedSize < size,
               NEW P, storage_packet' = [storage_packet EXCEPT ![Slot(wr_idx)] = P]
        PROVE  UNCHANGED Fifo!vars
    <3>1. Slot(wr_idx) = At(QueueUsedSize)
      BY <2>2, UsedSize
    <3>2. \A i \in 0 .. QueueUsedSize - 1 : storage_packet'[At(i)] = storage_packet[At(i)]
      <4>1. TAKE i \in 0 .. QueueUsedSize - 1
      <4>2. At(i) \in Slots /\ At(i) # At(QueueUsedSize)
        BY <2>2, <2>4, AtInSlots, WindowSlots
      <4>3. QED
        BY <2>2, <2>4, <3>1, <4>2 DEF RingTypeOK
    <3>3. QED
      BY <2>1, <2>4, <3>2, QueueStays
  <2>5. ASSUME NEW p \in Payloads, PushHead(p) PROVE UNCHANGED Fifo!vars
    <3>1. QueueUsedSize < size /\ UNCHANGED <<wr_idx, rd_idx, delivered>>
      BY <2>2, <2>5 DEF PushHead, QueueIsFull
    <3>2. storage_packet' = [storage_packet EXCEPT ![Slot(wr_idx)] =
                               [head |-> p, points |-> NoPayload]]
      BY <2>5 DEF PushHead
    <3>3. QED
      BY <2>4, <3>1, <3>2
  <2>6. CASE PushPoints
    BY <2>1, <2>4, <2>6 DEF PushPoints, RingInv, WriterInv
  <2>7. CASE PushIndex
    <3>1. /\ pushed \in Payloads
          /\ Len(Waiting) < size
          /\ Waiting' = Append(Waiting, Whole(pushed))
      BY <2>1, <2>7, PushAppends
    <3>2. delivered' = delivered
      BY <2>7 DEF PushIndex
    <3>3. QED
      BY <3>1, <3>2 DEF Fifo!Next, Fifo!Put
  <2>8. CASE PopHead
    BY <2>3, <2>8 DEF PopHead, ringVars
  <2>9. CASE PopPoints
    BY <2>3, <2>9 DEF PopPoints, ringVars
  <2>10. CASE PopIndex
    BY <2>1, <2>10, PopTakesHead DEF Fifo!Next, Fifo!Get
  <2>11. CASE UNCHANGED ringAndThreads
    BY <2>3, <2>11 DEF ringAndThreads, ringVars
  <2>12. QED
    BY <2>1, <2>5, <2>6, <2>7, <2>8, <2>9, <2>10, <2>11 DEF RingNext
<1>3. QED
  BY <1>1, <1>2, RingInvariant, PTL DEF RingSpec, FifoSpec, Fifo!Spec
-----------------------------------------------------------------------------
(* PubHandler: frames of synchronised lidars.                              *)

Times == 0 .. Horizon - 1

(* CheckTimer's two conditions, of the first i packets of a frame. *)
EndOfInterval(t) == (t \div PerMs) % (Interval \div PerMs) = 0
EndsAt(s, i) == EndOfInterval(s[i]) /\ (s[i] - s[1]) % Horizon >= Interval - PerMs

InTurn(s) == \A i \in 1 .. Len(s) - 1 : Follows(s[i], s[i + 1])
Unended(s, n) == \A i \in 1 .. n : ~EndsAt(s, i)

(* A lidar's frames: packets in turn, within a frame and from one frame to *)
(* the next, and each frame cut as soon as it could be.                    *)
CutInTurn(cloud, frame, before) ==
  /\ cloud \in Seq(Times) /\ frame \in Seq(Times)
  /\ InTurn(cloud) /\ InTurn(frame)
  /\ frame # <<>> /\ cloud # <<>> => Follows(Last(frame), cloud[1])
  /\ Unended(cloud, Len(cloud)) /\ Unended(frame, Len(frame) - 1)
  /\ frame # <<>> => EndOfInterval(Last(frame))
  /\ before # Never => /\ frame # <<>>
                       /\ before \in Times /\ EndOfInterval(before)
                       /\ Follows(before, frame[1])

FrameTypes ==
  /\ clock \in Times /\ heard \in SUBSET Sensors /\ lost \in 0 .. MaxLost
  /\ raw_packet_queue_ \in Seq([handle : Sensors, time_stamp : Times])
  /\ points_clouds_ \in [Sensors -> Seq(Times)] /\ frame_ \in [Sensors -> Seq(Times)]
  /\ previous \in [Sensors -> Times \cup {Never}]
  /\ raw_packet_queue_ # <<>> => is_timestamp_sync_ = TRUE

(* The last packet of lidar l that has left the queue has time t. *)
Taken(l, t) ==
  IF points_clouds_[l] # <<>> THEN t = Last(points_clouds_[l])
  ELSE frame_[l] # <<>> /\ t = Last(frame_[l])

(* How far the clock may be ahead of a lidar's last packet. *)
Behind(l, t) == (clock - t) % Horizon \in IF l \in heard THEN 0 .. lost ELSE 1 .. lost + 1

NoneFrom(l, i, j) == \A k \in i .. j : raw_packet_queue_[k].handle # l

QueueInTurn ==
  \A i, j \in 1 .. Len(raw_packet_queue_) :
    LET l == raw_packet_queue_[j].handle IN
    i < j /\ raw_packet_queue_[i].handle = l /\ NoneFrom(l, i + 1, j - 1)
      => Follows(raw_packet_queue_[i].time_stamp, raw_packet_queue_[j].time_stamp)

QueueFollowsTaken ==
  \A j \in 1 .. Len(raw_packet_queue_) :
    LET l == raw_packet_queue_[j].handle IN
    NoneFrom(l, 1, j - 1) =>
      \A t \in Times : Taken(l, t) => Follows(t, raw_packet_queue_[j].time_stamp)

QueueBehindClock ==
  \A i \in 1 .. Len(raw_packet_queue_) :
    LET l == raw_packet_queue_[i].handle IN
    NoneFrom(l, i + 1, Len(raw_packet_queue_)) => Behind(l, raw_packet_queue_[i].time_stamp)

TakenBehindClock ==
  \A l \in Sensors :
    NoneFrom(l, 1, Len(raw_packet_queue_)) => \A t \in Times : Taken(l, t) => Behind(l, t)

SyncedInv ==
  /\ FrameTypes
  /\ \A l \in Sensors : CutInTurn(points_clouds_[l], frame_[l], previous[l])
  /\ QueueInTurn /\ QueueFollowsTaken /\ QueueBehindClock /\ TakenBehindClock

FramesInv == synced \in {Sensors, {}} /\ (synced = Sensors => SyncedInv)

LEMMA PubNumbers ==
  /\ PerMs \in Nat \ {0} /\ Interval \in Nat \ {0} /\ Interval > PerMs
  /\ Horizon \in Nat \ {0} /\ Horizon > 3 * Interval
  /\ MaxLost \in Nat /\ MaxLost + 1 < Horizon
  /\ Interval \div PerMs \in Nat \ {0} /\ Interval = PerMs * (Interval \div PerMs)
  /\ Horizon \div Interval \in Nat /\ Horizon = Interval * (Horizon \div Interval)
<1>1. /\ PerMs \in Nat \ {0} /\ Interval \in Nat \ {0} /\ Interval > PerMs
      /\ Horizon \in Nat \ {0} /\ Horizon > 3 * Interval
      /\ MaxLost \in Nat /\ MaxLost + 1 < Horizon
      /\ Interval % PerMs = 0 /\ Horizon % Interval = 0
  BY PubAssumption
<1>2. Interval = PerMs * (Interval \div PerMs) + 0 /\ Interval \div PerMs \in Int
  BY <1>1, Division
<1>3. Horizon = Interval * (Horizon \div Interval) + 0 /\ Horizon \div Interval \in Int
  BY <1>1, Division
<1>4. ASSUME NEW a \in Nat \ {0}, NEW b \in Nat \ {0}, NEW q \in Int, a = b * q + 0
      PROVE  q \in Nat \ {0} /\ a = b * q
  BY <1>4
<1>5. Interval \div PerMs \in Nat \ {0} /\ Interval = PerMs * (Interval \div PerMs)
  BY <1>1, <1>2, <1>4
<1>6. Horizon \div Interval \in Nat \ {0} /\ Horizon = Interval * (Horizon \div Interval)
  BY <1>1, <1>3, <1>4
<1>7. QED
  BY <1>1, <1>5, <1>6

(* Remainders of sums and differences. *)
LEMMA ShiftRemainder ==
  ASSUME NEW m \in Nat \ {0}, NEW a \in Int, NEW b \in Int
  PROVE  /\ ((a % m) + b) % m = (a + b) % m
         /\ (b - (a % m)) % m = (b - a) % m
<1> DEFINE q == a \div m
           r == a % m
<1>1. r \in 0 .. m - 1 /\ q \in Int /\ a = m * q + r
  BY Division
<1> HIDE DEF q, r
<1> DEFINE d == (r + b) \div m
           s == (r + b) % m
           e == (b - r) \div m
           u == (b - r) % m
<1>2. s \in 0 .. m - 1 /\ d \in Int /\ r + b = m * d + s
  <2>1. r + b \in Int
    BY <1>1
  <2>2. QED
    BY <2>1, Division
<1>3. u \in 0 .. m - 1 /\ e \in Int /\ b - r = m * e + u
  <2>1. b - r \in Int
    BY <1>1
  <2>2. QED
    BY <2>1, Division
<1> HIDE DEF d, s, e, u
<1>4. a + b = m * (q + d) + s
  <2>1. m * (q + d) = m * q + m * d
    BY <1>1, <1>2
  <2>2. m * q \in Int /\ m * d \in Int
    BY <1>1, <1>2
  <2>3. QED
    BY <1>1, <1>2, <2>1, <2>2
<1>5. b - a = m * (e - q) + u
  <2>1. m * (e - q) = m * e - m * q
    BY <1>1, <1>3
  <2>2. m * q \in Int /\ m * e \in Int
    BY <1>1, <1>3
  <2>3. QED
    BY <1>1, <1>3, <2>1, <2>2
<1>6. (a + b) % m = s
  <2>1. q + d \in Int
    BY <1>1, <1>2
  <2>2. (m * (q + d) + s) % m = s
    BY <1>2, <2>1, Remainder
  <2>3. QED
    BY <1>4, <2>2
<1>7. (b - a) % m = u
  <2>1. e - q \in Int
    BY <1>1, <1>3
  <2>2. (m * (e - q) + u) % m = u
    BY <1>3, <2>1, Remainder
  <2>3. QED
    BY <1>5, <2>2
<1>8. s = (r + b) % m /\ u = (b - r) % m /\ r = a % m
  BY DEF s, u, r
<1>9. QED
  BY <1>6, <1>7, <1>8

LEMMA SmallRemainder ==
  ASSUME NEW m \in Nat \ {0}, NEW a \in 0 .. m - 1
  PROVE  a % m = a
<1>1. (m * 0 + a) % m = a
  BY Remainder
<1>2. m * 0 + a = a
  OBVIOUS
<1>3. QED
  BY <1>1, <1>2

LEMMA TimeTypes ==
  ASSUME NEW t \in Int
  PROVE  t % Horizon \in Times
<1>1. Horizon \in Nat \ {0}
  BY PubNumbers
<1>2. QED
  BY <1>1, Division DEF Times

(* What CheckTimer asks of a frame. *)
LEMMA FrameEndsHere ==
  ASSUME NEW s \in Seq(Times)
  PROVE  FrameEnds(s) <=> s # <<>> /\ EndsAt(s, Len(s))
BY DEF FrameEnds, SpansInterval, Span, EndsAt, EndOfInterval, Last

LEMMA AppendTime ==
  ASSUME NEW s \in Seq(Times), NEW t \in Times
  PROVE  /\ Append(s, t) \in Seq(Times)
         /\ Append(s, t) # <<>>
         /\ Len(Append(s, t)) = Len(s) + 1
         /\ \A i \in 1 .. Len(s) : Append(s, t)[i] = s[i]
         /\ Append(s, t)[Len(s) + 1] = t
         /\ Last(Append(s, t)) = t
         /\ s # <<>> => Append(s, t)[1] = s[1]
         /\ s = <<>> => Append(s, t)[1] = t
         /\ s # <<>> => 1 \in 1 .. Len(s) /\ Len(s) \in 1 .. Len(s)
<1>1. /\ Append(s, t) \in Seq(Times)
      /\ Append(s, t) # <<>>
      /\ Len(Append(s, t)) = Len(s) + 1
      /\ \A i \in 1 .. Len(s) : Append(s, t)[i] = s[i]
      /\ Append(s, t)[Len(s) + 1] = t
  OBVIOUS
<1>2. s # <<>> => 1 \in 1 .. Len(s) /\ Len(s) \in 1 .. Len(s)
  OBVIOUS
<1>3. s = <<>> => Len(s) + 1 = 1
  OBVIOUS
<1>4. QED
  BY <1>1, <1>2, <1>3 DEF Last

(* One more packet of a lidar: what becomes of its frames. *)
CollectedInTurn(longer, frame, before) ==
  /\ ~FrameEnds(longer) => CutInTurn(longer, frame, before)
  /\ FrameEnds(longer) =>
       CutInTurn(<<>>, longer, IF frame # <<>> THEN Last(frame) ELSE before)

LEMMA PacketCollected ==
  ASSUME NEW cloud, NEW frame, NEW before, CutInTurn(cloud, frame, before),
         NEW t \in Times,
         cloud # <<>> => Follows(Last(cloud), t),
         cloud = <<>> /\ frame # <<>> => Follows(Last(frame), t),
         NEW longer, longer = Append(cloud, t)
  PROVE  CollectedInTurn(longer, frame, before)
<1>1. cloud \in Seq(Times) /\ frame \in Seq(Times)
  BY DEF CutInTurn
<1>2. /\ longer \in Seq(Times) /\ longer # <<>>
      /\ Len(longer) = Len(cloud) + 1
      /\ \A i \in 1 .. Len(cloud) : longer[i] = cloud[i]
      /\ longer[Len(cloud) + 1] = t /\ Last(longer) = t
      /\ cloud # <<>> => longer[1] = cloud[1]
      /\ cloud = <<>> => longer[1] = t
  BY <1>1, AppendTime
<1>3. Len(cloud) \in Nat /\ (cloud = <<>> => Len(cloud) = 0)
      /\ (Len(cloud) = 0 => cloud = <<>>)
  BY <1>1
<1>4. InTurn(longer)
  <2> SUFFICES ASSUME NEW i \in 1 .. Len(cloud)
               PROVE  Follows(longer[i], longer[i + 1])
    BY <1>2, <1>3 DEF InTurn
  <2>1. CASE i = Len(cloud)
    <3>1. longer[i] = Last(cloud) /\ longer[i + 1] = t
      BY <1>2, <2>1 DEF Last
    <3>2. cloud # <<>>
      BY <1>3
    <3>3. QED
      BY <3>1, <3>2
  <2>2. CASE i # Len(cloud)
    <3>1. i \in 1 .. Len(cloud) - 1 /\ i + 1 \in 1 .. Len(cloud)
      BY <1>3, <2>2
    <3>2. longer[i] = cloud[i] /\ longer[i + 1] = cloud[i + 1]
      BY <1>2, <3>1
    <3>3. InTurn(cloud)
      BY DEF CutInTurn
    <3>4. QED
      BY <3>1, <3>2, <3>3 DEF InTurn
  <2>3. QED
    BY <2>1, <2>2
<1>5. Unended(longer, Len(longer) - 1)
  <2> SUFFICES ASSUME NEW i \in 1 .. Len(cloud)
               PROVE  ~EndsAt(longer, i)
    BY <1>2, <1>3 DEF Unended
  <2>1. longer[i] = cloud[i] /\ longer[1] = cloud[1]
    BY <1>2, <1>3
  <2>2. ~EndsAt(cloud, i)
    BY DEF CutInTurn, Unended
  <2>3. QED
    BY <2>1, <2>2 DEF EndsAt
<1>6. frame # <<>> => Follows(Last(frame), longer[1])
  BY <1>2 DEF CutInTurn
<1>7. FrameEnds(longer) <=> EndsAt(longer, Len(longer))
  BY <1>2, FrameEndsHere
<1>8. ASSUME ~FrameEnds(longer)
      PROVE  CutInTurn(longer, frame, before)
  <2>1. Unended(longer, Len(longer))
    BY <1>2, <1>3, <1>5, <1>7, <1>8 DEF Unended
  <2>2. QED
    BY <1>1, <1>2, <1>4, <1>6, <2>1 DEF CutInTurn
<1>9. ASSUME FrameEnds(longer)
      PROVE  CutInTurn(<<>>, longer, IF frame # <<>> THEN Last(frame) ELSE before)
  <2>1. EndOfInterval(Last(longer))
    BY <1>7, <1>9 DEF EndsAt, Last
  <2>2. <<>> \in Seq(Times) /\ InTurn(<<>>) /\ Unended(<<>>, Len(<<>>))
    BY DEF InTurn, Unended
  <2>3. CASE frame = <<>>
    <3>1. before = Never
      BY <2>3 DEF CutInTurn
    <3>2. QED
      BY <1>2, <1>4, <1>5, <2>1, <2>2, <2>3, <3>1 DEF CutInTurn
  <2>4. CASE frame # <<>>
    <3>1. Last(frame) \in Times /\ EndOfInterval(Last(frame))
      <4>1. Len(frame) \in 1 .. Len(frame)
        BY <1>1, <2>4
      <4>2. frame[Len(frame)] \in Times
        BY <1>1, <4>1
      <4>3. QED
        BY <2>4, <4>2 DEF CutInTurn, Last
    <3>2. QED
      BY <1>2, <1>4, <1>5, <1>6, <2>1, <2>2, <2>4, <3>1 DEF CutInTurn
  <2>5. QED
    BY <2>3, <2>4
<1>10. QED
  BY <1>8, <1>9 DEF CollectedInTurn

LEMMA EndsOfIntervals ==
  ASSUME NEW j \in Nat
  PROVE  EndOfInterval(Interval * j)
<1> DEFINE m == Interval \div PerMs
<1>1. m \in Nat \ {0} /\ Interval = PerMs * m /\ PerMs \in Nat \ {0}
  BY PubNumbers
<1> HIDE DEF m
<1>2. m * j \in Nat /\ Interval * j = PerMs * (m * j)
  BY <1>1
<1>3. (PerMs * (m * j)) \div PerMs = m * j
  <2> DEFINE a == PerMs * (m * j)
  <2>1. a \in Int
    BY <1>1, <1>2
  <2>2. a % PerMs \in 0 .. PerMs - 1 /\ a \div PerMs \in Int
        /\ a = PerMs * (a \div PerMs) + (a % PerMs)
    BY <1>1, <2>1, Division
  <2>3. (PerMs * (m * j) + 0) % PerMs = 0
    <3>1. m * j \in Int /\ 0 \in 0 .. PerMs - 1
      BY <1>1, <1>2
    <3>2. QED
      BY <1>1, <3>1, Remainder
  <2>4. a + 0 = a
    BY <2>1
  <2>5. a % PerMs = 0
    BY <2>3, <2>4
  <2> HIDE DEF a
  <2>6. a = PerMs * (a \div PerMs)
    BY <1>1, <2>2, <2>5
  <2>7. ASSUME NEW x \in Int, NEW y \in Int, PerMs * x = PerMs * y
        PROVE  x = y
    BY <1>1, <2>7
  <2>8. a = PerMs * (m * j)
    BY DEF a
  <2>9. a \div PerMs = m * j
    BY <1>2, <2>2, <2>6, <2>7, <2>8
  <2>10. QED
    BY <2>9 DEF a
<1>4. (m * j) % m = 0
  <2>1. (m * j + 0) % m = 0
    BY <1>1, Remainder
  <2>2. m * j + 0 = m * j
    BY <1>2
  <2>3. QED
    BY <2>1, <2>2
<1>5. ((Interval * j) \div PerMs) % m = 0
  BY <1>2, <1>3, <1>4
<1>6. QED
  BY <1>5 DEF EndOfInterval, m

(* Between the ends of two intervals lies an interval, or up to PerMs - 1  *)
(* ticks less.                                                             *)
LEMMA NextEnd ==
  ASSUME NEW p \in Times, EndOfInterval(p)
  PROVE  \E n \in Interval - PerMs + 1 .. Interval : EndOfInterval((p + n) % Horizon)
<1> DEFINE m == Interval \div PerMs
           q == p \div PerMs
           r == p % PerMs
           k == q \div m
           h == Horizon \div Interval
<1>1. /\ m \in Nat \ {0} /\ Interval = PerMs * m /\ PerMs \in Nat \ {0}
      /\ Interval \in Nat \ {0} /\ Interval > PerMs
      /\ h \in Nat /\ Horizon = Interval * h /\ Horizon \in Nat \ {0}
  BY PubNumbers
<1>2. p \in Nat /\ p < Horizon
  BY <1>1 DEF Times
<1>3. r \in 0 .. PerMs - 1 /\ q \in Int /\ p = PerMs * q + r
  BY <1>1, <1>2, Division
<1>4. q % m = 0
  BY DEF EndOfInterval
<1> HIDE DEF m, q, r, h
<1>5. k \in Int /\ q = m * k
  <2>1. k \in Int /\ q = m * k + (q % m)
    BY <1>1, <1>3, Division
  <2> HIDE DEF k
  <2>2. m * k \in Int
    BY <1>1, <2>1
  <2>3. QED
    BY <1>4, <2>1, <2>2
<1> HIDE DEF k
<1>6. p = Interval * k + r
  BY <1>1, <1>3, <1>5
<1> DEFINE n == Interval - r
<1>7. n \in Interval - PerMs + 1 .. Interval
  BY <1>1, <1>3
<1>8. p + n = Interval * (k + 1)
  <2>1. Interval * (k + 1) = Interval * k + Interval
    BY <1>1, <1>5
  <2>2. Interval * k \in Int
    BY <1>1, <1>5
  <2>3. QED
    BY <1>1, <1>3, <1>6, <2>1, <2>2
<1>9. p + n \in Nat /\ p + n > 0
  BY <1>1, <1>2, <1>3
<1> HIDE DEF n
<1>10. k + 1 \in 1 .. h
  <2>1. ASSUME k + 1 <= 0
        PROVE  FALSE
    <3>1. Interval * (k + 1) <= 0
      BY <1>1, <1>5, <2>1
    <3>2. QED
      BY <1>8, <1>9, <3>1
  <2>2. ASSUME k >= h
        PROVE  FALSE
    <3>1. Interval * k >= Interval * h
      BY <1>1, <1>5, <2>2
    <3>2. QED
      BY <1>1, <1>2, <1>3, <1>5, <1>6, <3>1
  <2>3. QED
    BY <1>1, <1>5, <2>1, <2>2
<1>11. CASE k + 1 = h
  <2>1. p + n = Horizon
    BY <1>1, <1>8, <1>11
  <2>2. (p + n) % Horizon = 0
    <3>1. (Horizon * 1 + 0) % Horizon = 0
      <4>1. 0 \in 0 .. Horizon - 1
        BY <1>1
      <4>2. QED
        BY <1>1, <4>1, Remainder
    <3>2. Horizon * 1 + 0 = Horizon
      BY <1>1
    <3>3. QED
      BY <2>1, <3>1, <3>2
  <2>3. EndOfInterval(Interval * 0) /\ Interval * 0 = 0
    BY <1>1, EndsOfIntervals
  <2>4. QED
    BY <1>7, <2>2, <2>3
<1>12. CASE k + 1 # h
  <2>1. k + 1 \in Nat /\ k + 2 <= h
    BY <1>1, <1>5, <1>10, <1>12
  <2>2. p + n < Horizon
    <3>1. Interval * (k + 2) <= Interval * h
      BY <1>1, <1>5, <2>1
    <3>2. Interval * (k + 2) = Interval * (k + 1) + Interval
      BY <1>1, <1>5
    <3>3. QED
      BY <1>1, <1>8, <1>9, <3>1, <3>2
  <2>3. p + n \in 0 .. Horizon - 1
    BY <1>1, <1>9, <2>2
  <2>4. (p + n) % Horizon = p + n
    BY <1>1, <2>3, SmallRemainder
  <2>5. EndOfInterval(Interval * (k + 1))
    BY <2>1, EndsOfIntervals
  <2>6. QED
    BY <1>7, <1>8, <2>4, <2>5
<1>13. QED
  BY <1>11, <1>12

(* Packets without a gap have successive times. *)
LEMMA WithoutGap ==
  ASSUME NEW p \in Times, NEW s \in Seq(Times),
         s # <<>> => s[1] = Later(p),
         \A i \in 1 .. Len(s) - 1 : s[i + 1] = Later(s[i])
  PROVE  \A i \in 1 .. Len(s) : s[i] = (p + i) % Horizon
<1> DEFINE T == {i \in 1 .. Len(s) : s[i] # (p + i) % Horizon}
<1>1. Horizon \in Nat \ {0} /\ p \in Int
  BY PubNumbers DEF Times
<1>2. Len(s) \in Nat
  OBVIOUS
<1> SUFFICES ASSUME T # {} PROVE FALSE
  OBVIOUS
<1>3. T \subseteq Nat
  OBVIOUS
<1>4. PICK i \in T : \A j \in T : i <= j
  BY <1>3, LeastNumber
<1>5. i \in 1 .. Len(s) /\ s[i] # (p + i) % Horizon
  BY <1>4
<1>6. CASE i = 1
  <2>1. s # <<>>
    BY <1>2, <1>5
  <2>2. QED
    BY <1>5, <1>6, <2>1 DEF Later
<1>7. CASE i # 1
  <2> DEFINE j == i - 1
  <2>1. j \in 1 .. Len(s) - 1 /\ j \in 1 .. Len(s) /\ j + 1 = i /\ ~ (i <= j)
    BY <1>2, <1>5, <1>7
  <2>2. j \notin T
    BY <1>4, <2>1
  <2> HIDE DEF j
  <2>3. s[j] = (p + j) % Horizon
    BY <2>1, <2>2
  <2>4. s[i] = Later(s[j])
    BY <2>1
  <2>5. p + j \in Int /\ (p + j) + 1 = p + i
    BY <1>1, <2>1
  <2>6. (((p + j) % Horizon) + 1) % Horizon = ((p + j) + 1) % Horizon
    <3>1. \A a, b \in Int : ((a % Horizon) + b) % Horizon = (a + b) % Horizon
      BY <1>1, ShiftRemainder
    <3>2. 1 \in Int
      OBVIOUS
    <3>3. QED
      BY <2>5, <3>1, <3>2
  <2>7. QED
    BY <1>5, <2>3, <2>4, <2>5, <2>6 DEF Later
<1>8. QED
  BY <1>6, <1>7

(* A frame without a gap from the frame before it on. *)
LEMMA FrameOfInterval ==
  ASSUME NEW cloud, NEW f, NEW p, CutInTurn(cloud, f, p), p # Never,
         \A i \in 1 .. Len(f) : f[i] = (p + i) % Horizon
  PROVE  Span(f) <= Interval
<1>1. /\ f \in Seq(Times) /\ f # <<>> /\ p \in Times /\ EndOfInterval(p)
      /\ Unended(f, Len(f) - 1)
  BY DEF CutInTurn
<1>2. /\ Len(f) \in Nat \ {0} /\ p \in Int
      /\ Interval \in Nat \ {0} /\ PerMs \in Nat \ {0} /\ Interval > PerMs
      /\ Horizon \in Nat \ {0} /\ Horizon > 3 * Interval
  BY <1>1, PubNumbers DEF Times
<1>3. ASSUME NEW i \in 1 .. Len(f), i <= Interval
      PROVE  (f[i] - f[1]) % Horizon = i - 1
  <2>1. f[i] = (p + i) % Horizon /\ f[1] = (p + 1) % Horizon
    BY <1>2
  <2>2. f[1] \in Int /\ p + i \in Int /\ p + 1 \in Int
    <3>1. f[1] \in Times
      BY <1>1, <1>2
    <3>2. QED
      BY <1>2, <3>1 DEF Times
  <2>3. (((p + i) % Horizon) + (0 - f[1])) % Horizon = ((p + i) + (0 - f[1])) % Horizon
    <3>1. \A a, b \in Int : ((a % Horizon) + b) % Horizon = (a + b) % Horizon
      BY <1>2, ShiftRemainder
    <3>2. 0 - f[1] \in Int
      BY <2>2
    <3>3. QED
      BY <2>2, <3>1, <3>2
  <2>4. ((p + i) - ((p + 1) % Horizon)) % Horizon = ((p + i) - (p + 1)) % Horizon
    BY <1>2, <2>2, ShiftRemainder
  <2>5. (p + i) - (p + 1) = i - 1 /\ i - 1 \in 0 .. Horizon - 1
    BY <1>2, <1>3
  <2>6. (i - 1) % Horizon = i - 1
    BY <1>2, <2>5, SmallRemainder
  <2>7. f[i] - f[1] = f[i] + (0 - f[1]) /\ (p + i) + (0 - f[1]) = (p + i) - f[1]
    <3>1. f[i] \in Int
      <4>1. f[i] \in Times
        BY <1>1
      <4>2. QED
        BY <4>1 DEF Times
    <3>2. QED
      BY <2>2, <3>1
  <2>8. QED
    BY <2>1, <2>3, <2>4, <2>5, <2>6, <2>7
<1>4. PICK n \in Interval - PerMs + 1 .. Interval : EndOfInterval((p + n) % Horizon)
  BY <1>1, NextEnd
<1>5. Len(f) <= n
  <2> SUFFICES ASSUME Len(f) > n PROVE FALSE
    BY <1>2, <1>4
  <2>1. n \in 1 .. Len(f) - 1 /\ n \in 1 .. Len(f) /\ n <= Interval
    BY <1>2, <1>4
  <2>2. EndOfInterval(f[n])
    BY <1>4, <2>1
  <2>3. (f[n] - f[1]) % Horizon >= Interval - PerMs
    <3>1. (f[n] - f[1]) % Horizon = n - 1
      BY <1>3, <2>1
    <3>2. QED
      BY <1>2, <1>4, <3>1
  <2>4. QED
    BY <1>1, <2>1, <2>2, <2>3 DEF EndsAt, Unended
<1>6. Len(f) \in 1 .. Len(f) /\ Len(f) <= Interval
  BY <1>2, <1>4, <1>5
<1>7. Span(f) = Len(f) - 1
  BY <1>3, <1>6 DEF Span, Last
<1>8. QED
  BY <1>2, <1>6, <1>7

LEMMA CutOnTime ==
  ASSUME NEW cloud, NEW f, NEW p, CutInTurn(cloud, f, p), p # Never,
         NEW stream, stream = <<p>> \o f
  PROVE  /\ \A i \in 1 .. Len(stream) - 1 : Follows(stream[i], stream[i + 1])
         /\ (\A i \in 1 .. Len(stream) - 1 : stream[i + 1] = Later(stream[i]))
              => Span(f) <= Interval
<1>1. /\ f \in Seq(Times) /\ f # <<>> /\ p \in Times /\ Follows(p, f[1]) /\ InTurn(f)
  BY DEF CutInTurn
<1>2. /\ Len(stream) = Len(f) + 1 /\ stream[1] = p /\ Len(f) \in Nat
      /\ \A i \in 1 .. Len(f) : stream[i + 1] = f[i]
  BY <1>1
<1>3. Len(stream) - 1 = Len(f)
  BY <1>2
<1>4. ASSUME NEW i \in 1 .. Len(f)
      PROVE  Follows(stream[i], stream[i + 1])
  <2>1. CASE i = 1
    BY <1>1, <1>2, <2>1
  <2>2. CASE i # 1
    <3> DEFINE j == i - 1
    <3>1. j \in 1 .. Len(f) - 1 /\ j \in 1 .. Len(f) /\ j + 1 = i
      BY <1>2, <2>2
    <3> HIDE DEF j
    <3>2. stream[i] = f[j] /\ stream[i + 1] = f[j + 1]
      BY <1>2, <3>1
    <3>3. QED
      BY <1>1, <3>1, <3>2 DEF InTurn
  <2>3. QED
    BY <2>1, <2>2
<1>5. ASSUME \A i \in 1 .. Len(f) : stream[i + 1] = Later(stream[i])
      PROVE  Span(f) <= Interval
  <2>1. f[1] = Later(p)
    <3>1. 1 \in 1 .. Len(f)
      BY <1>1
    <3>2. stream[1 + 1] = f[1] /\ stream[1 + 1] = Later(stream[1])
      BY <1>2, <1>5, <3>1
    <3>3. QED
      BY <1>2, <3>2
  <2>2. ASSUME NEW i \in 1 .. Len(f) - 1
        PROVE  f[i + 1] = Later(f[i])
    <3>1. i \in 1 .. Len(f) /\ i + 1 \in 1 .. Len(f)
      BY <1>2
    <3>2. stream[(i + 1) + 1] = f[i + 1] /\ stream[i + 1] = f[i]
      BY <1>2, <3>1
    <3>3. stream[(i + 1) + 1] = Later(stream[i + 1])
      BY <1>5, <3>1
    <3>4. QED
      BY <3>2, <3>3
  <2>3. \A i \in 1 .. Len(f) : f[i] = (p + i) % Horizon
    BY <1>1, <2>1, <2>2, WithoutGap
  <2>4. QED
    BY <2>3, FrameOfInterval
<1>6. QED
  BY <1>3, <1>4, <1>5

-----------------------------------------------------------------------------
(* The queue and the clock. *)

LEMMA QueueTypes ==
  ASSUME FrameTypes
  PROVE  /\ Len(raw_packet_queue_) \in Nat
         /\ \A i \in 1 .. Len(raw_packet_queue_) :
              /\ raw_packet_queue_[i].handle \in Sensors
              /\ raw_packet_queue_[i].time_stamp \in Times
<1> DEFINE Packets == [handle : Sensors, time_stamp : Times]
<1>1. raw_packet_queue_ \in Seq(Packets)
  BY DEF FrameTypes
<1>2. \A x \in Packets : x.handle \in Sensors /\ x.time_stamp \in Times
  OBVIOUS
<1> HIDE DEF Packets
<1>3. Len(raw_packet_queue_) \in Nat
  BY <1>1
<1>4. \A i \in 1 .. Len(raw_packet_queue_) : raw_packet_queue_[i] \in Packets
  BY <1>1
<1>5. QED
  BY <1>2, <1>3, <1>4

(* A packet that lost ones may lie before follows on the last one taken.   *)
LEMMA SendsFollow ==
  ASSUME FrameTypes, NEW l \in Sensors, NEW t \in Times, Behind(l, t), l \notin heard
  PROVE  Follows(t, clock)
<1>1. lost \in 0 .. MaxLost /\ MaxLost \in Nat
  BY PubNumbers DEF FrameTypes
<1>2. (clock - t) % Horizon \in 1 .. lost + 1
  BY DEF Behind
<1>3. QED
  BY <1>1, <1>2 DEF Follows

LEMMA TickBehind ==
  ASSUME FrameTypes, NEW l \in Sensors, NEW t \in Times, Behind(l, t),
         heard = Sensors, clock' = Later(clock), heard' = {}, lost' = lost
  PROVE  Behind(l, t)'
<1> DEFINE g == (clock - t) % Horizon
<1>1. /\ lost \in 0 .. MaxLost /\ MaxLost \in Nat /\ MaxLost + 1 < Horizon
      /\ Horizon \in Nat \ {0} /\ clock \in Int /\ t \in Int
  BY PubNumbers DEF FrameTypes, Times
<1>2. g \in 0 .. lost
  BY DEF Behind
<1>3. (Later(clock) - t) % Horizon = (g + 1) % Horizon
  <2>1. \A a, b \in Int : ((a % Horizon) + b) % Horizon = (a + b) % Horizon
    BY <1>1, ShiftRemainder
  <2>2. 0 - t \in Int /\ clock - t \in Int /\ clock + 1 \in Int /\ 1 \in Int
    BY <1>1
  <2>3. (((clock + 1) % Horizon) + (0 - t)) % Horizon = ((clock + 1) + (0 - t)) % Horizon
    BY <2>1, <2>2
  <2>4. (g + 1) % Horizon = ((clock - t) + 1) % Horizon
    BY <2>1, <2>2
  <2>5. ((clock + 1) + (0 - t)) = ((clock - t) + 1)
    BY <1>1
  <2>6. ASSUME NEW a \in Int PROVE a + (0 - t) = a - t
    BY <1>1
  <2>7. (clock + 1) % Horizon \in Int
    BY <1>1, <2>2, Division
  <2>8. QED
    BY <2>3, <2>4, <2>5, <2>6, <2>7 DEF Later
<1> HIDE DEF g
<1>4. (g + 1) % Horizon = g + 1
  <2>1. g + 1 \in 0 .. Horizon - 1
    BY <1>1, <1>2
  <2>2. QED
    BY <1>1, <2>1, SmallRemainder
<1>5. (clock' - t) % Horizon \in 1 .. lost' + 1
  <2>1. g + 1 \in 1 .. lost + 1
    BY <1>1, <1>2
  <2>2. (clock' - t) % Horizon = g + 1
    BY <1>3, <1>4
  <2>3. QED
    BY <2>1, <2>2
<1>6. QED
  BY <1>5 DEF Behind

LEMMA LossBehind ==
  ASSUME FrameTypes, NEW l \in Sensors, NEW t \in Times, Behind(l, t),
         NEW s \in Sensors, s \notin heard, heard' = heard \cup {s},
         clock' = clock, lost' = lost + 1
  PROVE  Behind(l, t)'
<1> DEFINE g == (clock - t) % Horizon
<1>1. lost \in Nat
  BY PubNumbers DEF FrameTypes
<1> HIDE DEF g
<1>2. g \in IF l \in heard THEN 0 .. lost ELSE 1 .. lost + 1
  BY DEF Behind, g
<1>3. g \in IF l \in heard' THEN 0 .. lost' ELSE 1 .. lost' + 1
  BY <1>1, <1>2
<1>4. QED
  BY <1>3 DEF Behind, g

LEMMA JustSent ==
  ASSUME FrameTypes, NEW l \in Sensors, heard' = heard \cup {l}, UNCHANGED <<clock, lost>>
  PROVE  /\ Behind(l, clock)'
         /\ \A s \in Sensors \ {l}, t \in Times : Behind(s, t) => Behind(s, t)'
<1>1. clock - clock = 0 /\ Horizon \in Nat \ {0} /\ lost \in Nat
  BY PubNumbers DEF FrameTypes, Times
<1>2. 0 % Horizon = 0
  <2>1. 0 \in 0 .. Horizon - 1
    BY <1>1
  <2>2. QED
    BY <1>1, <2>1, SmallRemainder
<1>3. (clock - clock) % Horizon \in 0 .. lost
  BY <1>1, <1>2
<1>4. Behind(l, clock)'
  BY <1>3 DEF Behind
<1>5. \A s \in Sensors \ {l}, t \in Times : Behind(s, t) => Behind(s, t)'
  BY DEF Behind
<1>6. QED
  BY <1>4, <1>5

(* Steps that leave the packets alone. *)
LEMMA PacketsStay ==
  ASSUME SyncedInv, FrameTypes',
         UNCHANGED <<raw_packet_queue_, points_clouds_, frame_, previous>>,
         \A l \in Sensors, t \in Times : Behind(l, t) => Behind(l, t)'
  PROVE  SyncedInv'
<1>1. FrameTypes
  BY DEF SyncedInv
<1>2. \A l \in Sensors : CutInTurn(points_clouds_'[l], frame_'[l], previous'[l])
  BY DEF SyncedInv
<1>3. QueueInTurn' /\ QueueFollowsTaken'
  BY DEF SyncedInv, QueueInTurn, QueueFollowsTaken, NoneFrom, Taken
<1>4. QueueBehindClock'
  BY <1>1, QueueTypes DEF SyncedInv, QueueBehindClock, NoneFrom
<1>5. TakenBehindClock'
  BY DEF SyncedInv, TakenBehindClock, NoneFrom, Taken
<1>6. QED
  BY <1>2, <1>3, <1>4, <1>5 DEF SyncedInv

LEMMA PointDataKeeps ==
  ASSUME SyncedInv, synced = Sensors, NEW s \in Sensors, PointData(s)
  PROVE  SyncedInv'
<1> DEFINE Q == raw_packet_queue_
           packet == [handle |-> s, time_stamp |-> clock]
<1>1. /\ FrameTypes /\ QueueInTurn /\ QueueFollowsTaken /\ QueueBehindClock
      /\ TakenBehindClock
      /\ \A l \in Sensors : CutInTurn(points_clouds_[l], frame_[l], previous[l])
  BY DEF SyncedInv
<1>2. /\ s \notin heard /\ heard' = heard \cup {s}
      /\ UNCHANGED <<clock, lost, points_clouds_, frame_, previous>>
      /\ raw_packet_queue_' = Append(raw_packet_queue_, packet)
      /\ is_timestamp_sync_' = (s \in synced)
  BY DEF PointData, Sends, publishVars
<1>3. PICK n \in Nat : /\ n = Len(Q)
                       /\ \A i \in 1 .. n : Q[i].handle \in Sensors /\ Q[i].time_stamp \in Times
  BY <1>1, QueueTypes
<1>4. Q \in Seq([handle : Sensors, time_stamp : Times]) /\ clock \in Times
  BY <1>1 DEF FrameTypes
<1>5. packet \in [handle : Sensors, time_stamp : Times]
  BY <1>4
<1>6. /\ Len(Q') = n + 1
      /\ \A i \in 1 .. n : Q'[i] = Q[i]
      /\ Q'[n + 1] = packet
      /\ Q' \in Seq([handle : Sensors, time_stamp : Times])
  BY <1>3, <1>2, <1>4, <1>5
<1>7. FrameTypes'
  <2>1. is_timestamp_sync_' = TRUE
    BY <1>2
  <2>2. QED
    BY <1>1, <1>2, <1>6, <2>1 DEF FrameTypes
<1>8. packet.handle = s /\ packet.time_stamp = clock
  OBVIOUS
<1>9. \A t \in Times : Behind(s, t) => Follows(t, clock)
  BY <1>1, <1>2, SendsFollow
<1>10. /\ Behind(s, clock)'
       /\ \A l \in Sensors \ {s}, t \in Times : Behind(l, t) => Behind(l, t)'
  BY <1>1, <1>2, JustSent
<1> HIDE DEF packet
<1>11. ASSUME NEW l, NEW i \in Nat, i >= 1, NEW j \in Nat, j <= n
       PROVE  NoneFrom(l, i, j)' <=> NoneFrom(l, i, j)
  <2>1. \A k \in i .. j : k \in 1 .. n
    BY <1>3, <1>11
  <2>2. \A k \in i .. j : Q'[k] = Q[k]
    BY <1>6, <2>1
  <2>3. QED
    BY <2>2 DEF NoneFrom
<1>12. ASSUME NEW l, NEW t PROVE Taken(l, t)' <=> Taken(l, t)
  BY <1>2 DEF Taken
<1>13. QueueInTurn'
  <2> SUFFICES ASSUME NEW i \in 1 .. n + 1, NEW j \in 1 .. n + 1, i < j,
                      NEW l, l = Q'[j].handle, Q'[i].handle = l,
                      NoneFrom(l, i + 1, j - 1)'
               PROVE  Follows(Q'[i].time_stamp, Q'[j].time_stamp)
    BY <1>6 DEF QueueInTurn
  <2>1. i \in 1 .. n /\ i + 1 \in Nat /\ i + 1 >= 1 /\ j - 1 \in Nat /\ j - 1 <= n
    BY <1>3
  <2>2. Q'[i] = Q[i] /\ NoneFrom(l, i + 1, j - 1)
    BY <1>6, <1>11, <2>1
  <2>3. CASE j \in 1 .. n
    BY <1>3, <1>1, <1>6, <2>1, <2>2, <2>3 DEF QueueInTurn
  <2>4. CASE j = n + 1
    <3>1. l = s /\ Q[i].handle = s /\ Q'[j].time_stamp = clock /\ j - 1 = n
      BY <1>3, <1>6, <1>8, <2>2, <2>4
    <3>2. Behind(s, Q[i].time_stamp)
      BY <1>3, <1>1, <1>6, <1>8, <2>1, <2>2, <2>4, <3>1 DEF QueueBehindClock
    <3>3. QED
      BY <1>3, <1>9, <2>1, <2>2, <3>1, <3>2
  <2>5. QED
    BY <1>3, <2>3, <2>4
<1>14. QueueFollowsTaken'
  <2> SUFFICES ASSUME NEW j \in 1 .. n + 1, NEW l, l = Q'[j].handle,
                      NoneFrom(l, 1, j - 1)', NEW t \in Times, Taken(l, t)'
               PROVE  Follows(t, Q'[j].time_stamp)
    BY <1>6 DEF QueueFollowsTaken
  <2>1. 1 \in Nat /\ 1 >= 1 /\ j - 1 \in Nat /\ j - 1 <= n
    BY <1>3
  <2>2. NoneFrom(l, 1, j - 1) /\ Taken(l, t)
    BY <1>11, <1>12, <2>1
  <2>3. CASE j \in 1 .. n
    BY <1>3, <1>1, <1>6, <2>2, <2>3 DEF QueueFollowsTaken
  <2>4. CASE j = n + 1
    <3>1. l = s /\ Q'[j].time_stamp = clock /\ j - 1 = n
      BY <1>3, <1>6, <1>8, <2>4
    <3>2. Behind(s, t)
      BY <1>3, <1>1, <2>2, <3>1 DEF TakenBehindClock
    <3>3. QED
      BY <1>9, <3>1, <3>2
  <2>5. QED
    BY <1>3, <2>3, <2>4
<1>15. QueueBehindClock'
  <2> SUFFICES ASSUME NEW i \in 1 .. n + 1, NEW l, l = Q'[i].handle,
                      NEW t, t = Q'[i].time_stamp, NoneFrom(l, i + 1, n + 1)'
               PROVE  Behind(l, t)'
    BY <1>6 DEF QueueBehindClock, Behind, NoneFrom
  <2>1. CASE i = n + 1
    <3>1. l = s /\ t = clock
      BY <1>6, <1>8, <2>1
    <3>2. (clock' - clock') % Horizon \in IF s \in heard' THEN 0 .. lost' ELSE 1 .. lost' + 1
      BY <1>2, <1>10 DEF Behind
    <3>3. clock' = clock
      BY <1>2
    <3>4. (clock' - t) % Horizon \in IF l \in heard' THEN 0 .. lost' ELSE 1 .. lost' + 1
      BY <3>1, <3>2, <3>3
    <3>5. QED
      BY <3>4 DEF Behind
  <2>2. CASE i \in 1 .. n
    <3>1. /\ Q'[i] = Q[i] /\ i + 1 \in Nat /\ i + 1 >= 1 /\ n \in Nat /\ n <= n
          /\ n + 1 \in i + 1 .. n + 1
      BY <1>3, <1>6, <2>2
    <3>2. Q'[n + 1].handle # l
      BY <3>1 DEF NoneFrom
    <3>3. l \in Sensors \ {s} /\ t \in Times
      BY <1>3, <1>6, <1>8, <2>2, <3>2
    <3>4. NoneFrom(l, i + 1, n)'
      <4>1. i + 1 .. n \subseteq i + 1 .. n + 1
        BY <1>3
      <4>2. QED
        BY <4>1 DEF NoneFrom
    <3>5. NoneFrom(l, i + 1, n)
      BY <1>11, <3>1, <3>4
    <3>6. Behind(l, t)
      BY <1>3, <1>1, <2>2, <3>1, <3>5 DEF QueueBehindClock
    <3>7. QED
      BY <1>10, <3>3, <3>6
  <2>3. QED
    BY <1>3, <2>1, <2>2
<1>16. TakenBehindClock'
  <2> SUFFICES ASSUME NEW l \in Sensors, NoneFrom(l, 1, n + 1)',
                      NEW t \in Times, Taken(l, t)'
               PROVE  Behind(l, t)'
    BY <1>6 DEF TakenBehindClock
  <2>1. n + 1 \in 1 .. n + 1 /\ 1 .. n \subseteq 1 .. n + 1
    BY <1>3
  <2>2. l # s
    BY <1>6, <1>8, <2>1 DEF NoneFrom
  <2>3. NoneFrom(l, 1, n)'
    BY <2>1 DEF NoneFrom
  <2>4. 1 \in Nat /\ 1 >= 1 /\ n <= n
    BY <1>3
  <2>5. NoneFrom(l, 1, n) /\ Taken(l, t)
    BY <1>3, <1>11, <1>12, <2>3, <2>4
  <2>6. QED
    BY <1>3, <1>1, <1>10, <2>2, <2>5 DEF TakenBehindClock
<1>17. \A l \in Sensors : CutInTurn(points_clouds_'[l], frame_'[l], previous'[l])
  BY <1>1, <1>2
<1>18. QED
  BY <1>7, <1>13, <1>14, <1>15, <1>16, <1>17 DEF SyncedInv

(* What processing the oldest packet, of lidar s and time T, does. *)
OldestProcessed(s, T, longer) ==
  /\ s \in Sensors /\ T \in Times /\ raw_packet_queue_ # <<>>
  /\ raw_packet_queue_' = Tail(raw_packet_queue_)
  /\ UNCHANGED <<clock, heard, lost, is_timestamp_sync_>>
  /\ longer \in Seq(Times) /\ longer # <<>> /\ Last(longer) = T
  /\ frame_' \in [Sensors -> Seq(Times)] /\ points_clouds_' \in [Sensors -> Seq(Times)]
  /\ previous' \in [Sensors -> Times \cup {Never}]
  /\ \A l \in Sensors \ {s} : /\ points_clouds_'[l] = points_clouds_[l]
                              /\ frame_'[l] = frame_[l]
                              /\ previous'[l] = previous[l]
  /\ ~FrameEnds(longer) => /\ points_clouds_'[s] = longer /\ frame_'[s] = frame_[s]
                           /\ previous'[s] = previous[s]
  /\ FrameEnds(longer) =>
       /\ points_clouds_'[s] = <<>> /\ frame_'[s] = longer
       /\ previous'[s] = IF frame_[s] # <<>> THEN Last(frame_[s]) ELSE previous[s]

LEMMA OldestTaken ==
  ASSUME FrameTypes, is_timestamp_sync_ = TRUE, RawDataProcess,
         NEW s, s = raw_packet_queue_[1].handle,
         NEW T, T = raw_packet_queue_[1].time_stamp,
         NEW longer, longer = Append(points_clouds_[s], T)
  PROVE  OldestProcessed(s, T, longer)
<1> DEFINE packet == Head(raw_packet_queue_)
           clouds == PointCloudProcess(packet)
<1>1. /\ raw_packet_queue_ # <<>> /\ raw_packet_queue_' = Tail(raw_packet_queue_)
      /\ UNCHANGED <<clock, heard, lost, is_timestamp_sync_>>
      /\ CheckTimerSynced(packet.handle, clouds)
  BY DEF RawDataProcess
<1>2. Len(raw_packet_queue_) \in Nat /\ 1 \in 1 .. Len(raw_packet_queue_)
  <2>1. Len(raw_packet_queue_) \in Nat
    BY QueueTypes
  <2>2. \E S : raw_packet_queue_ \in Seq(S)
    BY DEF FrameTypes
  <2>3. QED
    BY <1>1, <2>1, <2>2
<1>3. s \in Sensors /\ T \in Times
  BY <1>2, QueueTypes
<1>4. packet = raw_packet_queue_[1]
  BY <1>1 DEF FrameTypes
<1>5. /\ points_clouds_ \in [Sensors -> Seq(Times)] /\ frame_ \in [Sensors -> Seq(Times)]
      /\ previous \in [Sensors -> Times \cup {Never}]
  BY DEF FrameTypes
<1>6. longer \in Seq(Times) /\ longer # <<>> /\ Last(longer) = T
  <2>1. points_clouds_[s] \in Seq(Times)
    BY <1>3, <1>5
  <2>2. QED
    BY <1>3, <2>1, AppendTime
<1>7. /\ clouds \in [Sensors -> Seq(Times)] /\ clouds[s] = longer
      /\ \A l \in Sensors \ {s} : clouds[l] = points_clouds_[l]
  BY <1>3, <1>4, <1>5, <1>6 DEF PointCloudProcess
<1>8. packet.handle = s
  BY <1>4
<1> HIDE DEF clouds, packet
<1>9. CASE ~FrameEnds(longer)
  <2>1. Collect(clouds)
    BY <1>1, <1>7, <1>8, <1>9 DEF CheckTimerSynced
  <2>2. points_clouds_' = clouds /\ frame_' = frame_ /\ previous' = previous
    BY <2>1 DEF Collect
  <2>3. QED
    BY <1>1, <1>3, <1>5, <1>6, <1>7, <1>9, <2>2 DEF OldestProcessed
<1>10. CASE FrameEnds(longer)
  <2>1. PublishPointCloud({s}, clouds)
    BY <1>1, <1>7, <1>8, <1>10 DEF CheckTimerSynced
  <2>2. /\ points_clouds_' = [l \in Sensors |-> IF l \in {s} THEN <<>> ELSE clouds[l]]
        /\ frame_' = [l \in Sensors |-> IF l \in {s} THEN clouds[l] ELSE frame_[l]]
        /\ previous' = [l \in Sensors |-> IF l \in {s} /\ frame_[l] # <<>>
                                          THEN Last(frame_[l]) ELSE previous[l]]
    BY <2>1 DEF PublishPointCloud, TakeClouds
  <2>3. /\ points_clouds_' \in [Sensors -> Seq(Times)]
        /\ \A l \in Sensors \ {s} : points_clouds_'[l] = points_clouds_[l]
        /\ points_clouds_'[s] = <<>>
    <3>1. <<>> \in Seq(Times)
      OBVIOUS
    <3>2. QED
      BY <1>3, <1>7, <2>2, <3>1
  <2>4. /\ frame_' \in [Sensors -> Seq(Times)]
        /\ \A l \in Sensors \ {s} : frame_'[l] = frame_[l]
        /\ frame_'[s] = longer
    BY <1>3, <1>5, <1>7, <2>2
  <2>5. /\ \A l \in Sensors \ {s} : previous'[l] = previous[l]
        /\ previous'[s] = IF frame_[s] # <<>> THEN Last(frame_[s]) ELSE previous[s]
    BY <1>3, <2>2
  <2>6. previous' \in [Sensors -> Times \cup {Never}]
    <3>1. \A l \in Sensors : frame_[l] # <<>> => Last(frame_[l]) \in Times
      <4> SUFFICES ASSUME NEW l \in Sensors, frame_[l] # <<>> PROVE Last(frame_[l]) \in Times
        OBVIOUS
      <4>1. frame_[l] \in Seq(Times)
        BY <1>5
      <4>2. Len(frame_[l]) \in 1 .. Len(frame_[l])
        BY <4>1
      <4>3. QED
        BY <4>1, <4>2 DEF Last
    <3>2. QED
      BY <1>5, <2>2, <3>1
  <2>7. QED
    BY <1>1, <1>3, <1>6, <1>10, <2>3, <2>4, <2>5, <2>6 DEF OldestProcessed
<1>11. QED
  BY <1>9, <1>10

LEMMA ProcessKeeps ==
  ASSUME SyncedInv, RawDataProcess
  PROVE  SyncedInv'
<1> DEFINE Q == raw_packet_queue_
<1>1. /\ FrameTypes /\ QueueInTurn /\ QueueFollowsTaken /\ QueueBehindClock
      /\ TakenBehindClock
      /\ \A l \in Sensors : CutInTurn(points_clouds_[l], frame_[l], previous[l])
  BY DEF SyncedInv
<1>2. PICK n \in Nat : /\ n = Len(Q)
                       /\ \A i \in 1 .. n : Q[i].handle \in Sensors /\ Q[i].time_stamp \in Times
  BY <1>1, QueueTypes
<1>3. is_timestamp_sync_ = TRUE
  BY <1>1 DEF FrameTypes, RawDataProcess
<1>4. PICK s, T, longer : /\ s = Q[1].handle /\ T = Q[1].time_stamp
                          /\ longer = Append(points_clouds_[s], T)
  OBVIOUS
<1>5. /\ s \in Sensors /\ T \in Times /\ Q # <<>>
      /\ Q' = Tail(Q)
      /\ UNCHANGED <<clock, heard, lost, is_timestamp_sync_>>
      /\ longer \in Seq(Times) /\ longer # <<>> /\ Last(longer) = T
      /\ frame_' \in [Sensors -> Seq(Times)] /\ points_clouds_' \in [Sensors -> Seq(Times)]
      /\ previous' \in [Sensors -> Times \cup {Never}]
      /\ \A l \in Sensors \ {s} : /\ points_clouds_'[l] = points_clouds_[l]
                                  /\ frame_'[l] = frame_[l]
                                  /\ previous'[l] = previous[l]
      /\ ~FrameEnds(longer) => /\ points_clouds_'[s] = longer /\ frame_'[s] = frame_[s]
                               /\ previous'[s] = previous[s]
      /\ FrameEnds(longer) =>
           /\ points_clouds_'[s] = <<>> /\ frame_'[s] = longer
           /\ previous'[s] = IF frame_[s] # <<>> THEN Last(frame_[s]) ELSE previous[s]
  <2>1. OldestProcessed(s, T, longer)
    BY <1>1, <1>3, <1>4, OldestTaken
  <2>2. QED
    BY <2>1 DEF OldestProcessed
<1>6. Q \in Seq([handle : Sensors, time_stamp : Times])
  BY <1>1 DEF FrameTypes
<1>7. /\ n >= 1 /\ Len(Q') = n - 1
      /\ \A i \in 1 .. n - 1 : Q'[i] = Q[i + 1]
      /\ Q' \in Seq([handle : Sensors, time_stamp : Times])
  BY <1>2, <1>5, <1>6
<1>8. FrameTypes'
  <2>1. is_timestamp_sync_' = TRUE
    BY <1>3, <1>5
  <2>2. QED
    BY <1>1, <1>5, <1>7, <2>1 DEF FrameTypes
<1>9. \A t : Taken(s, t)' => t = T
  BY <1>5 DEF Taken
<1>10. ASSUME NEW l \in Sensors \ {s}, NEW t PROVE Taken(l, t)' <=> Taken(l, t)
  BY <1>5 DEF Taken
<1>11. ASSUME NEW l, NEW t PROVE Behind(l, t)' <=> Behind(l, t)
  BY <1>5 DEF Behind
<1>12. ASSUME NEW l, NEW i \in Nat, i >= 1, NEW j \in Int, j <= n - 1
       PROVE  NoneFrom(l, i, j)' <=> NoneFrom(l, i + 1, j + 1)
  <2>1. ASSUME NoneFrom(l, i + 1, j + 1), NEW k \in i .. j
        PROVE  Q'[k].handle # l
    <3>1. k \in 1 .. n - 1 /\ k + 1 \in i + 1 .. j + 1
      BY <1>12
    <3>2. QED
      BY <1>7, <2>1, <3>1 DEF NoneFrom
  <2>2. ASSUME NoneFrom(l, i, j)', NEW k \in i + 1 .. j + 1
        PROVE  Q[k].handle # l
    <3> DEFINE m == k - 1
    <3>1. m \in 1 .. n - 1 /\ m \in i .. j /\ m + 1 = k
      BY <1>12
    <3> HIDE DEF m
    <3>2. Q'[m].handle # l
      BY <2>2, <3>1 DEF NoneFrom
    <3>3. QED
      BY <1>7, <3>1, <3>2
  <2>3. QED
    BY <2>1, <2>2 DEF NoneFrom
<1>13. QueueInTurn'
  <2> SUFFICES ASSUME NEW i \in 1 .. n - 1, NEW j \in 1 .. n - 1, i < j,
                      NEW l, l = Q'[j].handle, Q'[i].handle = l,
                      NoneFrom(l, i + 1, j - 1)'
               PROVE  Follows(Q'[i].time_stamp, Q'[j].time_stamp)
    BY <1>7 DEF QueueInTurn
  <2>1. /\ i + 1 \in Nat /\ i + 1 >= 1 /\ j - 1 \in Int /\ j - 1 <= n - 1
        /\ (j - 1) + 1 = (j + 1) - 1
        /\ i + 1 \in 1 .. n /\ j + 1 \in 1 .. n /\ i + 1 < j + 1
    BY <1>2
  <2>2. NoneFrom(l, (i + 1) + 1, (j + 1) - 1)
    BY <1>12, <2>1
  <2>3. Q'[i] = Q[i + 1] /\ Q'[j] = Q[j + 1]
    BY <1>7
  <2>4. Follows(Q[i + 1].time_stamp, Q[j + 1].time_stamp)
    BY <1>1, <1>2, <2>1, <2>2, <2>3 DEF QueueInTurn
  <2>5. QED
    BY <2>3, <2>4
<1>14. QueueFollowsTaken'
  <2> SUFFICES ASSUME NEW j \in 1 .. n - 1, NEW l, l = Q'[j].handle,
                      NoneFrom(l, 1, j - 1)', NEW t \in Times, Taken(l, t)'
               PROVE  Follows(t, Q'[j].time_stamp)
    BY <1>7 DEF QueueFollowsTaken
  <2>1. /\ 1 \in Nat /\ 1 >= 1 /\ j - 1 \in Int /\ j - 1 <= n - 1
        /\ (j - 1) + 1 = (j + 1) - 1 /\ 1 < j + 1
        /\ 1 \in 1 .. n /\ j + 1 \in 1 .. n
    BY <1>2
  <2>2. NoneFrom(l, 1 + 1, (j + 1) - 1)
    BY <1>12, <2>1
  <2>3. Q'[j] = Q[j + 1] /\ l \in Sensors
    BY <1>2, <1>7, <2>1
  <2>4. CASE l = s
    <3>1. t = T
      BY <1>9, <2>4
    <3>2. Q[1].handle = Q[j + 1].handle /\ Q[j + 1].handle = l
      BY <1>4, <2>3, <2>4
    <3>3. Follows(Q[1].time_stamp, Q[j + 1].time_stamp)
      BY <1>1, <1>2, <2>1, <2>2, <3>2 DEF QueueInTurn
    <3>4. QED
      BY <1>4, <2>3, <3>1, <3>3
  <2>5. CASE l # s
    <3>1. Taken(l, t)
      BY <1>10, <2>3, <2>5
    <3>2. NoneFrom(l, 1, (j + 1) - 1)
      <4> SUFFICES ASSUME NEW k \in 1 .. (j + 1) - 1 PROVE Q[k].handle # l
        BY DEF NoneFrom
      <4>1. CASE k = 1
        BY <1>4, <2>5, <4>1
      <4>2. CASE k # 1
        <5>1. k \in 1 + 1 .. (j + 1) - 1
          BY <4>2
        <5>2. QED
          BY <2>2, <5>1 DEF NoneFrom
      <4>3. QED
        BY <4>1, <4>2
    <3>3. Follows(t, Q[j + 1].time_stamp)
      BY <1>1, <1>2, <2>1, <2>3, <3>1, <3>2 DEF QueueFollowsTaken
    <3>4. QED
      BY <2>3, <3>3
  <2>6. QED
    BY <2>4, <2>5
<1>15. QueueBehindClock'
  <2> SUFFICES ASSUME NEW i \in 1 .. n - 1, NEW l, l = Q'[i].handle,
                      NEW t, t = Q'[i].time_stamp, NoneFrom(l, i + 1, n - 1)'
               PROVE  Behind(l, t)'
    BY <1>7 DEF QueueBehindClock, Behind, NoneFrom
  <2>1. /\ i + 1 \in Nat /\ i + 1 >= 1 /\ n - 1 \in Int /\ n - 1 <= n - 1
        /\ (n - 1) + 1 = n /\ i + 1 \in 1 .. n
    BY <1>2
  <2>2. NoneFrom(l, (i + 1) + 1, n)
    BY <1>12, <2>1
  <2>3. Q'[i] = Q[i + 1]
    BY <1>7
  <2>4. Behind(l, t)
    BY <1>1, <1>2, <2>1, <2>2, <2>3 DEF QueueBehindClock
  <2>5. QED
    BY <1>11, <2>4
<1>16. TakenBehindClock'
  <2> SUFFICES ASSUME NEW l \in Sensors, NoneFrom(l, 1, n - 1)',
                      NEW t \in Times, Taken(l, t)'
               PROVE  Behind(l, t)'
    BY <1>7 DEF TakenBehindClock
  <2>1. /\ 1 \in Nat /\ 1 >= 1 /\ n - 1 \in Int /\ n - 1 <= n - 1
        /\ (n - 1) + 1 = n /\ 1 \in 1 .. n
    BY <1>2, <1>7
  <2>2. NoneFrom(l, 1 + 1, n)
    BY <1>12, <2>1
  <2>3. CASE l = s
    <3>1. t = T
      BY <1>9, <2>3
    <3>2. Behind(l, Q[1].time_stamp)
      BY <1>1, <1>2, <1>4, <2>1, <2>2, <2>3 DEF QueueBehindClock
    <3>3. QED
      BY <1>4, <1>11, <3>1, <3>2
  <2>4. CASE l # s
    <3>1. Taken(l, t)
      BY <1>10, <2>4
    <3>2. NoneFrom(l, 1, n)
      <4> SUFFICES ASSUME NEW k \in 1 .. n PROVE Q[k].handle # l
        BY DEF NoneFrom
      <4>1. CASE k = 1
        BY <1>4, <2>4, <4>1
      <4>2. CASE k # 1
        <5>1. k \in 1 + 1 .. n
          BY <1>2, <4>2
        <5>2. QED
          BY <2>2, <5>1 DEF NoneFrom
      <4>3. QED
        BY <4>1, <4>2
    <3>3. Behind(l, t)
      BY <1>1, <1>2, <3>1, <3>2 DEF TakenBehindClock
    <3>4. QED
      BY <1>11, <3>3
  <2>5. QED
    BY <2>3, <2>4
<1>17. \A t \in Times : Taken(s, t) => Follows(t, T)
  <2>1. 1 \in 1 .. n /\ NoneFrom(s, 1, 1 - 1)
    BY <1>2, <1>7 DEF NoneFrom
  <2>2. QED
    BY <1>1, <1>2, <1>4, <2>1 DEF QueueFollowsTaken
<1>18. CutInTurn(points_clouds_'[s], frame_'[s], previous'[s])
  <2>1. CutInTurn(points_clouds_[s], frame_[s], previous[s])
    BY <1>1, <1>5
  <2>2. ASSUME NEW x \in Seq(Times), x # <<>> PROVE Last(x) \in Times
    <3>1. Len(x) \in 1 .. Len(x)
      BY <2>2
    <3>2. QED
      BY <3>1 DEF Last
  <2>3. points_clouds_[s] # <<>> => Follows(Last(points_clouds_[s]), T)
    <3> SUFFICES ASSUME points_clouds_[s] # <<>> PROVE Follows(Last(points_clouds_[s]), T)
      OBVIOUS
    <3>1. Taken(s, Last(points_clouds_[s]))
      BY DEF Taken
    <3>2. Last(points_clouds_[s]) \in Times
      BY <2>1, <2>2 DEF CutInTurn
    <3>3. QED
      BY <1>17, <3>1, <3>2
  <2>4. points_clouds_[s] = <<>> /\ frame_[s] # <<>> => Follows(Last(frame_[s]), T)
    <3> SUFFICES ASSUME points_clouds_[s] = <<>>, frame_[s] # <<>>
                 PROVE  Follows(Last(frame_[s]), T)
      OBVIOUS
    <3>1. Taken(s, Last(frame_[s]))
      BY DEF Taken
    <3>2. Last(frame_[s]) \in Times
      BY <2>1, <2>2 DEF CutInTurn
    <3>3. QED
      BY <1>17, <3>1, <3>2
  <2>5. /\ ~FrameEnds(longer) => CutInTurn(longer, frame_[s], previous[s])
        /\ FrameEnds(longer) =>
             CutInTurn(<<>>, longer, IF frame_[s] # <<>> THEN Last(frame_[s]) ELSE previous[s])
    <3>1. CollectedInTurn(longer, frame_[s], previous[s])
      BY <1>4, <1>5, <2>1, <2>3, <2>4, PacketCollected
    <3>2. QED
      BY <3>1 DEF CollectedInTurn
  <2>6. CASE FrameEnds(longer)
    BY <1>5, <2>5, <2>6
  <2>7. CASE ~FrameEnds(longer)
    BY <1>5, <2>5, <2>7
  <2>8. QED
    BY <2>6, <2>7
<1>19. \A l \in Sensors : CutInTurn(points_clouds_'[l], frame_'[l], previous'[l])
  BY <1>1, <1>5, <1>18
<1>20. QED
  BY <1>8, <1>13, <1>14, <1>15, <1>16, <1>19 DEF SyncedInv

-----------------------------------------------------------------------------
(* The invariant. *)

LEMMA FramesBegin == PubInit => FramesInv
<1> SUFFICES ASSUME PubInit PROVE FramesInv
  OBVIOUS
<1>1. synced \in {Sensors, {}}
  BY DEF PubInit
<1>2. NoClouds \in [Sensors -> Seq(Times)] /\ \A l \in Sensors : NoClouds[l] = <<>>
  BY DEF NoClouds
<1>3. raw_packet_queue_ \in Seq([handle : Sensors, time_stamp : Times])
      /\ raw_packet_queue_ = <<>> /\ Len(raw_packet_queue_) = 0
  BY DEF PubInit
<1>4. FrameTypes
  BY <1>2, <1>3, PubNumbers DEF PubInit, FrameTypes, Times
<1>5. \A l \in Sensors : CutInTurn(points_clouds_[l], frame_[l], previous[l])
  <2> SUFFICES ASSUME NEW l \in Sensors
               PROVE  CutInTurn(points_clouds_[l], frame_[l], previous[l])
    OBVIOUS
  <2>1. points_clouds_[l] = <<>> /\ frame_[l] = <<>> /\ previous[l] = Never
    BY <1>2 DEF PubInit
  <2>2. <<>> \in Seq(Times) /\ Len(<<>>) = 0
    OBVIOUS
  <2>3. QED
    BY <2>1, <2>2 DEF CutInTurn, InTurn, Unended
<1>6. QueueInTurn /\ QueueFollowsTaken /\ QueueBehindClock
  BY <1>3 DEF QueueInTurn, QueueFollowsTaken, QueueBehindClock
<1>7. TakenBehindClock
  BY <1>2 DEF TakenBehindClock, Taken, PubInit
<1>8. QED
  BY <1>1, <1>4, <1>5, <1>6, <1>7 DEF FramesInv, SyncedInv

LEMMA FramesStep ==
  ASSUME FramesInv, [PubNext]_pubVars
  PROVE  FramesInv'
<1>1. synced' = synced
  BY DEF PubNext, Tick, PacketLost, OnLivoxLidarPointCloudCallback, ImuData, PointData, Sends,
         RawDataProcess, Uninit, LeaveLoop, sensorVars, pubVars
<1>2. CASE synced # Sensors
  BY <1>1, <1>2 DEF FramesInv
<1>3. ASSUME synced = Sensors PROVE SyncedInv'
  <2>1. SyncedInv /\ FrameTypes
    BY <1>3 DEF FramesInv, SyncedInv
  <2>2. CASE Tick
    <3>1. /\ heard = Sensors /\ heard' = {} /\ lost' = lost
          /\ UNCHANGED <<raw_packet_queue_, points_clouds_, frame_, previous,
                         is_timestamp_sync_>>
          /\ clock' = IF Sensors = {} THEN clock ELSE Later(clock)
      BY <1>3, <2>2 DEF Tick, publishVars
    <3>2. clock' \in Times
      <4>1. clock + 1 \in Int /\ clock \in Times
        BY <2>1, PubNumbers DEF FrameTypes, Times
      <4>2. QED
        BY <3>1, <4>1, TimeTypes DEF Later
    <3>3. FrameTypes'
      BY <2>1, <3>1, <3>2 DEF FrameTypes
    <3>4. \A l \in Sensors, t \in Times : Behind(l, t) => Behind(l, t)'
      BY <2>1, <3>1, TickBehind
    <3>5. QED
      BY <2>1, <3>1, <3>3, <3>4, PacketsStay
  <2>3. ASSUME NEW s \in Sensors, PacketLost(s) PROVE SyncedInv'
    <3>1. /\ s \notin heard /\ heard' = heard \cup {s} /\ clock' = clock
          /\ lost < MaxLost /\ lost' = lost + 1
          /\ UNCHANGED <<raw_packet_queue_, points_clouds_, frame_, previous,
                         is_timestamp_sync_>>
      BY <2>3 DEF PacketLost, Sends, publishVars
    <3>2. lost' \in 0 .. MaxLost
      BY <2>1, <3>1, PubNumbers DEF FrameTypes
    <3>3. FrameTypes'
      BY <2>1, <3>1, <3>2 DEF FrameTypes
    <3>4. \A l \in Sensors, t \in Times : Behind(l, t) => Behind(l, t)'
      BY <2>1, <3>1, LossBehind
    <3>5. QED
      BY <2>1, <3>1, <3>3, <3>4, PacketsStay
  <2>4. ASSUME NEW s \in Sensors, ImuData(s) PROVE SyncedInv'
    <3>1. /\ UNCHANGED <<heard, clock, lost, raw_packet_queue_, points_clouds_, frame_, previous>>
          /\ is_timestamp_sync_' = TRUE
      BY <1>3, <2>4 DEF ImuData, sensorVars, publishVars
    <3>2. FrameTypes'
      BY <2>1, <3>1 DEF FrameTypes
    <3>3. \A l \in Sensors, t \in Times : Behind(l, t) => Behind(l, t)'
      BY <3>1 DEF Behind
    <3>4. QED
      BY <2>1, <3>1, <3>2, <3>3, PacketsStay
  <2>5. ASSUME NEW s \in Sensors, PointData(s) PROVE SyncedInv'
    BY <1>3, <2>1, <2>5, PointDataKeeps
  <2>6. CASE RawDataProcess
    BY <2>1, <2>6, ProcessKeeps
  <2>7. CASE Uninit \/ LeaveLoop \/ UNCHANGED pubVars
    <3>1. UNCHANGED <<heard, clock, lost, raw_packet_queue_, points_clouds_, frame_, previous,
                      is_timestamp_sync_>>
      BY <2>7 DEF Uninit, LeaveLoop, pubVars, sensorVars, publishVars
    <3>2. FrameTypes'
      BY <2>1, <3>1 DEF FrameTypes
    <3>3. \A l \in Sensors, t \in Times : Behind(l, t) => Behind(l, t)'
      BY <3>1 DEF Behind
    <3>4. QED
      BY <2>1, <3>1, <3>2, <3>3, PacketsStay
  <2>8. QED
    BY <2>2, <2>3, <2>4, <2>5, <2>6, <2>7 DEF PubNext, OnLivoxLidarPointCloudCallback
<1>4. QED
  BY <1>1, <1>2, <1>3 DEF FramesInv

(* Synchronised lidars' packets are in turn wherever they are, in the      *)
(* queue, the frame to come and the frames sent on, and each frame was cut *)
(* as soon as it could be (RawDataProcess, CheckTimer).                    *)
THEOREM FramesInvariant == PubSpec => []FramesInv
<1>1. PubInit => FramesInv
  BY FramesBegin
<1>2. FramesInv /\ [PubNext]_pubVars => FramesInv'
  BY FramesStep
<1>3. QED
  BY <1>1, <1>2, PTL DEF PubSpec

(* No packet of a synchronised lidar is sent on twice or out of order, and *)
(* a frame without a gap spans one interval and no more, for any interval, *)
(* tick and number of lidars (CheckTimer, GetLidarPointClouds).            *)
THEOREM FramesAreOnTime == PubSpec => []FramesOnTime
<1>1. FramesInv => FramesOnTime
  <2> SUFFICES ASSUME FramesInv, synced = Sensors, NEW l \in Sensors, previous[l] # Never,
                      NEW stream, stream = <<previous[l]>> \o frame_[l]
               PROVE  /\ \A i \in 1 .. Len(stream) - 1 : Follows(stream[i], stream[i + 1])
                      /\ (\A i \in 1 .. Len(stream) - 1 : stream[i + 1] = Later(stream[i]))
                           => Span(frame_[l]) <= Interval
    BY DEF FramesOnTime
  <2>1. CutInTurn(points_clouds_[l], frame_[l], previous[l])
    BY DEF FramesInv, SyncedInv
  <2>2. QED
    BY <2>1, CutOnTime
<1>2. QED
  BY <1>1, FramesInvariant, PTL

-----------------------------------------------------------------------------
(***************************************************************************)
(* CloudMessages. What the file says of a lidar is what its last entry     *)
(* says: from the devices and parameters that are made of the entries to   *)
(* the points that are published.                                          *)
(***************************************************************************)
Keyed == [key : Nat, handle : Nat, config : Configs \cup {Missing}]

\* Each handle has one index, and an index is found by its handle.
KeysDiffer(devices) == \A i, j \in 1 .. Len(devices) : devices[i].key = devices[j].key => i = j

\* IndexOf is the place of the handle, or 0.
LEMMA IndexIs ==
  ASSUME NEW devices, Len(devices) \in Nat, NEW h
  PROVE  \/ /\ IndexOf(devices, h) = 0
            /\ \A i \in 1 .. Len(devices) : devices[i].key # h
         \/ /\ IndexOf(devices, h) \in 1 .. Len(devices)
            /\ devices[IndexOf(devices, h)].key = h
<1> DEFINE I == {i \in 1 .. Len(devices) : devices[i].key = h}
<1>1. IndexOf(devices, h) = IF I # {} THEN Min(I) ELSE 0
  BY DEF IndexOf, SelectInSeq
<1>2. CASE I = {}
  BY <1>1, <1>2
<1>3. CASE I # {}
  <2>1. I \subseteq Nat /\ \A i \in I : i \in 1 .. Len(devices) /\ devices[i].key = h
    OBVIOUS
  <2> HIDE DEF I
  <2>2. \E x \in I : \A y \in I : x <= y
    BY <1>3, <2>1, LeastNumber
  <2>3. PICK m : m = Min(I)
    OBVIOUS
  <2>4. m \in I
    BY <2>2, <2>3 DEF Min
  <2>5. QED
    BY <1>1, <1>3, <2>1, <2>3, <2>4
<1>4. QED
  BY <1>2, <1>3

LEMMA IndexOfKey ==
  ASSUME NEW devices, Len(devices) \in Nat, KeysDiffer(devices),
         NEW i \in 1 .. Len(devices), NEW h, devices[i].key = h
  PROVE  IndexOf(devices, h) = i
<1>1. IndexOf(devices, h) \in 1 .. Len(devices) /\ devices[IndexOf(devices, h)].key = h
  BY IndexIs
<1>2. QED
  BY <1>1 DEF KeysDiffer

\* The entries up to k for a handle, and the last of them.
Entries(P, k, h) == {j \in 1 .. k : P[j].handle = h}
IsLastEntry(P, k, h, c) ==
  \E e \in Entries(P, k, h) : c = P[e] /\ \A j \in Entries(P, k, h) : j <= e

(* The devices after the first k entries: each with its last entry, and    *)
(* none left out but for want of room.                                     *)
DevicesOf(P, k, devices) ==
  /\ devices \in Seq(Keyed) /\ KeysDiffer(devices)
  /\ \A i \in 1 .. Len(devices) :
       /\ devices[i].handle = devices[i].key
       /\ IsLastEntry(P, k, devices[i].key, devices[i].config)
  /\ \A j \in 1 .. k : \/ \E i \in 1 .. Len(devices) : devices[i].key = P[j].handle
                       \/ Len(devices) >= kMaxDevices

LEMMA DeviceIsKeyed ==
  ASSUME NEW c \in Configs
  PROVE  [key |-> c.handle, handle |-> c.handle, config |-> c] \in Keyed
  BY DEF Configs, Keyed

\* AddDevice keeps the list well-formed.
LEMMA AddDeviceType ==
  ASSUME NEW devices \in Seq(Keyed), NEW c \in Configs
  PROVE  AddDevice(devices, c) \in Seq(Keyed)
<1>1. PICK device : device = [key |-> c.handle, handle |-> c.handle, config |-> c]
  OBVIOUS
<1>2. device \in Keyed
  BY <1>1, DeviceIsKeyed
<1>3. PICK i : i = IndexOf(devices, c.handle)
  OBVIOUS
<1>4. Len(devices) \in Nat
  OBVIOUS
<1>5. i = 0 \/ i \in 1 .. Len(devices)
  BY <1>3, <1>4, IndexIs
<1>6. Append(devices, device) \in Seq(Keyed) /\ (i # 0 => [devices EXCEPT ![i] = device] \in Seq(Keyed))
  <2>1. Append(devices, device) \in Seq(Keyed)
    BY <1>2
  <2>2. i # 0 => [devices EXCEPT ![i] = device] \in Seq(Keyed)
    BY <1>2, <1>5, ExceptSeq
  <2>3. QED
    BY <2>1, <2>2
<1>7. QED
  BY <1>1, <1>3, <1>6 DEF AddDevice

\* AddDevice of entry k: the device of its lidar, and no other, takes it.
LEMMA AddDeviceStep ==
  ASSUME NEW P \in Seq(Configs), NEW k \in 1 .. Len(P), NEW devices,
         DevicesOf(P, k - 1, devices)
  PROVE  DevicesOf(P, k, AddDevice(devices, P[k]))
<1>1. PICK h : h = P[k].handle
  OBVIOUS
<1>2. PICK device : device = [key |-> h, handle |-> h, config |-> P[k]]
  OBVIOUS
<1>3. PICK n : n = Len(devices)
  OBVIOUS
<1>4. P[k] \in Configs /\ h \in Nat /\ device \in Keyed /\ k \in Nat \ {0}
  <2>1. P[k] \in Configs /\ k \in Nat \ {0}
    OBVIOUS
  <2>2. QED
    BY <1>1, <1>2, <2>1, DeviceIsKeyed DEF Configs
<1>5. devices \in Seq(Keyed) /\ n \in Nat /\ KeysDiffer(devices)
  BY <1>3 DEF DevicesOf
<1>6. PICK i : i = IndexOf(devices, h)
  OBVIOUS
<1>7. \/ i = 0 /\ \A l \in 1 .. n : devices[l].key # h
      \/ i \in 1 .. n /\ devices[i].key = h
  BY <1>3, <1>5, <1>6, IndexIs
<1>8. PICK new : new = AddDevice(devices, P[k])
  OBVIOUS
<1>9. new = IF i # 0 THEN [devices EXCEPT ![i] = device]
            ELSE IF n < kMaxDevices THEN Append(devices, device) ELSE devices
  BY <1>1, <1>2, <1>3, <1>6, <1>8 DEF AddDevice
<1>10. new \in Seq(Keyed)
  BY <1>4, <1>5, <1>8, AddDeviceType
(* For another handle entry k changes nothing; for h it is the last.       *)
<1>11. IsLastEntry(P, k, h, P[k])
  BY <1>1, <1>4 DEF IsLastEntry, Entries
<1>12. \A g, c : g # h /\ IsLastEntry(P, k - 1, g, c) => IsLastEntry(P, k, g, c)
  <2> SUFFICES ASSUME NEW g, g # h
               PROVE  Entries(P, k - 1, g) = Entries(P, k, g)
    BY DEF IsLastEntry
  <2>1. \A j \in 1 .. k : j \in 1 .. k - 1 \/ j = k
    BY <1>4
  <2>2. \A j \in 1 .. k - 1 : j \in 1 .. k
    BY <1>4
  <2>3. QED
    BY <1>1, <2>1, <2>2 DEF Entries
<1>13. \A l \in 1 .. n : /\ devices[l].handle = devices[l].key
                         /\ IsLastEntry(P, k - 1, devices[l].key, devices[l].config)
  BY <1>3 DEF DevicesOf
<1>14. \A j \in 1 .. k - 1 : \/ \E l \in 1 .. n : devices[l].key = P[j].handle
                             \/ n >= kMaxDevices
  BY <1>3 DEF DevicesOf
<1>15. \A j \in 1 .. k : j \in 1 .. k - 1 \/ j = k
  BY <1>4
<1>16. CASE i # 0
  <2>1. i \in 1 .. n /\ devices[i].key = h
    BY <1>7, <1>16
  <2>2. /\ Len(new) = n /\ new[i] = device
        /\ \A l \in 1 .. n : l # i => new[l] = devices[l]
    BY <1>3, <1>5, <1>9, <1>16, <2>1
  <2>3. \A l \in 1 .. n : new[l].key = devices[l].key /\ (l # i => devices[l].key # h)
    BY <1>2, <1>3, <1>5, <2>1, <2>2 DEF KeysDiffer
  <2>4. KeysDiffer(new)
    BY <1>3, <1>5, <2>2, <2>3 DEF KeysDiffer
  <2>5. ASSUME NEW l \in 1 .. n
        PROVE  new[l].handle = new[l].key /\ IsLastEntry(P, k, new[l].key, new[l].config)
    <3>1. CASE l = i
      BY <1>2, <1>11, <2>2, <3>1
    <3>2. CASE l # i
      BY <1>12, <1>13, <2>2, <2>3, <3>2
    <3>3. QED
      BY <3>1, <3>2
  <2>6. ASSUME NEW j \in 1 .. k
        PROVE  (\E l \in 1 .. n : new[l].key = P[j].handle) \/ n >= kMaxDevices
    BY <1>1, <1>14, <1>15, <2>1, <2>3
  <2>7. DevicesOf(P, k, new)
    BY <1>10, <2>2, <2>4, <2>5, <2>6 DEF DevicesOf
  <2>8. QED
    BY <1>8, <2>7
<1>17. CASE i = 0 /\ n < kMaxDevices
  <2>1. \A l \in 1 .. n : devices[l].key # h
    BY <1>7, <1>17
  <2>2. /\ Len(new) = n + 1 /\ new[n + 1] = device
        /\ \A l \in 1 .. n : new[l] = devices[l]
    BY <1>3, <1>5, <1>9, <1>17
  <2>3. \A l \in 1 .. n + 1 : l \in 1 .. n \/ l = n + 1
    BY <1>5
  <2>4. device.key = h /\ device.handle = h /\ device.config = P[k]
    BY <1>2
  <2>5. KeysDiffer(new)
    BY <1>3, <1>5, <2>1, <2>2, <2>3, <2>4 DEF KeysDiffer
  <2>6. ASSUME NEW l \in 1 .. n + 1
        PROVE  new[l].handle = new[l].key /\ IsLastEntry(P, k, new[l].key, new[l].config)
    <3>1. CASE l = n + 1
      BY <1>11, <2>2, <2>4, <3>1
    <3>2. CASE l \in 1 .. n
      BY <1>12, <1>13, <2>1, <2>2, <3>2
    <3>3. QED
      BY <2>3, <3>1, <3>2
  <2>7. ASSUME NEW j \in 1 .. k
        PROVE  (\E l \in 1 .. n + 1 : new[l].key = P[j].handle) \/ n + 1 >= kMaxDevices
    <3>1. \A l \in 1 .. n : l \in 1 .. n + 1
      BY <1>5
    <3>2. n + 1 \in 1 .. n + 1
      BY <1>5
    <3>3. n >= kMaxDevices => n + 1 >= kMaxDevices
      BY <1>5, CloudAssumption
    <3>4. QED
      BY <1>1, <1>14, <1>15, <2>2, <2>4, <3>1, <3>2, <3>3
  <2>8. DevicesOf(P, k, new)
    BY <1>10, <2>2, <2>5, <2>6, <2>7 DEF DevicesOf
  <2>9. QED
    BY <1>8, <2>8
<1>18. CASE i = 0 /\ ~ (n < kMaxDevices)
  <2>1. \A l \in 1 .. n : devices[l].key # h
    BY <1>7, <1>18
  <2>2. new = devices
    BY <1>9, <1>18
  <2>3. n >= kMaxDevices
    BY <1>5, <1>18, CloudAssumption
  <2>4. \A l \in 1 .. n : /\ devices[l].handle = devices[l].key
                          /\ IsLastEntry(P, k, devices[l].key, devices[l].config)
    BY <1>12, <1>13, <2>1
  <2>5. DevicesOf(P, k, new)
    BY <1>3, <1>5, <2>2, <2>3, <2>4 DEF DevicesOf
  <2>6. QED
    BY <1>8, <2>5
<1>19. QED
  BY <1>16, <1>17, <1>18

AddsDevices(g, P) ==
  g = [t \in SUBSET DOMAIN P |->
         IF t = {} THEN <<>> ELSE AddDevice(g[t \ {Max(t)}], P[Max(t)])]

\* What FoldLeft computes is one of the functions of this kind.
LEMMA AddDeviceFold ==
  ASSUME NEW P, \E g : AddsDevices(g, P)
  PROVE  \E g : AddsDevices(g, P) /\ FoldLeft(AddDevice, <<>>, P) = g[DOMAIN P]
  BY DEF AddsDevices, FoldLeft, MapThenFoldSet

\* The devices after the whole file: induction over its entries.
LEMMA AllDevices ==
  ASSUME NEW P \in Seq(Configs)
  PROVE  DevicesOf(P, Len(P), FoldLeft(AddDevice, <<>>, P))
<1>1. PICK n : n = Len(P)
  OBVIOUS
<1>2. n \in Nat /\ DOMAIN P = 1 .. n /\ \A k \in 1 .. n : P[k] \in Configs
  BY <1>1
<1> DEFINE A == Seq(Keyed)
           F == [x \in A \X (1 .. n) |-> AddDevice(x[1], P[x[2]])]
<1>3. <<>> \in A
  OBVIOUS
<1>4. \A devices \in A, k \in 1 .. n : AddDevice(devices, P[k]) \in A
  BY <1>2, AddDeviceType
<1> HIDE DEF A
<1>5. F \in [A \X (1 .. n) -> A]
  BY <1>4
<1>6. \A devices \in A, k \in 1 .. n : F[<<devices, k>>] = AddDevice(devices, P[k])
  OBVIOUS
<1> HIDE DEF F
<1>7. PICK g0 \in [SUBSET (1 .. n) -> A] : FoldOf(g0, n, <<>>, F)
  BY <1>2, <1>3, <1>5, FoldExists
<1>8. AddsDevices(g0, P)
  <2>1. ASSUME NEW t \in SUBSET (1 .. n)
        PROVE  g0[t] = IF t = {} THEN <<>> ELSE AddDevice(g0[t \ {Max(t)}], P[Max(t)])
    <3>1. CASE t = {}
      BY <1>7, <3>1 DEF FoldOf
    <3>2. CASE t # {}
      <4>1. g0[t] = F[<<g0[t \ {Max(t)}], Max(t)>>]
        BY <1>7, <3>2 DEF FoldOf
      <4>2. Max(t) \in 1 .. n
        <5>1. t \subseteq 0 .. n
          BY <1>2
        <5>2. Max(t) \in t
          BY <1>2, <3>2, <5>1, GreatestNumber
        <5>3. QED
          BY <5>2
      <4>3. g0[t \ {Max(t)}] \in A
        OBVIOUS
      <4>4. QED
        BY <1>6, <3>2, <4>1, <4>2, <4>3
    <3>3. QED
      BY <3>1, <3>2
  <2>2. QED
    BY <1>2, <2>1 DEF AddsDevices
<1>9. PICK g : AddsDevices(g, P) /\ FoldLeft(AddDevice, <<>>, P) = g[DOMAIN P]
  BY <1>8, AddDeviceFold
<1>10. \A t \in SUBSET (1 .. n) :
         g[t] = IF t = {} THEN <<>> ELSE AddDevice(g[t \ {Max(t)}], P[Max(t)])
  BY <1>2, <1>9 DEF AddsDevices
<1> DEFINE T == {k \in 0 .. n : DevicesOf(P, k, g[1 .. k])}
<1>11. 0 \in T
  <2>1. 1 .. 0 = {} /\ {} \in SUBSET (1 .. n)
    OBVIOUS
  <2>2. g[1 .. 0] = <<>>
    BY <1>10, <2>1
  <2>3. DevicesOf(P, 0, <<>>)
    BY <2>1 DEF DevicesOf, KeysDiffer
  <2>4. QED
    BY <1>2, <2>2, <2>3
<1>12. ASSUME NEW k \in 1 .. n, k - 1 \in T
       PROVE  k \in T
  <2>1. /\ 1 .. k # {} /\ 1 .. k \in SUBSET (1 .. n)
        /\ Max(1 .. k) = k /\ (1 .. k) \ {k} = 1 .. k - 1
    BY <1>2, InitialInterval
  <2>2. g[1 .. k] = AddDevice(g[1 .. k - 1], P[k])
    BY <1>10, <2>1
  <2>3. DevicesOf(P, k - 1, g[1 .. k - 1])
    BY <1>12
  <2>4. DevicesOf(P, k, g[1 .. k])
    BY <1>1, <2>2, <2>3, AddDeviceStep
  <2>5. QED
    BY <1>2, <2>4
<1>13. \A k \in 0 .. n : k \in T
  <2> HIDE DEF T
  <2>1. \A k \in 1 .. n : k - 1 \in T => k \in T
    BY <1>12
  <2>2. QED
    BY <1>2, <1>11, <2>1, Induction
<1>14. DevicesOf(P, n, g[1 .. n])
  BY <1>2, <1>13
<1>15. QED
  BY <1>1, <1>2, <1>9, <1>14

(* A lidar of the file has the device and the parameters of its last       *)
(* entry, or no device for good; a stranger that shows up has neither      *)
(* handle nor parameters.                                                  *)
DevicesInv ==
  /\ user_file \in Files
  /\ ~ParseSummaryInfo(user_file) => lidars_ = <<>> /\ lidar_extrinsics_ = <<>>
  /\ lidars_ \in Seq(Keyed) /\ KeysDiffer(lidars_)
  /\ \A i \in 1 .. Len(lidars_) :
       Defined(lidars_[i].key) # {} =>
         /\ lidars_[i].handle = lidars_[i].key /\ lidars_[i].config = Entry(lidars_[i].key)
         /\ lidars_[i].key \in DOMAIN lidar_extrinsics_
  /\ ParseSummaryInfo(user_file) =>
       \A h : Defined(h) # {} => \/ \E i \in 1 .. Len(lidars_) : lidars_[i].key = h
                                 \/ Len(lidars_) >= kMaxDevices
  /\ \A h \in DOMAIN lidar_extrinsics_ :
       /\ Defined(h) # {} /\ lidar_extrinsics_[h] = LidarParam(Entry(h))
       /\ \E i \in 1 .. Len(lidars_) : lidars_[i].key = h

\* The last entry of a lidar is its Entry.
LEMMA LastEntryIs ==
  ASSUME NEW h, NEW c, user_file \in Files, IsLastEntry(Parse(user_file), Len(Parse(user_file)), h, c)
  PROVE  Defined(h) # {} /\ Entry(h) = c
<1>1. PICK P : P = Parse(user_file)
  OBVIOUS
<1>2. P \in Seq(Configs)
  BY <1>1, FilesAssumption
<1>3. Defined(h) = Entries(P, Len(P), h)
  BY <1>1, <1>2 DEF Defined, Entries
<1>4. PICK e \in Defined(h) : c = P[e] /\ \A j \in Defined(h) : j <= e
  BY <1>1, <1>3 DEF IsLastEntry
<1>5. \A j \in Defined(h) : j \in Nat
  BY <1>2, <1>3 DEF Entries
<1>6. PICK last : last = CHOOSE i \in Defined(h) : \A j \in Defined(h) : j <= i
  OBVIOUS
<1>7. last \in Defined(h) /\ \A j \in Defined(h) : j <= last
  BY <1>4, <1>6
<1>8. last = e
  BY <1>4, <1>5, <1>7
<1>9. QED
  BY <1>1, <1>4, <1>6, <1>8 DEF Entry

\* Reading the file makes the devices and parameters of its lidars.
LEMMA DevicesInit == CloudInit => DevicesInv
<1> SUFFICES ASSUME CloudInit PROVE DevicesInv
  OBVIOUS
<1>1. user_file \in Files /\ InitLdsLidar(user_file)
  BY DEF CloudInit, DriverNode
<1>2. CASE ~ParseSummaryInfo(user_file)
  <2>1. lidars_ = <<>> /\ lidar_extrinsics_ = <<>>
    BY <1>1, <1>2 DEF InitLdsLidar
  <2>2. 1 .. 0 = {} /\ DOMAIN <<>> = {}
    OBVIOUS
  <2>3. QED
    BY <1>1, <1>2, <2>1, <2>2 DEF DevicesInv, KeysDiffer
<1>3. CASE ParseSummaryInfo(user_file)
  <2>1. PICK P : P = Parse(user_file)
    OBVIOUS
  <2>2. P \in Seq(Configs) /\ Len(P) \in Nat
    BY <1>1, <2>1, FilesAssumption
  <2>3. /\ lidars_ = FoldLeft(AddDevice, <<>>, P)
        /\ lidar_extrinsics_ = AddLidarsExtParam(lidars_)
    BY <1>1, <1>3, <2>1 DEF InitLdsLidar, InitLivoxLidar
  <2>4. DevicesOf(P, Len(P), lidars_)
    BY <2>2, <2>3, AllDevices
  <2>5. lidars_ \in Seq(Keyed) /\ KeysDiffer(lidars_)
    BY <2>4 DEF DevicesOf
  <2>6. \A i \in 1 .. Len(lidars_) :
          /\ lidars_[i].handle = lidars_[i].key
          /\ Defined(lidars_[i].key) # {} /\ Entry(lidars_[i].key) = lidars_[i].config
    BY <1>1, <2>1, <2>4, LastEntryIs DEF DevicesOf
  <2>7. /\ \A i \in 1 .. Len(lidars_) : lidars_[i].key \in DOMAIN lidar_extrinsics_
        /\ \A h \in DOMAIN lidar_extrinsics_ : \E i \in 1 .. Len(lidars_) : lidars_[i].key = h
    BY <2>3, <2>5 DEF AddLidarsExtParam, ToSet
  <2>8. ASSUME NEW h \in DOMAIN lidar_extrinsics_
        PROVE  Defined(h) # {} /\ lidar_extrinsics_[h] = LidarParam(Entry(h))
    <3>1. PICK i \in 1 .. Len(lidars_) : lidars_[i].key = h
      BY <2>7
    <3>2. IndexOf(lidars_, h) = i
      BY <2>5, <3>1, IndexOfKey
    <3>3. lidar_extrinsics_[h] = LidarParam(lidars_[IndexOf(lidars_, h)].config)
      BY <2>3 DEF AddLidarsExtParam
    <3>4. QED
      BY <2>6, <3>1, <3>2, <3>3
  <2>9. ASSUME NEW h, Defined(h) # {}
        PROVE  \/ \E i \in 1 .. Len(lidars_) : lidars_[i].key = h
               \/ Len(lidars_) >= kMaxDevices
    <3>1. PICK j \in 1 .. Len(P) : P[j].handle = h
      BY <2>1, <2>2, <2>9 DEF Defined
    <3>2. QED
      BY <2>4, <3>1 DEF DevicesOf
  <2>10. QED
    BY <1>1, <1>3, <2>5, <2>6, <2>7, <2>8, <2>9 DEF DevicesInv
<1>4. QED
  BY <1>2, <1>3

(* Quarter turns.                                                          *)
LEMMA CosSin ==
  /\ Cos(0) = 1 /\ Sin(0) = 0 /\ Cos(1) = 0 /\ Sin(1) = 1
  /\ Cos(2) = -1 /\ Sin(2) = 0 /\ Cos(3) = 0 /\ Sin(3) = -1
  BY DEF Cos, Sin

LEMMA RotatedIs ==
  ASSUME NEW a \in Int, NEW b \in Int
  PROVE  /\ Rotated(<<a, b>>, 0) = <<a, b>> /\ Rotated(<<a, b>>, 1) = <<-b, a>>
         /\ Rotated(<<a, b>>, 2) = <<-a, -b>> /\ Rotated(<<a, b>>, 3) = <<b, -a>>
<1>1. /\ a * 1 - b * 0 = a /\ a * 0 + b * 1 = b
      /\ a * 0 - b * 1 = -b /\ a * 1 + b * 0 = a
      /\ a * (-1) - b * 0 = -a /\ a * 0 + b * (-1) = -b
      /\ a * 0 - b * (-1) = b /\ a * (-1) + b * 0 = -a
  BY SMT
<1>2. QED
  BY <1>1, CosSin DEF Rotated

LEMMA MovedIs ==
  ASSUME NEW p \in Int \X Int, NEW e \in Extrinsics
  PROVE  /\ Moved(p, e) \in Int \X Int
         /\ e.turn = 0 => Moved(p, e) = <<p[1] + e.x, p[2] + e.y>>
         /\ e.turn = 1 => Moved(p, e) = <<-p[2] + e.x, p[1] + e.y>>
         /\ e.turn = 2 => Moved(p, e) = <<-p[1] + e.x, -p[2] + e.y>>
         /\ e.turn = 3 => Moved(p, e) = <<p[2] + e.x, -p[1] + e.y>>
<1>1. PICK a, b \in Int : p = <<a, b>> /\ p[1] = a /\ p[2] = b
  OBVIOUS
<1>2. e.turn \in {0, 1, 2, 3} /\ e.x \in Int /\ e.y \in Int
  BY DEF Extrinsics
<1>3. /\ Rotated(p, 0) = <<a, b>> /\ Rotated(p, 1) = <<-b, a>>
      /\ Rotated(p, 2) = <<-a, -b>> /\ Rotated(p, 3) = <<b, -a>>
  BY <1>1, RotatedIs
<1>4. /\ e.turn = 0 => Moved(p, e) = <<a + e.x, b + e.y>>
      /\ e.turn = 1 => Moved(p, e) = <<-b + e.x, a + e.y>>
      /\ e.turn = 2 => Moved(p, e) = <<-a + e.x, -b + e.y>>
      /\ e.turn = 3 => Moved(p, e) = <<b + e.x, -a + e.y>>
  BY <1>3 DEF Moved
<1>5. Moved(p, e) \in Int \X Int
  BY <1>1, <1>2, <1>4
<1>6. QED
  BY <1>1, <1>4, <1>5

\* Truncation loses less than a centimetre, on either side of 0.
LEMMA Toward0Is ==
  \A n \in Int : /\ Toward0(n, 10) \in Int
                 /\ n - 10 * Toward0(n, 10) < 10 /\ 10 * Toward0(n, 10) - n < 10
<1> SUFFICES ASSUME NEW n \in Int
             PROVE  /\ Toward0(n, 10) \in Int
                    /\ n - 10 * Toward0(n, 10) < 10 /\ 10 * Toward0(n, 10) - n < 10
  OBVIOUS
<1>1. \A k \in Nat : /\ k \div 10 \in Nat
                     /\ k - 10 * (k \div 10) < 10 /\ 10 * (k \div 10) - k < 10
  BY SMT
<1>2. CASE n >= 0
  BY <1>1, <1>2 DEF Toward0
<1>3. CASE ~ (n >= 0)
  <2>1. -n \in Nat
    BY <1>3
  <2>2. PICK k : k = (-n) \div 10
    OBVIOUS
  <2>3. k \in Nat /\ -n - 10 * k < 10 /\ 10 * k - (-n) < 10
    BY <1>1, <2>1, <2>2
  <2>4. Toward0(n, 10) = -k
    BY <1>3, <2>2 DEF Toward0
  <2>5. QED
    BY <2>3, <2>4
<1>4. QED
  BY <1>2, <1>3

(* Parameters in whole centimetres that lose less than one.                *)
InCentimetres(low, e) ==
  /\ low \in Extrinsics /\ low.turn = e.turn
  /\ e.x - 10 * low.x < 10 /\ 10 * low.x - e.x < 10
  /\ e.y - 10 * low.y < 10 /\ 10 * low.y - e.y < 10

\* LidarParam's are, of the file's.
LEMMA DividedIs ==
  ASSUME NEW e \in Extrinsics,
         NEW low, low = [e EXCEPT !.x = Toward0(@, 10), !.y = Toward0(@, 10)]
  PROVE  InCentimetres(low, e)
<1>1. e.turn \in {0, 1, 2, 3} /\ e.x \in Int /\ e.y \in Int
  BY DEF Extrinsics
<1>2. PICK x, y : x = Toward0(e.x, 10) /\ y = Toward0(e.y, 10)
  OBVIOUS
<1>3. /\ x \in Int /\ e.x - 10 * x < 10 /\ 10 * x - e.x < 10
      /\ y \in Int /\ e.y - 10 * y < 10 /\ 10 * y - e.y < 10
  BY <1>1, <1>2, Toward0Is
<1>4. low \in Extrinsics /\ low.x = x /\ low.y = y /\ low.turn = e.turn
  BY <1>2, <1>3 DEF Extrinsics
<1>5. QED
  BY <1>3, <1>4 DEF InCentimetres

\* The file's own are, of ten times as many millimetres.
LEMMA UndividedIs ==
  ASSUME NEW e \in Extrinsics, NEW ten, ten = [e EXCEPT !.x = 10 * @, !.y = 10 * @]
  PROVE  ten \in Extrinsics /\ InCentimetres(e, ten)
<1>1. e.turn \in {0, 1, 2, 3} /\ e.x \in Int /\ e.y \in Int
  BY DEF Extrinsics
<1>2. PICK x, y \in Int : x = 10 * e.x /\ y = 10 * e.y
  BY <1>1
<1>3. ten \in Extrinsics /\ ten.x = x /\ ten.y = y /\ ten.turn = e.turn
  BY <1>2 DEF Extrinsics
<1>4. x - x < 10 /\ y - y < 10
  BY <1>2
<1>5. QED
  BY <1>2, <1>3, <1>4 DEF InCentimetres

(* A low point and a low parameter each lose less than a centimetre.       *)
LEMMA LowIsNear ==
  ASSUME NEW p \in Int \X Int, NEW e \in Extrinsics, NEW low, InCentimetres(low, e),
         NEW at, at = ProcessCartesianLowPoint(Raw(p, "low"), low)
  PROVE  at \in Int \X Int /\ Within(20, at, Moved(p, e))
<1>1. e.turn \in {0, 1, 2, 3} /\ e.x \in Int /\ e.y \in Int
  BY DEF Extrinsics
<1>2. PICK x, y : x = low.x /\ y = low.y
  OBVIOUS
<1>3. /\ x \in Int /\ e.x - 10 * x < 10 /\ 10 * x - e.x < 10
      /\ y \in Int /\ e.y - 10 * y < 10 /\ 10 * y - e.y < 10
  BY <1>2 DEF InCentimetres, Extrinsics
<1>4. low \in Extrinsics /\ low.x = x /\ low.y = y /\ low.turn = e.turn
  BY <1>2 DEF InCentimetres
<1>5. p[1] \in Int /\ p[2] \in Int
  OBVIOUS
<1>6. PICK a, b : a = Toward0(p[1], 10) /\ b = Toward0(p[2], 10)
  OBVIOUS
<1>7. /\ a \in Int /\ p[1] - 10 * a < 10 /\ 10 * a - p[1] < 10
      /\ b \in Int /\ p[2] - 10 * b < 10 /\ 10 * b - p[2] < 10
  BY <1>5, <1>6, Toward0Is
<1>8. PICK q : q = <<a, b>>
  OBVIOUS
<1>9. q \in Int \X Int /\ q[1] = a /\ q[2] = b /\ Raw(p, "low") = q
  BY <1>6, <1>7, <1>8 DEF Raw
<1>10. PICK m : m = Moved(q, low)
  OBVIOUS
<1>11. m \in Int \X Int /\ at = <<10 * m[1], 10 * m[2]>>
  BY <1>4, <1>9, <1>10, MovedIs DEF ProcessCartesianLowPoint, Scaled
<1>12. PICK true : true = Moved(p, e)
  OBVIOUS
<1>13. true \in Int \X Int
  BY <1>12, MovedIs
<1>14. /\ e.turn = 0 => m = <<a + x, b + y>>
       /\ e.turn = 1 => m = <<-b + x, a + y>>
       /\ e.turn = 2 => m = <<-a + x, -b + y>>
       /\ e.turn = 3 => m = <<b + x, -a + y>>
  <2>1. /\ low.turn = 0 => m = <<q[1] + low.x, q[2] + low.y>>
        /\ low.turn = 1 => m = <<-q[2] + low.x, q[1] + low.y>>
        /\ low.turn = 2 => m = <<-q[1] + low.x, -q[2] + low.y>>
        /\ low.turn = 3 => m = <<q[2] + low.x, -q[1] + low.y>>
    BY <1>4, <1>9, <1>10, MovedIs
  <2>2. QED
    BY <1>4, <1>9, <2>1
<1>15. /\ e.turn = 0 => true = <<p[1] + e.x, p[2] + e.y>>
       /\ e.turn = 1 => true = <<-p[2] + e.x, p[1] + e.y>>
       /\ e.turn = 2 => true = <<-p[1] + e.x, -p[2] + e.y>>
       /\ e.turn = 3 => true = <<p[2] + e.x, -p[1] + e.y>>
  BY <1>12, MovedIs
<1>16. /\ 10 * m[1] - true[1] < 20 /\ true[1] - 10 * m[1] < 20
       /\ 10 * m[2] - true[2] < 20 /\ true[2] - 10 * m[2] < 20
  <2>1. CASE e.turn = 0
    <3>1. m[1] = a + x /\ m[2] = b + y /\ true[1] = p[1] + e.x /\ true[2] = p[2] + e.y
      BY <1>14, <1>15, <2>1
    <3>2. QED
      BY <1>1, <1>3, <1>5, <1>7, <3>1
  <2>2. CASE e.turn = 1
    <3>1. m[1] = -b + x /\ m[2] = a + y /\ true[1] = -p[2] + e.x /\ true[2] = p[1] + e.y
      BY <1>14, <1>15, <2>2
    <3>2. QED
      BY <1>1, <1>3, <1>5, <1>7, <3>1
  <2>3. CASE e.turn = 2
    <3>1. m[1] = -a + x /\ m[2] = -b + y /\ true[1] = -p[1] + e.x /\ true[2] = -p[2] + e.y
      BY <1>14, <1>15, <2>3
    <3>2. QED
      BY <1>1, <1>3, <1>5, <1>7, <3>1
  <2>4. CASE e.turn = 3
    <3>1. m[1] = b + x /\ m[2] = -a + y /\ true[1] = p[2] + e.x /\ true[2] = -p[1] + e.y
      BY <1>14, <1>15, <2>4
    <3>2. QED
      BY <1>1, <1>3, <1>5, <1>7, <3>1
  <2>5. QED
    BY <1>1, <2>1, <2>2, <2>3, <2>4
<1>17. at \in Int \X Int /\ at[1] = 10 * m[1] /\ at[2] = 10 * m[2]
  BY <1>11
<1>18. \A k \in 1 .. 2 : at[k] - true[k] < 20 /\ true[k] - at[k] < 20
  <2>1. \A k \in 1 .. 2 : k = 1 \/ k = 2
    OBVIOUS
  <2>2. QED
    BY <1>16, <1>17, <2>1
<1>19. QED
  BY <1>12, <1>17, <1>18 DEF Within

(* Depth and angle give back a point on an axis.                           *)
LEMMA SphericalIsSame ==
  ASSUME NEW p \in Int \X Int, p[1] = 0 \/ p[2] = 0, NEW e
  PROVE  ProcessSphericalPoint(Raw(p, "spherical"), e) = Moved(p, e)
<1>1. PICK a, b \in Int : p = <<a, b>> /\ p[1] = a /\ p[2] = b
  OBVIOUS
<1>2. PICK q : q = Quarter(p)
  OBVIOUS
<1>3. PICK d : d = Depth(p)
  OBVIOUS
<1>4. \A n \in Int : n * 1 = n /\ n * 0 = 0 /\ n * (-1) = -n
  BY SMT
<1>5. Scaled(<<Cos(q), Sin(q)>>, d) = p
  <2>1. d = a * Cos(q) + b * Sin(q)
    BY <1>1, <1>2, <1>3 DEF Depth
  <2>2. q = IF a > 0 THEN 0 ELSE IF b > 0 THEN 1 ELSE IF a < 0 THEN 2 ELSE 3
    BY <1>1, <1>2 DEF Quarter
  <2>3. CASE a > 0
    <3>1. q = 0 /\ b = 0
      BY <1>1, <2>2, <2>3
    <3>2. d = a
      BY <1>4, <2>1, <3>1, CosSin
    <3>3. d * Cos(q) = a /\ d * Sin(q) = b
      BY <1>4, <3>1, <3>2, CosSin
    <3>4. QED
      BY <1>1, <3>3 DEF Scaled
  <2>4. CASE ~ (a > 0) /\ b > 0
    <3>1. q = 1 /\ a = 0
      BY <1>1, <2>2, <2>4
    <3>2. d = b
      BY <1>4, <2>1, <3>1, CosSin
    <3>3. d * Cos(q) = a /\ d * Sin(q) = b
      BY <1>4, <3>1, <3>2, CosSin
    <3>4. QED
      BY <1>1, <3>3 DEF Scaled
  <2>5. CASE ~ (a > 0) /\ ~ (b > 0) /\ a < 0
    <3>1. q = 2 /\ b = 0
      BY <1>1, <2>2, <2>5
    <3>2. d = -a
      BY <1>4, <2>1, <3>1, CosSin
    <3>3. d * Cos(q) = a /\ d * Sin(q) = b
      BY <1>4, <3>1, <3>2, CosSin
    <3>4. QED
      BY <1>1, <3>3 DEF Scaled
  <2>6. CASE ~ (a > 0) /\ ~ (b > 0) /\ ~ (a < 0)
    <3>1. q = 3 /\ a = 0
      BY <1>1, <2>2, <2>6
    <3>2. d = -b
      BY <1>4, <2>1, <3>1, CosSin
    <3>3. d * Cos(q) = a /\ d * Sin(q) = b
      BY <1>4, <3>1, <3>2, CosSin
    <3>4. QED
      BY <1>1, <3>3 DEF Scaled
  <2>7. QED
    BY <2>3, <2>4, <2>5, <2>6
<1>6. Raw(p, "spherical").depth = d /\ Raw(p, "spherical").phi = q
  BY <1>2, <1>3 DEF Raw
<1>7. QED
  BY <1>5, <1>6 DEF ProcessSphericalPoint

(* The parameters of an entry c as they take effect on points of a type,   *)
(* and where such a point must be.                                         *)
EffectOf(c, type) ==
  IF c.data_type = "low" <=> type = "low" THEN c.extrinsic
  ELSE IF type = "low" THEN [c.extrinsic EXCEPT !.x = 10 * @, !.y = 10 * @]
  ELSE [c.extrinsic EXCEPT !.x = Toward0(@, 10), !.y = Toward0(@, 10)]

PlacedBy(c, type, at, t) ==
  /\ t + 1 \in DOMAIN Scene
  /\ Within(IF type = "low" THEN 20 ELSE 1, at, Moved(Scene[t + 1], EffectOf(c, type)))

LidarTypes == {"high", "low", "spherical"}

\* The points of the scene, and what becomes of one.
LEMMA SceneIs ==
  ASSUME NEW t \in Nat, t < Len(Scene)
  PROVE  t + 1 \in DOMAIN Scene /\ Scene[t + 1] \in Int \X Int
<1>1. Scene \in Seq(Int \X Int) /\ t + 1 \in 1 .. Len(Scene)
  BY CloudAssumption
<1>2. QED
  BY <1>1

LEMMA ParamIs ==
  ASSUME NEW c \in Configs
  PROVE  LidarParam(c) \in Extrinsics
<1>1. c.extrinsic.x \in Int /\ c.extrinsic.y \in Int /\ c.extrinsic \in Extrinsics
  BY DEF Configs, Extrinsics
<1>2. Toward0(c.extrinsic.x, 10) \in Int /\ Toward0(c.extrinsic.y, 10) \in Int
  BY <1>1, Toward0Is
<1>3. QED
  BY <1>1, <1>2 DEF LidarParam, Extrinsics

LEMMA PointIs ==
  ASSUME NEW p \in Int \X Int, NEW type \in LidarTypes, NEW e \in Extrinsics
  PROVE  LivoxLidarPointCloudProcess(Raw(p, type), type, e) \in Int \X Int
<1>1. p[1] \in Int /\ p[2] \in Int
  OBVIOUS
<1>2. CASE type = "high"
  BY <1>2, MovedIs DEF LivoxLidarPointCloudProcess, Raw, ProcessCartesianHighPoint
<1>3. CASE type = "low"
  <2>1. PICK q : q = <<Toward0(p[1], 10), Toward0(p[2], 10)>>
    OBVIOUS
  <2>2. q \in Int \X Int /\ Raw(p, "low") = q
    BY <1>1, <2>1, Toward0Is DEF Raw
  <2>3. PICK m : m = Moved(q, e)
    OBVIOUS
  <2>4. m \in Int \X Int
    BY <2>2, <2>3, MovedIs
  <2>5. 10 * m[1] \in Int /\ 10 * m[2] \in Int
    BY <2>4
  <2>6. LivoxLidarPointCloudProcess(Raw(p, type), type, e) = <<10 * m[1], 10 * m[2]>>
    BY <1>3, <2>2, <2>3 DEF LivoxLidarPointCloudProcess, ProcessCartesianLowPoint, Scaled
  <2>7. QED
    BY <2>5, <2>6
<1>4. CASE type = "spherical"
  <2>1. PICK q : q = Quarter(p)
    OBVIOUS
  <2>2. q \in {0, 1, 2, 3}
    BY <2>1 DEF Quarter
  <2>3. Cos(q) \in Int /\ Sin(q) \in Int
    BY <2>2, CosSin
  <2>4. PICK d : d = Depth(p)
    OBVIOUS
  <2>5. d \in Int
    <3>1. d = p[1] * Cos(q) + p[2] * Sin(q)
      BY <2>1, <2>4 DEF Depth
    <3>2. QED
      BY <1>1, <2>3, <3>1
  <2>6. PICK s : s = Scaled(<<Cos(q), Sin(q)>>, d)
    OBVIOUS
  <2>7. s \in Int \X Int
    <3>1. d * Cos(q) \in Int /\ d * Sin(q) \in Int
      BY <2>3, <2>5
    <3>2. QED
      BY <2>6, <3>1 DEF Scaled
  <2>8. LivoxLidarPointCloudProcess(Raw(p, type), type, e) = Moved(s, e)
    BY <1>4, <2>1, <2>4, <2>6 DEF LivoxLidarPointCloudProcess, Raw, ProcessSphericalPoint
  <2>9. QED
    BY <2>7, <2>8, MovedIs
<1>5. QED
  BY <1>2, <1>3, <1>4 DEF LidarTypes

\* The parameters of a lidar come from an entry.
LEMMA EntryIs ==
  ASSUME DevicesInv, NEW h \in DOMAIN lidar_extrinsics_
  PROVE  Entry(h) \in Configs /\ lidar_extrinsics_[h] = LidarParam(Entry(h))
<1>1. Defined(h) # {} /\ lidar_extrinsics_[h] = LidarParam(Entry(h))
  BY DEF DevicesInv
<1>2. PICK P : P = Parse(user_file)
  OBVIOUS
<1>3. P \in Seq(Configs)
  BY <1>2, FilesAssumption DEF DevicesInv
<1>4. PICK last : last = CHOOSE o \in Defined(h) : \A l \in Defined(h) : l <= o
  OBVIOUS
<1>5. Defined(h) \subseteq DOMAIN P /\ Defined(h) \subseteq 1 .. Len(P)
  BY <1>2, <1>3 DEF Defined
<1>6. Max(Defined(h)) \in Defined(h) /\ \A l \in Defined(h) : l <= Max(Defined(h))
  <2>1. Len(P) \in Nat /\ Defined(h) \subseteq 0 .. Len(P)
    BY <1>3, <1>5
  <2>2. QED
    BY <1>1, <2>1, GreatestNumber
<1>7. last \in Defined(h)
  BY <1>4, <1>6
<1>8. Entry(h) = P[last]
  BY <1>2, <1>4 DEF Entry
<1>9. QED
  BY <1>1, <1>3, <1>5, <1>7, <1>8

\* A point of any type that lidars send, moved by the parameters of a
\* lidar's last entry, is in place.
LEMMA PointIsPlaced ==
  ASSUME DevicesInv, NEW h \in DOMAIN lidar_extrinsics_, NEW type \in DataTypes,
         NEW t \in Nat, t < Len(Scene),
         NEW at, at = LivoxLidarPointCloudProcess(Raw(Scene[t + 1], type), type, lidar_extrinsics_[h])
  PROVE  PlacedBy(Entry(h), type, at, t)
<1>1. PICK p : p = Scene[t + 1]
  OBVIOUS
<1>2. t + 1 \in DOMAIN Scene /\ p \in Int \X Int
  BY <1>1, SceneIs
<1>3. PICK c : c = Entry(h)
  OBVIOUS
<1>4. c \in Configs /\ lidar_extrinsics_[h] = LidarParam(c)
  BY <1>3, EntryIs
<1>5. type \in LidarTypes
  BY CloudAssumption DEF LidarTypes
<1>6. type = "spherical" => p[1] = 0 \/ p[2] = 0
  BY <1>1, <1>2, FilesAssumption
<1>7. PICK e : e = c.extrinsic
  OBVIOUS
<1>8. e \in Extrinsics
  BY <1>4, <1>7 DEF Configs
<1>9. PICK param : param = LidarParam(c)
  OBVIOUS
<1>10. param \in Extrinsics
  BY <1>4, <1>9, ParamIs
<1>11. PICK effect : effect = EffectOf(c, type)
  OBVIOUS
<1>12. CASE type = "low"
  <2>1. effect \in Extrinsics /\ InCentimetres(param, effect)
    <3>1. CASE c.data_type = "low"
      <4>1. effect = e /\ param = [e EXCEPT !.x = Toward0(@, 10), !.y = Toward0(@, 10)]
        BY <1>7, <1>9, <1>11, <1>12, <3>1 DEF LidarParam, EffectOf
      <4>2. QED
        BY <1>8, <4>1, DividedIs
    <3>2. CASE c.data_type # "low"
      <4>1. param = e /\ effect = [e EXCEPT !.x = 10 * @, !.y = 10 * @]
        BY <1>7, <1>9, <1>11, <1>12, <3>2 DEF LidarParam, EffectOf
      <4>2. QED
        BY <1>8, <4>1, UndividedIs
    <3>3. QED
      BY <3>1, <3>2
  <2>2. at = ProcessCartesianLowPoint(Raw(p, "low"), param)
    BY <1>1, <1>4, <1>9, <1>12 DEF LivoxLidarPointCloudProcess
  <2>3. Within(20, at, Moved(p, effect))
    BY <1>2, <2>1, <2>2, LowIsNear
  <2>4. QED
    BY <1>1, <1>2, <1>3, <1>11, <1>12, <2>3 DEF PlacedBy
<1>13. CASE type # "low"
  <2>1. param = effect
    <3>1. CASE c.data_type = "low"
      BY <1>9, <1>11, <1>13, <3>1 DEF LidarParam, EffectOf
    <3>2. CASE c.data_type # "low"
      BY <1>9, <1>11, <1>13, <3>2 DEF LidarParam, EffectOf
    <3>3. QED
      BY <3>1, <3>2
  <2>2. at = Moved(p, effect)
    <3>1. CASE type = "high"
      BY <1>1, <1>4, <1>9, <2>1, <3>1
         DEF LivoxLidarPointCloudProcess, ProcessCartesianHighPoint, Raw
    <3>2. CASE type = "spherical"
      <4>1. at = ProcessSphericalPoint(Raw(p, "spherical"), effect)
        BY <1>1, <1>4, <1>9, <2>1, <3>2 DEF LivoxLidarPointCloudProcess
      <4>2. QED
        BY <1>2, <1>6, <3>2, <4>1, SphericalIsSame
    <3>3. QED
      BY <1>5, <1>13, <3>1, <3>2 DEF LidarTypes
  <2>3. PICK true : true = Moved(p, effect)
    OBVIOUS
  <2>4. true \in Int \X Int
    BY <1>2, <1>10, <2>1, <2>3, MovedIs
  <2>5. Within(1, true, true)
    <3>1. \A k \in 1 .. 2 : true[k] \in Int
      BY <2>4
    <3>2. QED
      BY <3>1 DEF Within
  <2>6. QED
    BY <1>1, <1>2, <1>3, <1>11, <1>13, <2>2, <2>3, <2>5 DEF PlacedBy
<1>14. QED
  BY <1>12, <1>13

(* Clouds, frames and messages.  The times of a cloud are not before its   *)
(* first point's.                                                          *)
CloudPoints == [at : Int \X Int, offset_time : Nat, data_type : LidarTypes]
Frames == [base_time : Nat, points : Seq(CloudPoints)]

CloudOf(c, cloud) ==
  \A i \in 1 .. Len(cloud) : /\ cloud[1].offset_time <= cloud[i].offset_time
                             /\ PlacedBy(c, cloud[i].data_type, cloud[i].at, cloud[i].offset_time)

HandlersInv ==
  /\ now \in Nat
  /\ handlers \in [Handles -> [extrinsic : Extrinsics \cup {Missing}, cloud : Seq(CloudPoints)]]
  /\ \A h \in Handles :
       handlers[h].extrinsic # Missing =>
         h \in DOMAIN lidar_extrinsics_ /\ handlers[h].extrinsic = lidar_extrinsics_[h]
  /\ \A h \in Handles :
       h \in DOMAIN lidar_extrinsics_ =>
         /\ CloudOf(Entry(h), handlers[h].cloud)
         /\ \A i \in 1 .. Len(handlers[h].cloud) : handlers[h].cloud[i].offset_time < now

FrameOf(c, frame) ==
  /\ Len(frame.points) > 0 /\ frame.base_time = frame.points[1].offset_time
  /\ CloudOf(c, frame.points)

StoredInv ==
  /\ stored \in [Handles -> Seq(Frames)]
  /\ \A h \in Handles :
       h \in DOMAIN lidar_extrinsics_ => \A i \in 1 .. Len(stored[h]) : FrameOf(Entry(h), stored[h][i])

SampledInv ==
  /\ sampled \subseteq Handles /\ transfer_format_ \in Transfers
  /\ sends \in [Handles -> DataTypes]
  /\ \A h \in sampled : \E i \in 1 .. Len(lidars_) : lidars_[i].key = h

CloudInv == DevicesInv /\ HandlersInv /\ StoredInv /\ SampledInv /\ PublishedInPlace

\* No clouds yet.
LEMMA CloudInvInit == CloudInit => CloudInv
<1> SUFFICES ASSUME CloudInit PROVE CloudInv
  OBVIOUS
<1>1. DevicesInv
  BY DevicesInit
<1>2. <<>> \in Seq(CloudPoints) /\ <<>> \in Seq(Frames) /\ 1 .. Len(<<>>) = {}
  OBVIOUS
<1>3. HandlersInv
  BY <1>2 DEF CloudInit, DriverNode, HandlersInv, CloudOf
<1>4. StoredInv
  BY <1>2 DEF CloudInit, DriverNode, StoredInv, NoPoints
<1>5. SampledInv /\ PublishedInPlace
  BY DEF CloudInit, DriverNode, SampledInv, PublishedInPlace
<1>6. QED
  BY <1>1, <1>3, <1>4, <1>5 DEF CloudInv

\* What the steps leave alone.
LEMMA EntriesStay ==
  ASSUME user_file' = user_file
  PROVE  \A h : Defined(h)' = Defined(h) /\ Entry(h)' = Entry(h)
  BY DEF Defined, Entry

LEMMA DevicesStay ==
  ASSUME DevicesInv, UNCHANGED <<user_file, lidars_, lidar_extrinsics_>>
  PROVE  DevicesInv'
<1>1. \A h : Defined(h)' = Defined(h) /\ Entry(h)' = Entry(h)
  BY EntriesStay
<1>2. QED
  BY <1>1 DEF DevicesInv

LEMMA HandlersStay ==
  ASSUME HandlersInv, UNCHANGED <<user_file, lidar_extrinsics_, handlers, now>>
  PROVE  HandlersInv'
<1>1. \A h : Entry(h)' = Entry(h)
  BY EntriesStay
<1>2. QED
  BY <1>1 DEF HandlersInv

LEMMA StoredStay ==
  ASSUME StoredInv, UNCHANGED <<user_file, lidar_extrinsics_, stored>>
  PROVE  StoredInv'
<1>1. \A h : Entry(h)' = Entry(h)
  BY EntriesStay
<1>2. QED
  BY <1>1 DEF StoredInv

\* InPlace is PlacedBy the entry of the lidar.
LEMMA InPlaceIs ==
  ASSUME NEW h, NEW p, NEW t
  PROVE  InPlace(h, p, t) <=> PlacedBy(Entry(h), p.data_type, p.at, t)
  BY DEF InPlace, PlacedBy, InEffect, SameUnit, EffectOf

LEMMA PublishedStay ==
  ASSUME PublishedInPlace, UNCHANGED <<user_file, use_multi_topic_, lastSent>>
  PROVE  PublishedInPlace'
<1>1. \A h : Defined(h)' = Defined(h) /\ Entry(h)' = Entry(h)
  BY EntriesStay
<1>2. \A h, type : InEffect(h, type)' = InEffect(h, type)
  BY <1>1 DEF InEffect, SameUnit
<1>3. \A h, p, t : InPlace(h, p, t)' <=> InPlace(h, p, t)
  BY <1>1, <1>2 DEF InPlace
<1>4. QED
  BY <1>1, <1>3 DEF PublishedInPlace

\* A stranger that shows up gets an index of its own, and no entry.
LEMMA LidarShowsUp ==
  ASSUME CloudInv, NEW h \in Handles, LidarInfoChange(h)
  PROVE  CloudInv'
<1>1. /\ ParseSummaryInfo(user_file)
      /\ UNCHANGED <<user_file, transfer_format_, use_multi_topic_, lidar_extrinsics_, sends,
                     handlers, stored, lastSent, now>>
  BY DEF LidarInfoChange, fileVars
<1>2. HandlersInv' /\ StoredInv' /\ PublishedInPlace'
  BY <1>1, HandlersStay, StoredStay, PublishedStay DEF CloudInv
<1>3. \A g : Defined(g)' = Defined(g) /\ Entry(g)' = Entry(g)
  BY <1>1, EntriesStay
<1>4. PICK n : n = Len(lidars_)
  OBVIOUS
<1>5. lidars_ \in Seq(Keyed) /\ n \in Nat /\ KeysDiffer(lidars_)
  BY <1>4 DEF CloudInv, DevicesInv
<1>6. CASE IndexOf(lidars_, h) # 0
  <2>1. sampled' = sampled \cup {h} /\ lidars_' = lidars_
    BY <1>6 DEF LidarInfoChange
  <2>2. \E i \in 1 .. Len(lidars_) : lidars_[i].key = h
    BY <1>4, <1>5, <1>6, IndexIs
  <2>3. SampledInv'
    BY <1>1, <2>1, <2>2 DEF CloudInv, SampledInv
  <2>4. DevicesInv'
    BY <1>1, <2>1, DevicesStay DEF CloudInv
  <2>5. QED
    BY <1>2, <2>3, <2>4 DEF CloudInv
<1>7. CASE IndexOf(lidars_, h) = 0
  <2>1. PICK stranger : stranger = [key |-> h, handle |-> 0, config |-> Missing]
    OBVIOUS
  <2>2. n < kMaxDevices /\ lidars_' = Append(lidars_, stranger) /\ sampled' = sampled \cup {h}
    BY <1>4, <1>7, <2>1 DEF LidarInfoChange
  <2>3. \A i \in 1 .. n : lidars_[i].key # h
    BY <1>4, <1>5, <1>7, IndexIs
  <2>4. stranger \in Keyed /\ stranger.key = h
    BY <2>1, CloudAssumption DEF Keyed
  <2>5. /\ lidars_' \in Seq(Keyed) /\ Len(lidars_') = n + 1 /\ lidars_'[n + 1] = stranger
        /\ \A i \in 1 .. n : lidars_'[i] = lidars_[i] /\ i \in 1 .. n + 1
        /\ \A i \in 1 .. n + 1 : i \in 1 .. n \/ i = n + 1
        /\ n + 1 \in 1 .. n + 1
    BY <1>4, <1>5, <2>2, <2>4
  <2>6. KeysDiffer(lidars_)'
    BY <1>4, <1>5, <2>3, <2>4, <2>5 DEF KeysDiffer
  (* There is room, so every lidar of the file has a device already.       *)
  <2>7. ASSUME NEW g, Defined(g) # {}
        PROVE  \E i \in 1 .. n : lidars_[i].key = g
    <3>1. ~ (n >= kMaxDevices)
      BY <1>5, <2>2, CloudAssumption
    <3>2. QED
      BY <1>1, <1>4, <2>7, <3>1 DEF CloudInv, DevicesInv
  <2>8. Defined(h) = {}
    BY <2>3, <2>7
  <2>9. \A i \in 1 .. n + 1 :
          Defined(lidars_'[i].key) # {} =>
            /\ lidars_'[i].handle = lidars_'[i].key /\ lidars_'[i].config = Entry(lidars_'[i].key)
            /\ lidars_'[i].key \in DOMAIN lidar_extrinsics_
    <3> SUFFICES ASSUME NEW i \in 1 .. n + 1, NEW d, d = lidars_'[i], Defined(d.key) # {}
                 PROVE  d.handle = d.key /\ d.config = Entry(d.key) /\ d.key \in DOMAIN lidar_extrinsics_
      OBVIOUS
    <3>1. i \in 1 .. n /\ d = lidars_[i]
      BY <2>4, <2>5, <2>8
    <3>2. QED
      BY <1>4, <3>1 DEF CloudInv, DevicesInv
  <2>10. ASSUME NEW g, \E i \in 1 .. n : lidars_[i].key = g
         PROVE  \E i \in 1 .. n + 1 : lidars_'[i].key = g
    BY <2>5, <2>10
  <2>11. \A g \in DOMAIN lidar_extrinsics_ :
           /\ Defined(g) # {} /\ lidar_extrinsics_[g] = LidarParam(Entry(g))
           /\ \E i \in 1 .. n + 1 : lidars_'[i].key = g
    BY <1>4, <2>10 DEF CloudInv, DevicesInv
  <2>12. user_file \in Files
    BY DEF CloudInv, DevicesInv
  <2>13. \A g : Defined(g) # {} => \E i \in 1 .. n + 1 : lidars_'[i].key = g
    BY <2>7, <2>10
  <2>14. DevicesInv'
    <3>1. user_file' = user_file /\ lidar_extrinsics_' = lidar_extrinsics_ /\ Len(lidars_') = n + 1
      BY <1>1, <2>5
    <3>2. (\A i \in 1 .. Len(lidars_) :
             Defined(lidars_[i].key) # {} =>
               /\ lidars_[i].handle = lidars_[i].key /\ lidars_[i].config = Entry(lidars_[i].key)
               /\ lidars_[i].key \in DOMAIN lidar_extrinsics_)'
      BY <2>9, <3>1 DEF Defined, Entry
    <3>3. (\A g \in DOMAIN lidar_extrinsics_ :
             /\ Defined(g) # {} /\ lidar_extrinsics_[g] = LidarParam(Entry(g))
             /\ \E i \in 1 .. Len(lidars_) : lidars_[i].key = g)'
      BY <1>1, <1>3, <2>5, <2>11
    <3>4. (\A g : Defined(g) # {} => \E i \in 1 .. Len(lidars_) : lidars_[i].key = g)'
      BY <1>3, <2>5, <2>13
    <3>5. QED
      BY <1>1, <2>5, <2>6, <2>12, <3>2, <3>3, <3>4 DEF DevicesInv
  <2>15. SampledInv'
    <3>1. \A g \in sampled : \E i \in 1 .. n + 1 : lidars_'[i].key = g
      BY <1>4, <2>10 DEF CloudInv, SampledInv
    <3>2. \E i \in 1 .. n + 1 : lidars_'[i].key = h
      BY <2>4, <2>5
    <3>3. QED
      BY <1>1, <2>2, <2>5, <3>1, <3>2 DEF CloudInv, SampledInv
  <2>16. QED
    BY <1>2, <2>14, <2>15 DEF CloudInv
<1>8. QED
  BY <1>6, <1>7

(* A lidar changes to the type of its entry, one of those that lidars send; *)
(* the parameters and the points of before stay as they are.               *)
LEMMA LidarChangesType ==
  ASSUME CloudInv, NEW h \in Handles, SetPclDataType(h)
  PROVE  CloudInv'
<1>1. UNCHANGED <<user_file, transfer_format_, use_multi_topic_, lidars_, lidar_extrinsics_,
                  sampled, handlers, stored, lastSent, now>>
  BY DEF SetPclDataType, fileVars
<1>2. DevicesInv' /\ HandlersInv' /\ StoredInv' /\ PublishedInPlace'
  BY <1>1, DevicesStay, HandlersStay, StoredStay, PublishedStay DEF CloudInv
<1>3. PICK i : i = IndexOf(lidars_, h)
  OBVIOUS
<1>4. PICK config : config = lidars_[i].config
  OBVIOUS
<1>5. /\ h \in sampled /\ config # Missing /\ config.data_type # Missing
      /\ sends' = [sends EXCEPT ![h] = config.data_type]
  BY <1>3, <1>4 DEF SetPclDataType
<1>6. lidars_ \in Seq(Keyed) /\ Len(lidars_) \in Nat /\ KeysDiffer(lidars_)
  BY DEF CloudInv, DevicesInv
<1>7. i \in 1 .. Len(lidars_)
  <2>1. PICK j \in 1 .. Len(lidars_) : lidars_[j].key = h
    BY <1>5 DEF CloudInv, SampledInv
  <2>2. QED
    BY <1>3, <1>6, <2>1, IndexOfKey
<1>8. config \in Configs
  <2>1. lidars_[i] \in Keyed
    BY <1>6, <1>7
  <2>2. QED
    BY <1>4, <1>5, <2>1 DEF Keyed
<1>9. config.data_type \in DataTypes
  BY <1>5, <1>8 DEF Configs
<1>10. sends' \in [Handles -> DataTypes]
  BY <1>5, <1>9 DEF CloudInv, SampledInv
<1>11. SampledInv'
  BY <1>1, <1>10 DEF CloudInv, SampledInv
<1>12. QED
  BY <1>2, <1>11 DEF CloudInv

LEMMA SampledStay ==
  ASSUME SampledInv, UNCHANGED <<transfer_format_, sampled, sends, lidars_>>
  PROVE  SampledInv'
  BY DEF SampledInv

\* The parameters that a handler applies are those of its own lidar.
LEMMA ExtParamIs ==
  ASSUME DevicesInv, HandlersInv, NEW h \in Handles
  PROVE  /\ ExtParam(h) # Missing => h \in DOMAIN lidar_extrinsics_
         /\ h \in DOMAIN lidar_extrinsics_ =>
              ExtParam(h) = lidar_extrinsics_[h] /\ ExtParam(h) \in Extrinsics
<1>1. h \in DOMAIN lidar_extrinsics_ => lidar_extrinsics_[h] \in Extrinsics
  <2>1. h \in DOMAIN lidar_extrinsics_ => Entry(h) \in Configs
    BY EntryIs
  <2>2. h \in DOMAIN lidar_extrinsics_ => lidar_extrinsics_[h] = LidarParam(Entry(h))
    BY EntryIs
  <2>3. QED
    BY <2>1, <2>2, ParamIs
<1>2. handlers[h].extrinsic # Missing =>
        h \in DOMAIN lidar_extrinsics_ /\ handlers[h].extrinsic = lidar_extrinsics_[h]
  BY DEF HandlersInv
<1>3. QED
  BY <1>1, <1>2 DEF ExtParam

\* The times of a cloud.
LEMMA TimesAreNat ==
  ASSUME NEW cloud \in Seq(CloudPoints)
  PROVE  \A i \in 1 .. Len(cloud) : cloud[i].offset_time \in Nat
<1>1. \A i \in 1 .. Len(cloud) : cloud[i] \in CloudPoints
  OBVIOUS
<1>2. \A p \in CloudPoints : p.offset_time \in Nat
  BY DEF CloudPoints
<1>3. QED
  BY <1>1, <1>2

(* The points of a packet.                                                 *)
LEMMA PacketPoints ==
  ASSUME DevicesInv, HandlersInv, SampledInv, NEW h \in Handles, now + dot_num <= Len(Scene),
         NEW points, points = PointsOf(h, now)
  PROVE  /\ points \in Seq(CloudPoints) /\ Len(points) = dot_num
         /\ \A i \in 1 .. dot_num : points[i].offset_time = now + i - 1
         /\ h \in DOMAIN lidar_extrinsics_ =>
              \A i \in 1 .. dot_num :
                PlacedBy(Entry(h), points[i].data_type, points[i].at, points[i].offset_time)
<1>1. now \in Nat /\ dot_num \in Nat \ {0} /\ Len(Scene) \in Nat
  BY CloudAssumption DEF HandlersInv
<1>2. PICK type : type = sends[h]
  OBVIOUS
<1>3. type \in DataTypes /\ type \in LidarTypes
  BY <1>2, CloudAssumption DEF SampledInv, LidarTypes
<1>4. PICK e : e = IF ExtParam(h) = Missing THEN NoExtrinsic ELSE ExtParam(h)
  OBVIOUS
<1>5. e \in Extrinsics /\ (h \in DOMAIN lidar_extrinsics_ => e = lidar_extrinsics_[h])
  <2>1. NoExtrinsic \in Extrinsics
    BY DEF NoExtrinsic, Extrinsics
  <2>2. Missing \notin Extrinsics
    BY FilesAssumption, Zenon
  <2>3. QED
    BY <1>4, <2>1, <2>2, ExtParamIs
<1> DEFINE Placed(t) == LivoxLidarPointCloudProcess(Raw(Scene[t + 1], type), type, e)
<1>6. points = [i \in 1 .. dot_num |->
                  [at |-> Placed(now + i - 1), offset_time |-> now + i - 1, data_type |-> type]]
  BY <1>2, <1>4 DEF PointsOf
<1>7. ASSUME NEW t \in Nat, t < Len(Scene)
      PROVE  /\ Placed(t) \in Int \X Int
             /\ h \in DOMAIN lidar_extrinsics_ => PlacedBy(Entry(h), type, Placed(t), t)
  <2>1. Scene[t + 1] \in Int \X Int
    BY <1>7, SceneIs
  <2>2. Placed(t) \in Int \X Int
    BY <1>3, <1>5, <2>1, PointIs
  <2>3. h \in DOMAIN lidar_extrinsics_ => PlacedBy(Entry(h), type, Placed(t), t)
    BY <1>3, <1>5, <1>7, PointIsPlaced
  <2>4. QED
    BY <2>2, <2>3
<1> HIDE DEF Placed
<1>8. ASSUME NEW i \in 1 .. dot_num
      PROVE  /\ points[i] = [at |-> Placed(now + i - 1), offset_time |-> now + i - 1,
                               data_type |-> type]
             /\ points[i] \in CloudPoints
             /\ h \in DOMAIN lidar_extrinsics_ =>
                  PlacedBy(Entry(h), points[i].data_type, points[i].at, points[i].offset_time)
  <2>1. PICK t : t = now + i - 1
    OBVIOUS
  <2>2. t \in Nat /\ t < Len(Scene)
    BY <1>1, <2>1
  <2>3. points[i] = [at |-> Placed(t), offset_time |-> t, data_type |-> type]
    BY <1>6, <2>1
  <2>4. QED
    BY <1>3, <1>7, <2>1, <2>2, <2>3 DEF CloudPoints
<1>9. points \in Seq(CloudPoints) /\ Len(points) = dot_num
  <2>1. points \in [1 .. dot_num -> CloudPoints]
    BY <1>6, <1>8
  <2>2. QED
    BY <1>1, <2>1
<1>10. QED
  BY <1>8, <1>9

\* A packet goes to the cloud of its own lidar, later than all in it.
LEMMA PacketArrives ==
  ASSUME CloudInv, NEW h \in Handles, PointPacket(h)
  PROVE  CloudInv'
<1>1. /\ UNCHANGED <<user_file, transfer_format_, use_multi_topic_, lidars_, lidar_extrinsics_,
                     sampled, sends, stored, lastSent>>
      /\ now + dot_num <= Len(Scene) /\ now' = now + dot_num
  BY DEF PointPacket, fileVars
<1>2. DevicesInv' /\ StoredInv' /\ SampledInv' /\ PublishedInPlace'
  BY <1>1, DevicesStay, StoredStay, SampledStay, PublishedStay DEF CloudInv
<1>3. \A g : Entry(g)' = Entry(g)
  BY <1>1, EntriesStay
<1>4. /\ now \in Nat /\ dot_num \in Nat \ {0}
      /\ handlers \in [Handles -> [extrinsic : Extrinsics \cup {Missing}, cloud : Seq(CloudPoints)]]
  BY CloudAssumption DEF CloudInv, HandlersInv
<1>5. PICK old : old = handlers[h].cloud
  OBVIOUS
<1>6. PICK points : points = PointsOf(h, now)
  OBVIOUS
<1>7. /\ points \in Seq(CloudPoints) /\ Len(points) = dot_num
      /\ \A i \in 1 .. dot_num : points[i].offset_time = now + i - 1
      /\ h \in DOMAIN lidar_extrinsics_ =>
           \A i \in 1 .. dot_num :
                PlacedBy(Entry(h), points[i].data_type, points[i].at, points[i].offset_time)
  BY <1>1, <1>6, PacketPoints DEF CloudInv
<1>8. PICK cloud : cloud = old \o points
  OBVIOUS
<1>9. old \in Seq(CloudPoints)
  BY <1>4, <1>5
<1>10. /\ cloud \in Seq(CloudPoints) /\ Len(cloud) = Len(old) + dot_num
       /\ \A i \in 1 .. Len(old) : cloud[i] = old[i]
       /\ \A i \in 1 .. dot_num : cloud[Len(old) + i] = points[i]
  <2>1. points \in Seq(CloudPoints) /\ Len(points) = dot_num
    BY <1>7
  <2>2. cloud \in Seq(CloudPoints) /\ Len(cloud) = Len(old) + Len(points)
    <3>1. old \o points \in Seq(CloudPoints) /\ Len(old \o points) = Len(old) + Len(points)
      BY <1>9, <2>1, ConcatProperties
    <3>2. QED
      BY <1>8, <3>1
  <2>3. ASSUME NEW i \in 1 .. Len(old) PROVE cloud[i] = old[i]
    <3>1. Len(old) \in Nat /\ Len(points) \in Nat
      BY <1>9, <2>1
    <3>2. i \in 1 .. Len(old) + Len(points) /\ i <= Len(old)
      BY <3>1
    <3>3. (old \o points)[i] = old[i]
      BY <1>9, <2>1, <3>2, ConcatProperties
    <3>4. QED
      BY <1>8, <3>3
  <2>4. ASSUME NEW i \in 1 .. Len(points) PROVE cloud[Len(old) + i] = points[i]
    <3>1. Len(old) \in Nat /\ Len(points) \in Nat
      BY <1>9, <2>1
    <3>2. /\ Len(old) + i \in 1 .. Len(old) + Len(points)
          /\ ~ (Len(old) + i <= Len(old)) /\ (Len(old) + i) - Len(old) = i
      BY <3>1
    <3>3. (old \o points)[Len(old) + i] = points[(Len(old) + i) - Len(old)]
      BY <1>9, <2>1, <3>2, ConcatProperties
    <3>4. QED
      BY <1>8, <3>2, <3>3
  <2>5. QED
    BY <2>1, <2>2, <2>3, <2>4
<1>11. \A i \in 1 .. Len(cloud) :
         i \in 1 .. Len(old) \/ \E j \in 1 .. dot_num : i = Len(old) + j
  <2> SUFFICES ASSUME NEW i \in 1 .. Len(cloud), i \notin 1 .. Len(old)
               PROVE  \E j \in 1 .. dot_num : i = Len(old) + j
    OBVIOUS
  <2>1. Len(old) \in Nat
    BY <1>9
  <2>2. i - Len(old) \in 1 .. dot_num /\ i = Len(old) + (i - Len(old))
    BY <1>4, <1>10, <2>1
  <2>3. QED
    BY <2>2
<1>12. PICK e : e = ExtParam(h)
  OBVIOUS
<1>13. handlers' = [handlers EXCEPT ![h] = [extrinsic |-> e, cloud |-> cloud]]
  BY <1>4, <1>5, <1>6, <1>8, <1>12 DEF PointPacket
<1>14. /\ e \in Extrinsics \cup {Missing}
       /\ e # Missing => h \in DOMAIN lidar_extrinsics_ /\ e = lidar_extrinsics_[h]
  BY <1>12, ExtParamIs DEF CloudInv
<1>15. handlers' \in [Handles -> [extrinsic : Extrinsics \cup {Missing}, cloud : Seq(CloudPoints)]]
  BY <1>4, <1>10, <1>13, <1>14
<1>16. /\ handlers'[h].cloud = cloud /\ handlers'[h].extrinsic = e
       /\ \A g \in Handles \ {h} : handlers'[g] = handlers[g]
  BY <1>4, <1>13
<1>17. ASSUME h \in DOMAIN lidar_extrinsics_
       PROVE  /\ CloudOf(Entry(h), cloud)
              /\ \A i \in 1 .. Len(cloud) : cloud[i].offset_time < now + dot_num
  <2>1. /\ CloudOf(Entry(h), old)
        /\ \A i \in 1 .. Len(old) : old[i].offset_time < now
    BY <1>5, <1>17 DEF CloudInv, HandlersInv
  <2>2. \A i \in 1 .. Len(old) : old[i].offset_time \in Nat
    BY <1>9, TimesAreNat
  <2>3. \A i \in 1 .. dot_num : now <= points[i].offset_time /\ points[i].offset_time < now + dot_num
    BY <1>4, <1>7
  <2>4. ASSUME NEW i \in 1 .. Len(cloud)
        PROVE  cloud[i].offset_time < now + dot_num
    <3>1. CASE i \in 1 .. Len(old)
      <4>1. cloud[i] = old[i] /\ old[i].offset_time < now /\ old[i].offset_time \in Nat
        BY <1>10, <2>1, <2>2, <3>1
      <4>2. \A n \in Nat : n < now => n < now + dot_num
        BY <1>4
      <4>3. QED
        BY <4>1, <4>2
    <3>2. CASE i \notin 1 .. Len(old)
      BY <1>10, <1>11, <2>3, <3>2
    <3>3. QED
      BY <3>1, <3>2
  <2>5. ASSUME NEW i \in 1 .. Len(cloud)
        PROVE  PlacedBy(Entry(h), cloud[i].data_type, cloud[i].at, cloud[i].offset_time)
    <3>1. CASE i \in 1 .. Len(old)
      BY <1>10, <2>1, <3>1 DEF CloudOf
    <3>2. CASE i \notin 1 .. Len(old)
      BY <1>7, <1>10, <1>11, <1>17, <3>2
    <3>3. QED
      BY <3>1, <3>2
  <2>6. ASSUME NEW i \in 1 .. Len(cloud)
        PROVE  cloud[1].offset_time <= cloud[i].offset_time
    <3>1. CASE Len(old) = 0
      <4>1. i \in 1 .. dot_num /\ 1 \in 1 .. dot_num /\ Len(old) + i = i /\ Len(old) + 1 = 1
        BY <1>4, <1>10, <3>1
      <4>2. cloud[1] = points[1] /\ cloud[i] = points[i]
        BY <1>10, <4>1
      <4>3. now + 1 - 1 <= now + i - 1
        BY <1>4, <4>1
      <4>4. QED
        BY <1>7, <4>1, <4>2, <4>3
    <3>2. CASE Len(old) # 0
      <4>1. 1 \in 1 .. Len(old)
        BY <1>9, <3>2
      <4>2. cloud[1] = old[1] /\ old[1].offset_time < now /\ old[1].offset_time \in Nat
        BY <1>10, <2>1, <2>2, <4>1
      <4>3. CASE i \in 1 .. Len(old)
        BY <1>10, <2>1, <4>2, <4>3 DEF CloudOf
      <4>4. CASE i \notin 1 .. Len(old)
        <5>1. PICK j \in 1 .. dot_num : i = Len(old) + j
          BY <1>11, <4>4
        <5>2. cloud[i].offset_time = now + j - 1
          BY <1>7, <1>10, <5>1
        <5>3. QED
          BY <1>4, <4>2, <5>2
      <4>5. QED
        BY <4>3, <4>4
    <3>3. QED
      BY <3>1, <3>2
  <2>7. QED
    BY <2>4, <2>5, <2>6 DEF CloudOf
<1>18. HandlersInv'
  <2>1. \A g \in Handles : handlers'[g].extrinsic # Missing =>
           g \in DOMAIN lidar_extrinsics_ /\ handlers'[g].extrinsic = lidar_extrinsics_[g]
    BY <1>14, <1>16 DEF CloudInv, HandlersInv
  <2>2. ASSUME NEW g \in Handles, g \in DOMAIN lidar_extrinsics_
        PROVE  /\ CloudOf(Entry(g), handlers'[g].cloud)
               /\ \A i \in 1 .. Len(handlers'[g].cloud) : handlers'[g].cloud[i].offset_time < now + dot_num
    <3>1. CASE g = h
      BY <1>16, <1>17, <2>2, <3>1
    <3>2. CASE g # h
      <4>1. handlers'[g] = handlers[g] /\ handlers[g].cloud \in Seq(CloudPoints)
        BY <1>4, <1>16, <3>2
      <4>2. /\ CloudOf(Entry(g), handlers[g].cloud)
            /\ \A i \in 1 .. Len(handlers[g].cloud) : /\ handlers[g].cloud[i].offset_time < now
                                                      /\ handlers[g].cloud[i].offset_time \in Nat
        BY <2>2, <4>1, TimesAreNat DEF CloudInv, HandlersInv
      <4>3. \A n \in Nat : n < now => n < now + dot_num
        BY <1>4
      <4>4. QED
        BY <4>1, <4>2, <4>3
    <3>3. QED
      BY <3>1, <3>2
  <2>3. now' \in Nat
    BY <1>1, <1>4
  <2>4. QED
    BY <1>1, <1>3, <1>15, <2>1, <2>2, <2>3 DEF HandlersInv
<1>19. QED
  BY <1>2, <1>18 DEF CloudInv

\* A frame takes the cloud as it is, with the time of its first point.
LEMMA FrameIsStored ==
  ASSUME CloudInv, NEW h \in Handles, StoragePointData(h)
  PROVE  CloudInv'
<1>1. UNCHANGED <<user_file, transfer_format_, use_multi_topic_, lidars_, lidar_extrinsics_,
                  sampled, sends, lastSent, now>>
  BY DEF StoragePointData, fileVars
<1>2. DevicesInv' /\ SampledInv' /\ PublishedInPlace'
  BY <1>1, DevicesStay, SampledStay, PublishedStay DEF CloudInv
<1>3. \A g : Entry(g)' = Entry(g)
  BY <1>1, EntriesStay
<1>4. /\ handlers \in [Handles -> [extrinsic : Extrinsics \cup {Missing}, cloud : Seq(CloudPoints)]]
      /\ stored \in [Handles -> Seq(Frames)] /\ now \in Nat
  BY DEF CloudInv, HandlersInv, StoredInv
<1>5. PICK cloud : cloud = handlers[h].cloud
  OBVIOUS
<1>6. cloud \in Seq(CloudPoints) /\ cloud # <<>> /\ Len(cloud) > 0
  BY <1>4, <1>5 DEF StoragePointData
<1>7. /\ handlers' = [handlers EXCEPT ![h].cloud = <<>>]
      /\ handlers' \in [Handles -> [extrinsic : Extrinsics \cup {Missing}, cloud : Seq(CloudPoints)]]
      /\ handlers'[h].cloud = <<>> /\ handlers'[h].extrinsic = handlers[h].extrinsic
      /\ \A g \in Handles \ {h} : handlers'[g] = handlers[g]
  <2>1. handlers' = [handlers EXCEPT ![h].cloud = <<>>]
    BY DEF StoragePointData
  <2>2. /\ handlers'[h] = [handlers[h] EXCEPT !.cloud = <<>>]
        /\ \A g \in Handles \ {h} : handlers'[g] = handlers[g]
        /\ handlers' = [g \in Handles |-> handlers'[g]]
    BY <1>4, <2>1
  <2>3. \A r \in [extrinsic : Extrinsics \cup {Missing}, cloud : Seq(CloudPoints)] :
          /\ [r EXCEPT !.cloud = <<>>] \in [extrinsic : Extrinsics \cup {Missing}, cloud : Seq(CloudPoints)]
          /\ [r EXCEPT !.cloud = <<>>].cloud = <<>>
          /\ [r EXCEPT !.cloud = <<>>].extrinsic = r.extrinsic
    <3>1. <<>> \in Seq(CloudPoints)
      OBVIOUS
    <3>2. QED
      BY <3>1
  <2>4. handlers[h] \in [extrinsic : Extrinsics \cup {Missing}, cloud : Seq(CloudPoints)]
    BY <1>4
  <2>5. \A g \in Handles : handlers'[g] \in [extrinsic : Extrinsics \cup {Missing}, cloud : Seq(CloudPoints)]
    BY <1>4, <2>2, <2>3, <2>4
  <2>6. handlers'[h].cloud = <<>> /\ handlers'[h].extrinsic = handlers[h].extrinsic
    BY <2>2, <2>3, <2>4
  <2>7. QED
    BY <2>1, <2>2, <2>5, <2>6
<1>8. HandlersInv'
  <2>1. 1 .. Len(<<>>) = {}
    OBVIOUS
  <2>2. \A g \in Handles : handlers'[g].extrinsic # Missing =>
           g \in DOMAIN lidar_extrinsics_ /\ handlers'[g].extrinsic = lidar_extrinsics_[g]
    BY <1>7 DEF CloudInv, HandlersInv
  <2>3. ASSUME NEW g \in Handles, g \in DOMAIN lidar_extrinsics_
        PROVE  /\ CloudOf(Entry(g), handlers'[g].cloud)
               /\ \A i \in 1 .. Len(handlers'[g].cloud) : handlers'[g].cloud[i].offset_time < now
    <3>1. CASE g = h
      BY <1>7, <2>1, <3>1 DEF CloudOf
    <3>2. CASE g # h
      BY <1>7, <2>3, <3>2 DEF CloudInv, HandlersInv
    <3>3. QED
      BY <3>1, <3>2
  <2>4. QED
    BY <1>1, <1>3, <1>4, <1>7, <2>2, <2>3 DEF HandlersInv
<1>9. PICK frame : frame = [base_time |-> GetLidarBaseTime(cloud), points |-> cloud]
  OBVIOUS
<1>10. frame \in Frames /\ frame.points = cloud /\ frame.base_time = cloud[1].offset_time
  <2>1. cloud[1] \in CloudPoints
    BY <1>6
  <2>2. cloud[1].offset_time \in Nat
    BY <2>1 DEF CloudPoints
  <2>3. QED
    BY <1>6, <1>9, <2>2 DEF GetLidarBaseTime, Frames
<1>11. h \in DOMAIN lidar_extrinsics_ => FrameOf(Entry(h), frame)
  BY <1>5, <1>6, <1>10 DEF CloudInv, HandlersInv, FrameOf
<1>12. stored' = stored \/ stored' = [stored EXCEPT ![h] = Append(@, frame)]
  BY <1>5, <1>9 DEF StoragePointData
<1>13. CASE stored' = stored
  <2>1. StoredInv'
    BY <1>1, <1>13, StoredStay DEF CloudInv
  <2>2. QED
    BY <1>2, <1>8, <2>1 DEF CloudInv
<1>14. CASE stored' = [stored EXCEPT ![h] = Append(@, frame)]
  <2>1. PICK ring : ring = stored[h]
    OBVIOUS
  <2>2. ring \in Seq(Frames)
    BY <1>4, <2>1
  <2>3. /\ stored' \in [Handles -> Seq(Frames)] /\ stored'[h] = Append(ring, frame)
        /\ \A g \in Handles \ {h} : stored'[g] = stored[g]
    BY <1>4, <1>10, <1>14, <2>1, <2>2
  <2>4. \A i \in 1 .. Len(Append(ring, frame)) :
          Append(ring, frame)[i] = frame \/ (i \in 1 .. Len(ring) /\ Append(ring, frame)[i] = ring[i])
    BY <2>2
  <2>5. ASSUME NEW g \in Handles, g \in DOMAIN lidar_extrinsics_
        PROVE  \A i \in 1 .. Len(stored'[g]) : FrameOf(Entry(g), stored'[g][i])
    <3>1. \A i \in 1 .. Len(stored[g]) : FrameOf(Entry(g), stored[g][i])
      BY <2>5 DEF CloudInv, StoredInv
    <3>2. CASE g = h
      BY <1>11, <2>1, <2>3, <2>4, <2>5, <3>1, <3>2
    <3>3. CASE g # h
      BY <2>3, <3>1, <3>3
    <3>4. QED
      BY <3>2, <3>3
  <2>6. StoredInv'
    BY <1>1, <1>3, <2>3, <2>5 DEF StoredInv
  <2>7. QED
    BY <1>2, <1>8, <2>6 DEF CloudInv
<1>15. QED
  BY <1>12, <1>13, <1>14

(* One message about lidar h.                                              *)
PublishedOf(h, m) ==
  Defined(h) # {} /\ m.type # "imu" =>
    /\ use_multi_topic_ => m.topic = <<"livox/lidar_", h>>
    /\ m.type = "custom" => m.data.lidar_id = h
    /\ \A i \in DOMAIN m.data.points :
         PlacedBy(Entry(h), m.data.points[i].data_type, m.data.points[i].at,
                  IF m.type = "custom" THEN m.data.timebase + m.data.points[i].offset_time
                  ELSE m.data.points[i].timestamp)

LEMMA PublishedNext ==
  ASSUME UNCHANGED <<user_file, use_multi_topic_>>, NEW h, NEW messages,
         lastSent' = [messages |-> messages, of |-> h],
         \A m \in messages : PublishedOf(h, m)
  PROVE  PublishedInPlace'
<1>1. \A g : Defined(g)' = Defined(g) /\ Entry(g)' = Entry(g)
  BY EntriesStay
<1>2. \A g, type : InEffect(g, type)' = InEffect(g, type)
  BY <1>1 DEF InEffect, SameUnit
<1>3. \A g, p, t : InPlace(g, p, t)' <=> InPlace(g, p, t)
  BY <1>1, <1>2 DEF InPlace
<1>4. \A g, p, t : InPlace(g, p, t)' <=> PlacedBy(Entry(g), p.data_type, p.at, t)
  BY <1>3, InPlaceIs
<1>5. lastSent'.messages = messages /\ lastSent'.of = h
  OBVIOUS
<1>6. \A m \in messages :
        LET p(i) == m.data.points[i]
            time(i) == IF m.type = "custom" THEN m.data.timebase + p(i).offset_time ELSE p(i).timestamp
        IN  Defined(h)' # {} /\ m.type # "imu" =>
              /\ use_multi_topic_' => m.topic = <<"livox/lidar_", h>>
              /\ m.type = "custom" => m.data.lidar_id = h
              /\ \A i \in DOMAIN m.data.points : InPlace(h, p(i), time(i))'
  BY <1>1, <1>4 DEF PublishedOf
<1>7. QED
  BY <1>5, <1>6 DEF PublishedInPlace

(* Both formats give back the time of each point.                          *)
LEMMA MessagesAreTrue ==
  ASSUME CloudInv, NEW h \in Handles, h \in DOMAIN lidar_extrinsics_,
         NEW device, device.handle = h, NEW frame \in Frames, FrameOf(Entry(h), frame)
  PROVE  PublishedOf(h, Pcd2(frame, device)) /\ PublishedOf(h, Custom(frame, device))
<1>1. PICK points : points = frame.points
  OBVIOUS
<1>2. PICK base : base = frame.base_time
  OBVIOUS
<1>3. PICK c : c = Entry(h)
  OBVIOUS
<1>4. points \in Seq(CloudPoints) /\ base \in Nat
  BY <1>1, <1>2 DEF Frames
<1>5. ASSUME NEW i \in DOMAIN points
      PROVE  /\ points[i].offset_time \in Nat /\ base <= points[i].offset_time
             /\ (points[i].offset_time - base) % OffsetRange = points[i].offset_time - base
             /\ PlacedBy(c, points[i].data_type, points[i].at, points[i].offset_time)
  <2>1. i \in 1 .. Len(points)
    BY <1>4
  <2>2. points[i].offset_time \in Nat
    BY <1>4, <2>1, TimesAreNat
  <2>3. /\ base <= points[i].offset_time
        /\ PlacedBy(c, points[i].data_type, points[i].at, points[i].offset_time)
    BY <1>1, <1>2, <1>3, <2>1 DEF FrameOf, CloudOf
  <2>4. points[i].offset_time + 1 \in 1 .. Len(Scene)
    BY <2>3, CloudAssumption DEF PlacedBy
  <2>5. OffsetRange \in Nat \ {0} /\ OffsetRange >= Len(Scene) /\ Len(Scene) \in Nat
    BY CloudAssumption
  <2>6. PICK d : d = points[i].offset_time - base
    OBVIOUS
  <2>7. d \in Nat /\ d < OffsetRange
    BY <1>4, <2>2, <2>3, <2>4, <2>5, <2>6
  <2>8. d % OffsetRange = d
    BY <2>5, <2>7, SMT
  <2>9. QED
    BY <2>2, <2>3, <2>6, <2>8
<1>6. use_multi_topic_ => CurrentTopic(device) = <<"livox/lidar_", h>> /\
                          CurrentTopic2(device) = <<"livox/lidar_", h>>
  BY DEF CurrentTopic, CurrentTopic2
<1>7. PublishedOf(h, Pcd2(frame, device))
  <2>1. PICK m : m = Pcd2(frame, device)
    OBVIOUS
  <2>2. /\ m.type = "pcd2"
        /\ m.data.points = [i \in DOMAIN points |->
                              [at |-> points[i].at, timestamp |-> points[i].offset_time,
                               data_type |-> points[i].data_type]]
    BY <1>1, <2>1 DEF Pcd2, InitPointcloud2Msg
  <2>3. use_multi_topic_ => m.topic = <<"livox/lidar_", h>>
    BY <1>6, <2>1 DEF Pcd2
  <2>4. \A i \in DOMAIN m.data.points :
          /\ i \in DOMAIN points /\ m.data.points[i].at = points[i].at
          /\ m.data.points[i].timestamp = points[i].offset_time
          /\ m.data.points[i].data_type = points[i].data_type
    BY <2>2
  <2>5. PublishedOf(h, m)
    BY <1>3, <1>5, <2>2, <2>3, <2>4 DEF PublishedOf
  <2>6. QED
    BY <2>1, <2>5
<1>8. PublishedOf(h, Custom(frame, device))
  <2>1. PICK m : m = Custom(frame, device)
    OBVIOUS
  <2>2. /\ m.type = "custom" /\ m.data.timebase = base /\ m.data.lidar_id = h
        /\ m.data.points = [i \in DOMAIN points |->
                              [at |-> points[i].at,
                               offset_time |-> (points[i].offset_time - base) % OffsetRange,
                               data_type |-> points[i].data_type]]
    BY <1>1, <1>2, <2>1 DEF Custom, InitCustomMsg, FillPointsToCustomMsg
  <2>3. use_multi_topic_ => m.topic = <<"livox/lidar_", h>>
    BY <1>6, <2>1 DEF Custom
  <2>4. ASSUME NEW i \in DOMAIN m.data.points
        PROVE  /\ i \in DOMAIN points /\ m.data.points[i].at = points[i].at
               /\ m.data.points[i].data_type = points[i].data_type
               /\ m.data.timebase + m.data.points[i].offset_time = points[i].offset_time
    <3>1. /\ i \in DOMAIN points /\ m.data.points[i].at = points[i].at
          /\ m.data.points[i].data_type = points[i].data_type
          /\ m.data.points[i].offset_time = (points[i].offset_time - base) % OffsetRange
      BY <2>2
    <3>2. m.data.points[i].offset_time = points[i].offset_time - base /\ points[i].offset_time \in Nat
      BY <1>5, <3>1
    <3>3. base + (points[i].offset_time - base) = points[i].offset_time
      BY <1>4, <3>2
    <3>4. QED
      BY <2>2, <3>1, <3>2, <3>3
  <2>5. PublishedOf(h, m)
    BY <1>3, <1>5, <2>2, <2>3, <2>4 DEF PublishedOf
  <2>6. QED
    BY <2>1, <2>5
<1>9. QED
  BY <1>7, <1>8

\* PublishFrame finds its lidar by the index it took from the list.
LEMMA FrameIsPublished ==
  ASSUME CloudInv, NEW h \in Handles, PublishFrame(h)
  PROVE  CloudInv'
<1>1. /\ UNCHANGED <<user_file, transfer_format_, use_multi_topic_, lidars_, lidar_extrinsics_,
                     sampled, sends, handlers, now>>
      /\ h \in sampled /\ stored[h] # <<>> /\ transfer_format_ # "pcl"
      /\ stored' = [stored EXCEPT ![h] = Tail(@)]
  BY DEF PublishFrame, fileVars
<1>2. DevicesInv' /\ HandlersInv' /\ SampledInv'
  BY <1>1, DevicesStay, HandlersStay, SampledStay DEF CloudInv
<1>3. \A g : Entry(g)' = Entry(g)
  BY <1>1, EntriesStay
<1>4. PICK ring : ring = stored[h]
  OBVIOUS
<1>5. stored \in [Handles -> Seq(Frames)] /\ ring \in Seq(Frames) /\ ring # <<>>
  BY <1>1, <1>4 DEF CloudInv, StoredInv
<1>6. /\ Tail(ring) \in Seq(Frames) /\ ring[1] \in Frames /\ Head(ring) = ring[1]
      /\ 1 \in 1 .. Len(ring)
      /\ \A i \in 1 .. Len(Tail(ring)) : Tail(ring)[i] = ring[i + 1] /\ i + 1 \in 1 .. Len(ring)
  BY <1>5
<1>7. /\ stored' \in [Handles -> Seq(Frames)] /\ stored'[h] = Tail(ring)
      /\ \A g \in Handles \ {h} : stored'[g] = stored[g]
  BY <1>1, <1>4, <1>5, <1>6
<1>8. StoredInv'
  <2>1. ASSUME NEW g \in Handles, g \in DOMAIN lidar_extrinsics_
        PROVE  \A i \in 1 .. Len(stored'[g]) : FrameOf(Entry(g), stored'[g][i])
    <3>1. \A i \in 1 .. Len(stored[g]) : FrameOf(Entry(g), stored[g][i])
      BY <2>1 DEF CloudInv, StoredInv
    <3>2. CASE g = h
      BY <1>4, <1>6, <1>7, <3>1, <3>2
    <3>3. CASE g # h
      BY <1>7, <3>1, <3>3
    <3>4. QED
      BY <3>2, <3>3
  <2>2. QED
    BY <1>1, <1>3, <1>7, <2>1 DEF StoredInv
<1>9. PublishedInPlace'
  <2>1. CASE CreatePublisherFails
    <3>1. lastSent' = lastSent
      BY <2>1 DEF PublishFrame
    <3>2. QED
      BY <1>1, <3>1, PublishedStay DEF CloudInv
  <2>2. CASE ~CreatePublisherFails
    <3>1. PICK device : device = lidars_[IndexOf(lidars_, h)]
      OBVIOUS
    <3>2. PICK frame : frame = Head(ring)
      OBVIOUS
    <3>3. lastSent' = [messages |-> Messages(frame, device), of |-> h]
      BY <1>4, <2>2, <3>1, <3>2 DEF PublishFrame
    <3>4. PICK i \in 1 .. Len(lidars_) : lidars_[i].key = h
      BY <1>1 DEF CloudInv, SampledInv
    <3>5. IndexOf(lidars_, h) = i
      <4>1. lidars_ \in Seq(Keyed) /\ Len(lidars_) \in Nat /\ KeysDiffer(lidars_)
        BY DEF CloudInv, DevicesInv
      <4>2. QED
        BY <3>4, <4>1, IndexOfKey
    <3>6. ASSUME Defined(h) # {}
          PROVE  /\ device.handle = h /\ h \in DOMAIN lidar_extrinsics_
                 /\ frame \in Frames /\ FrameOf(Entry(h), frame)
      <4>1. device.handle = h /\ h \in DOMAIN lidar_extrinsics_
        BY <3>1, <3>4, <3>5, <3>6 DEF CloudInv, DevicesInv
      <4>2. FrameOf(Entry(h), ring[1])
        BY <1>4, <1>6, <4>1 DEF CloudInv, StoredInv
      <4>3. QED
        BY <1>6, <3>2, <4>1, <4>2
    <3>7. PublishedOf(h, Pcd2(frame, device)) /\ PublishedOf(h, Custom(frame, device))
      <4>1. CASE Defined(h) # {}
        BY <3>6, <4>1, MessagesAreTrue
      <4>2. CASE Defined(h) = {}
        BY <4>2 DEF PublishedOf
      <4>3. QED
        BY <4>1, <4>2
    <3>8. Messages(frame, device) \subseteq {Pcd2(frame, device), Custom(frame, device)}
      <4>1. transfer_format_ \in {"pcd2", "custom", "all"}
        BY <1>1, CloudAssumption DEF CloudInv, SampledInv
      <4>2. QED
        BY <4>1 DEF Messages
    <3>9. \A m \in Messages(frame, device) : PublishedOf(h, m)
      BY <3>7, <3>8
    <3>10. QED
      BY <1>1, <3>3, <3>9, PublishedNext
  <2>3. QED
    BY <2>1, <2>2
<1>10. QED
  BY <1>2, <1>8, <1>9 DEF CloudInv

\* An imu message holds no points.
LEMMA ImuIsPublished ==
  ASSUME CloudInv, NEW h \in Handles, PublishImuData(h)
  PROVE  CloudInv'
<1>1. UNCHANGED <<user_file, transfer_format_, use_multi_topic_, lidars_, lidar_extrinsics_,
                  sampled, sends, handlers, stored, now>>
  BY DEF PublishImuData, fileVars
<1>2. DevicesInv' /\ HandlersInv' /\ StoredInv' /\ SampledInv'
  BY <1>1, DevicesStay, HandlersStay, StoredStay, SampledStay DEF CloudInv
<1>3. PICK imu : imu = [type |-> "imu", topic |-> CurrentImuTopic(lidars_[IndexOf(lidars_, h)]),
                         data |-> [turn |-> turn_global]]
  OBVIOUS
<1>4. lastSent' = [messages |-> {imu}, of |-> h] /\ imu.type = "imu"
  BY <1>3 DEF PublishImuData
<1>5. \A m \in {imu} : PublishedOf(h, m)
  BY <1>4 DEF PublishedOf
<1>6. PublishedInPlace'
  BY <1>1, <1>4, <1>5, PublishedNext
<1>7. QED
  BY <1>2, <1>6 DEF CloudInv

\* Each step keeps the invariant.
LEMMA CloudInvStep == CloudInv /\ [CloudNext]_cloudVars => CloudInv'
<1> SUFFICES ASSUME CloudInv, [CloudNext]_cloudVars PROVE CloudInv'
  OBVIOUS
<1>1. CASE UNCHANGED cloudVars
  <2>1. UNCHANGED <<user_file, transfer_format_, use_multi_topic_, lidars_, lidar_extrinsics_,
                    sampled, sends, handlers, stored, lastSent, now>>
    BY <1>1 DEF cloudVars, fileVars
  <2>2. QED
    BY <2>1, DevicesStay, HandlersStay, StoredStay, SampledStay, PublishedStay DEF CloudInv
<1>2. CASE CloudNext
  BY <1>2, LidarShowsUp, LidarChangesType, PacketArrives, FrameIsStored, FrameIsPublished, ImuIsPublished
     DEF CloudNext
<1>3. QED
  BY <1>1, <1>2

(* Of what each device, handler, cloud and frame belongs to, in every      *)
(* behaviour (from InitLivoxLidar to Lddc's publishers).                   *)
THEOREM CloudInvariant == CloudSpec => []CloudInv
<1>1. QED
  BY CloudInvInit, CloudInvStep, PTL DEF CloudSpec

(* For any configuration files with well-formed entries, any scene, any    *)
(* number of lidars, any size of a packet, and packets in whatever type    *)
(* the lidar was left in: every point that is published of a lidar of the  *)
(* file is in its place (where packet and entry differ in their unit, in   *)
(* the place that the code's parameters give it), at its time, and in a    *)
(* message of its own lidar.                                               *)
THEOREM CloudsArePublishedInPlace == CloudSpec => []PublishedInPlace
<1>1. CloudInv => PublishedInPlace
  BY DEF CloudInv
<1>2. QED
  BY <1>1, CloudInvariant, PTL

==============================================================================
