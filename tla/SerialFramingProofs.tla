-------------------------- MODULE SerialFramingProofs --------------------------
(***************************************************************************)
(* Proofs about how the two serial nodes cut the bytes of their ports into *)
(* frames: the search of referee_serial_bridge and receiveData of          *)
(* standard_robot_pp_ros2.                                                 *)
(***************************************************************************)
EXTENDS SerialReceive, RefereeBridge, SequenceTheorems, TLAPS

(***************************************************************************)
(* The bytes on their way are those that the node holds and then those in  *)
(* its port.  What is known of them does not depend on where the first end *)
(* and the second begin: F is the frame of each one (-1: noise), I its     *)
(* index, z the size of each frame, hits the frames that lost bytes, last  *)
(* the last frame that was sent.                                           *)
(***************************************************************************)
TotalOf(b, l) == Len(b) + Len(l)
ByteOf(b, l, p) == IF p <= Len(b) THEN b[p] ELSE l[p - Len(b)]
FramesOf(b, l) == [p \in 1 .. TotalOf(b, l) |-> ByteOf(b, l, p)[1]]
IndexesOf(b, l) == [p \in 1 .. TotalOf(b, l) |-> ByteOf(b, l, p)[2]]
ElementsOf(s) == {s[m] : m \in DOMAIN s}

SizesAre(z, last) == \A k \in 0 .. last : z[k] \in Nat /\ z[k] >= 1

(* Frame 0 is never whole: its first byte came before the node started.    *)
BytesAre(z, F, I, n, last) ==
  \A p \in 1 .. n :
    /\ F[p] \in Int /\ I[p] \in Int
    /\ \/ F[p] = -1
       \/ F[p] \in 0 .. last /\ I[p] \in 1 .. z[F[p]] /\ (F[p] = 0 => I[p] # 1)

Sorted(F, I, n) ==
  \A p, q \in 1 .. n :
    p < q /\ F[p] >= 0 /\ F[q] >= 0 => F[p] < F[q] \/ (F[p] = F[q] /\ I[p] < I[q])

(* The rest of a frame that no byte was lost of follows each of its bytes. *)
Together(z, F, I, n, hits) ==
  \A p \in 1 .. n :
    F[p] >= 0 /\ F[p] \notin hits =>
      \A j \in 0 .. z[F[p]] - I[p] : p + j <= n /\ F[p + j] = F[p] /\ I[p + j] = I[p] + j

(* The end of such a frame comes right before the next one, and the last   *)
(* one that was sent comes at the end.                                     *)
Behind(z, F, I, n, hits) ==
  \A p \in 1 .. n :
    F[p] >= 1 /\ I[p] = 1 /\ F[p] - 1 \notin hits =>
      \A j \in 1 .. z[F[p] - 1] :
        j < p => F[p - j] = F[p] - 1 /\ I[p - j] = z[F[p] - 1] + 1 - j
Ends(z, F, I, n, hits, last) ==
  last \notin hits =>
    \A j \in 1 .. z[last] : j <= n => F[n + 1 - j] = last /\ I[n + 1 - j] = z[last] + 1 - j

InOrder(z, F, I, n, hits, last) ==
  /\ BytesAre(z, F, I, n, last) /\ Sorted(F, I, n)
  /\ Together(z, F, I, n, hits) /\ Behind(z, F, I, n, hits) /\ Ends(z, F, I, n, hits, last)

Begins(F, I, n, k) == \E p \in 1 .. n : F[p] = k /\ I[p] = 1

(* Bytes F, I became G, J: some were dropped, a frame followed, a byte was *)
(* lost or turned into noise.                                              *)
DroppedFrom(F, I, n, c, G, J) == \A p \in 1 .. n - c : G[p] = F[p + c] /\ J[p] = I[p + c]
Followed(z, F, I, n, k, G, J) ==
  /\ \A p \in 1 .. n : G[p] = F[p] /\ J[p] = I[p]
  /\ \A i \in 1 .. z[k] : G[n + i] = k /\ J[n + i] = i
LostAt(F, I, n, d, G, J) ==
  /\ \A p \in 1 .. d - 1 : G[p] = F[p] /\ J[p] = I[p]
  /\ \A p \in d .. n - 1 : G[p] = F[p + 1] /\ J[p] = I[p + 1]
NoiseAt(F, I, n, d, G, J) ==
  /\ \A p \in 1 .. n : p # d => G[p] = F[p] /\ J[p] = I[p]
  /\ G[d] = -1 /\ J[d] \in Int

(* The same of what is held and of the port.                               *)
ReadInto(b, l, n, b2, l2) ==
  /\ Len(b2) = Len(b) + n /\ Len(l2) = Len(l) - n
  /\ \A p \in 1 .. Len(b) : b2[p] = b[p]
  /\ \A p \in 1 .. n : b2[Len(b) + p] = l[p]
  /\ \A p \in 1 .. Len(l) - n : l2[p] = l[p + n]
CutTo(b, c, b2) == Len(b2) = Len(b) - c /\ \A p \in 1 .. Len(b) - c : b2[p] = b[p + c]
ExtendedBy(l, size, k, l2) ==
  /\ Len(l2) = Len(l) + size
  /\ \A p \in 1 .. Len(l) : l2[p] = l[p]
  /\ \A i \in 1 .. size : l2[Len(l) + i] = <<k, i>>
Without(l, i, l2) ==
  /\ Len(l2) = Len(l) - 1
  /\ \A p \in 1 .. i - 1 : l2[p] = l[p]
  /\ \A p \in i .. Len(l) - 1 : l2[p] = l[p + 1]
Changed(l, i, l2) ==
  /\ Len(l2) = Len(l) /\ l2[i][1] = -1 /\ l2[i][2] \in Int
  /\ \A p \in 1 .. Len(l) : p # i => l2[p] = l[p]

(* Bytes dropped from the front.                                           *)
LEMMA DropInOrder ==
  ASSUME NEW z, NEW n \in Nat, NEW c \in 0 .. n, NEW F, NEW I, NEW G, NEW J, NEW hits, NEW last \in Nat,
         SizesAre(z, last), InOrder(z, F, I, n, hits, last), DroppedFrom(F, I, n, c, G, J)
  PROVE  InOrder(z, G, J, n - c, hits, last)
  <1> USE DEF DroppedFrom
  <1>0. \A p \in 1 .. n - c : p + c \in 1 .. n
    OBVIOUS
  <1>1. BytesAre(z, G, J, n - c, last)
    BY <1>0 DEF InOrder, BytesAre
  <1>2. Sorted(G, J, n - c)
    BY <1>0 DEF InOrder, Sorted
  <1>3. Together(z, G, J, n - c, hits)
    <2> SUFFICES ASSUME NEW p \in 1 .. n - c, G[p] >= 0, G[p] \notin hits, NEW j \in 0 .. z[G[p]] - J[p]
                 PROVE  p + j <= n - c /\ G[p + j] = G[p] /\ J[p + j] = J[p] + j
      BY DEF Together
    <2>1. p + c + j <= n /\ F[p + c + j] = F[p + c] /\ I[p + c + j] = I[p + c] + j
      BY <1>0 DEF InOrder, Together
    <2> QED
      BY <2>1
  <1>4. Behind(z, G, J, n - c, hits)
    <2> SUFFICES ASSUME NEW p \in 1 .. n - c, G[p] >= 1, J[p] = 1, G[p] - 1 \notin hits,
                        NEW j \in 1 .. z[G[p] - 1], j < p
                 PROVE  G[p - j] = G[p] - 1 /\ J[p - j] = z[G[p] - 1] + 1 - j
      BY DEF Behind
    <2>1. F[p + c - j] = F[p + c] - 1 /\ I[p + c - j] = z[F[p + c] - 1] + 1 - j
      BY <1>0 DEF InOrder, Behind
    <2>2. p - j \in 1 .. n - c /\ (p - j) + c = p + c - j
      OBVIOUS
    <2> QED
      BY <2>1, <2>2
  <1>5. Ends(z, G, J, n - c, hits, last)
    <2> SUFFICES ASSUME last \notin hits, NEW j \in 1 .. z[last], j <= n - c
                 PROVE  G[n - c + 1 - j] = last /\ J[n - c + 1 - j] = z[last] + 1 - j
      BY DEF Ends
    <2>1. F[n + 1 - j] = last /\ I[n + 1 - j] = z[last] + 1 - j
      BY DEF InOrder, Ends
    <2>2. n - c + 1 - j \in 1 .. n - c /\ (n - c + 1 - j) + c = n + 1 - j
      OBVIOUS
    <2> QED
      BY <2>1, <2>2
  <1> QED
    BY <1>1, <1>2, <1>3, <1>4, <1>5 DEF InOrder

LEMMA MoreHits ==
  ASSUME NEW z, NEW n, NEW F, NEW I, NEW hits, NEW more, NEW last,
         InOrder(z, F, I, n, hits, last), \A k \in hits : k \in more
  PROVE  InOrder(z, F, I, n, more, last)
  BY DEF InOrder, Together, Behind, Ends

(* A frame sent.                                                           *)
LEMMA SendInOrder ==
  ASSUME NEW z, NEW n \in Nat, NEW F, NEW I, NEW G, NEW J, NEW hits, NEW last \in Nat,
         SizesAre(z, last + 1), InOrder(z, F, I, n, hits, last), last + 1 \notin hits,
         Followed(z, F, I, n, last + 1, G, J)
  PROVE  InOrder(z, G, J, n + z[last + 1], hits, last + 1)
  <1> USE DEF Followed
  <1> DEFINE size == z[last + 1]
  <1>0. size \in Nat /\ size >= 1 /\ \A k \in 0 .. last : z[k] \in Nat
    BY DEF SizesAre
  <1>01. \A p \in n + 1 .. n + size : G[p] = last + 1 /\ J[p] = p - n
    <2> TAKE p \in n + 1 .. n + size
    <2>1. p - n \in 1 .. size /\ n + (p - n) = p
      BY <1>0
    <2> QED
      BY <2>1
  <1>02. \A p \in 1 .. n + size : p \in 1 .. n \/ p \in n + 1 .. n + size
    BY <1>0
  <1>1. BytesAre(z, G, J, n + size, last + 1)
    <2>1. \A p \in 1 .. n :
            /\ G[p] \in Int /\ J[p] \in Int
            /\ \/ G[p] = -1
               \/ G[p] \in 0 .. last + 1 /\ J[p] \in 1 .. z[G[p]] /\ (G[p] = 0 => J[p] # 1)
      BY DEF InOrder, BytesAre
    <2>2. \A p \in n + 1 .. n + size :
            G[p] \in Int /\ J[p] \in 1 .. size /\ G[p] \in 0 .. last + 1 /\ G[p] # 0 /\ G[p] = last + 1
      BY <1>0, <1>01
    <2> QED
      BY <1>02, <2>1, <2>2 DEF BytesAre
  <1>2. Sorted(G, J, n + size)
    BY <1>0, <1>01, <1>02 DEF InOrder, BytesAre, Sorted
  <1>3. Together(z, G, J, n + size, hits)
    <2> SUFFICES ASSUME NEW p \in 1 .. n + size, G[p] >= 0, G[p] \notin hits, NEW j \in 0 .. z[G[p]] - J[p]
                 PROVE  p + j <= n + size /\ G[p + j] = G[p] /\ J[p + j] = J[p] + j
      BY DEF Together
    <2>1. CASE p \in 1 .. n
      <3>1. p + j <= n /\ F[p + j] = F[p] /\ I[p + j] = I[p] + j
        BY <2>1 DEF InOrder, Together
      <3>2. p + j \in 1 .. n
        BY <2>1, <3>1
      <3> QED
        BY <1>0, <2>1, <3>1, <3>2
    <2>2. CASE p \in n + 1 .. n + size
      <3>1. G[p] = last + 1 /\ J[p] = p - n
        BY <1>01, <2>2
      <3>2. p + j \in n + 1 .. n + size
        BY <1>0, <2>2, <3>1
      <3> QED
        BY <1>0, <1>01, <2>2, <3>1, <3>2
    <2> QED
      BY <1>02, <2>1, <2>2
  <1>4. Behind(z, G, J, n + size, hits)
    <2> SUFFICES ASSUME NEW p \in 1 .. n + size, G[p] >= 1, J[p] = 1, G[p] - 1 \notin hits,
                        NEW j \in 1 .. z[G[p] - 1], j < p
                 PROVE  G[p - j] = G[p] - 1 /\ J[p - j] = z[G[p] - 1] + 1 - j
      BY DEF Behind
    <2>1. CASE p \in 1 .. n
      <3>1. F[p - j] = F[p] - 1 /\ I[p - j] = z[F[p] - 1] + 1 - j
        BY <2>1 DEF InOrder, Behind
      <3>2. p - j \in 1 .. n
        BY <2>1
      <3> QED
        BY <1>0, <2>1, <3>1, <3>2
    <2>2. CASE p \in n + 1 .. n + size
      <3>1. p = n + 1 /\ G[p] = last + 1 /\ G[p] - 1 = last
        BY <1>0, <1>01, <2>2
      <3>2. F[n + 1 - j] = last /\ I[n + 1 - j] = z[last] + 1 - j
        BY <3>1 DEF InOrder, Ends
      <3>3. n + 1 - j \in 1 .. n
        BY <3>1
      <3> QED
        BY <1>0, <3>1, <3>2, <3>3
    <2> QED
      BY <1>02, <2>1, <2>2
  <1>5. Ends(z, G, J, n + size, hits, last + 1)
    <2> SUFFICES ASSUME NEW j \in 1 .. size
                 PROVE  G[n + size + 1 - j] = last + 1 /\ J[n + size + 1 - j] = size + 1 - j
      BY DEF Ends
    <2>1. size + 1 - j \in 1 .. size /\ n + size + 1 - j = n + (size + 1 - j)
      BY <1>0
    <2> QED
      BY <2>1
  <1> QED
    BY <1>1, <1>2, <1>3, <1>4, <1>5 DEF InOrder

(* A byte lost.                                                            *)
LEMMA LossInOrder ==
  ASSUME NEW z, NEW n \in Nat, NEW d \in 1 .. n, NEW F, NEW I, NEW G, NEW J, NEW hits, NEW more,
         NEW last \in Nat, SizesAre(z, last), InOrder(z, F, I, n, hits, last), LostAt(F, I, n, d, G, J),
         \A k \in hits : k \in more, F[d] >= 0 => F[d] \in more
  PROVE  InOrder(z, G, J, n - 1, more, last)
  <1> USE DEF LostAt
  <1> DEFINE o(p) == IF p < d THEN p ELSE p + 1
  <1>0. \A p \in 1 .. n - 1 : o(p) \in 1 .. n /\ o(p) # d /\ G[p] = F[o(p)] /\ J[p] = I[o(p)]
    OBVIOUS
  <1>01. \A p, q \in 1 .. n - 1 : p < q => o(p) < o(q)
    OBVIOUS
  <1>02. d \in Nat /\ \A k \in 0 .. last : z[k] \in Nat
    BY DEF SizesAre
  <1>03. \A p \in Int : (p < d => o(p) = p) /\ (p >= d => o(p) = p + 1)
    OBVIOUS
  <1>05. \A p \in 1 .. n : F[p] \in Int /\ I[p] \in Int /\ (F[p] >= 0 => F[p] \in 0 .. last /\ I[p] \in 1 .. z[F[p]])
    BY DEF InOrder, BytesAre
  <1>04. \A k : k \notin more => k \notin hits /\ (F[d] < 0 \/ k # F[d])
    BY <1>05
  <1> HIDE DEF o
  <1>1. BytesAre(z, G, J, n - 1, last)
    BY <1>0 DEF InOrder, BytesAre
  <1>2. Sorted(G, J, n - 1)
    BY <1>0, <1>01 DEF InOrder, Sorted
  <1>3. Together(z, G, J, n - 1, more)
    <2> SUFFICES ASSUME NEW p \in 1 .. n - 1, G[p] >= 0, G[p] \notin more, NEW j \in 0 .. z[G[p]] - J[p]
                 PROVE  p + j <= n - 1 /\ G[p + j] = G[p] /\ J[p + j] = J[p] + j
      BY DEF Together
    <2>0. F[o(p)] = G[p] /\ I[o(p)] = J[p] /\ o(p) \in 1 .. n /\ F[o(p)] \notin hits /\ j \in Nat
      BY <1>0, <1>02, <1>05
    <2>1. \A m \in 0 .. j : o(p) + m <= n /\ F[o(p) + m] = F[o(p)] /\ I[o(p) + m] = I[o(p)] + m
      <3> TAKE m \in 0 .. j
      <3>1. m \in 0 .. z[F[o(p)]] - I[o(p)]
        BY <1>02, <1>05, <2>0
      <3> QED
        BY <2>0, <3>1 DEF InOrder, Together
    <2>2. \A m \in 0 .. j : o(p) + m # d
      BY <1>04, <2>0, <2>1
    <2>3. o(p) < d => o(p) + j < d
      <3> SUFFICES ASSUME o(p) < d, o(p) + j >= d
                   PROVE  FALSE
        BY <2>0, <1>02
      <3>1. d - o(p) \in 0 .. j /\ o(p) + (d - o(p)) = d
        BY <2>0, <1>02
      <3> QED
        BY <2>2, <3>1
    <2>5. j \in 0 .. j
      BY <2>0
    <2>4. p + j \in 1 .. n - 1 /\ o(p + j) = o(p) + j
      BY <1>0, <1>02, <1>03, <2>0, <2>1, <2>3, <2>5
    <2> QED
      BY <1>0, <2>0, <2>1, <2>4, <2>5
  <1>4. Behind(z, G, J, n - 1, more)
    <2> SUFFICES ASSUME NEW p \in 1 .. n - 1, G[p] >= 1, J[p] = 1, G[p] - 1 \notin more,
                        NEW j \in 1 .. z[G[p] - 1], j < p
                 PROVE  G[p - j] = G[p] - 1 /\ J[p - j] = z[G[p] - 1] + 1 - j
      BY DEF Behind
    <2>0. F[o(p)] = G[p] /\ I[o(p)] = 1 /\ o(p) \in 1 .. n /\ F[o(p)] - 1 \notin hits /\ j \in Nat
          /\ F[o(p)] \in 1 .. last
      BY <1>0, <1>02, <1>05
    <2>1. \A m \in 1 .. j :
            m < o(p) /\ F[o(p) - m] = F[o(p)] - 1 /\ I[o(p) - m] = z[F[o(p)] - 1] + 1 - m
      <3> TAKE m \in 1 .. j
      <3>1. m \in 1 .. z[F[o(p)] - 1] /\ m < o(p)
        BY <1>02, <1>03, <2>0
      <3> QED
        BY <2>0, <3>1 DEF InOrder, Behind
    <2>2. \A m \in 1 .. j : o(p) - m # d
      BY <1>04, <2>0, <2>1
    <2>3. o(p) > d => o(p) - j > d
      <3> SUFFICES ASSUME o(p) > d, o(p) - j <= d
                   PROVE  FALSE
        BY <2>0, <1>02
      <3>1. o(p) - d \in 1 .. j /\ o(p) - (o(p) - d) = d
        BY <2>0, <1>02
      <3> QED
        BY <2>2, <3>1
    <2>4. p - j \in 1 .. n - 1 /\ o(p - j) = o(p) - j
      BY <1>0, <1>02, <1>03, <2>0, <2>3
    <2>5. j \in 1 .. j
      BY <2>0
    <2> QED
      BY <1>0, <2>0, <2>1, <2>4, <2>5
  <1>5. Ends(z, G, J, n - 1, more, last)
    <2> SUFFICES ASSUME last \notin more, NEW j \in 1 .. z[last], j <= n - 1
                 PROVE  G[n - j] = last /\ J[n - j] = z[last] + 1 - j
      BY DEF Ends
    <2>0. z[last] \in Nat /\ j \in Nat
      BY <1>02
    <2>1. \A m \in 1 .. j : F[n + 1 - m] = last /\ I[n + 1 - m] = z[last] + 1 - m
      <3> TAKE m \in 1 .. j
      <3>1. m \in 1 .. z[last] /\ m <= n
        BY <2>0
      <3> QED
        BY <3>1 DEF InOrder, Ends
    <2>2. \A m \in 1 .. j : n + 1 - m # d
      BY <1>04, <2>1
    <2>3. n + 1 - j > d
      <3> SUFFICES ASSUME n + 1 - j <= d
                   PROVE  FALSE
        BY <1>02, <2>0
      <3>1. n + 1 - d \in 1 .. j /\ n + 1 - (n + 1 - d) = d
        BY <1>02, <2>0
      <3> QED
        BY <2>2, <3>1
    <2>4. n - j \in 1 .. n - 1 /\ n - j >= d /\ o(n - j) = n + 1 - j /\ j \in 1 .. j
      BY <1>02, <1>03, <2>0, <2>3
    <2> QED
      BY <1>0, <2>1, <2>4
  <1> QED
    BY <1>1, <1>2, <1>3, <1>4, <1>5 DEF InOrder

(* A byte turned into noise.                                               *)
LEMMA NoiseInOrder ==
  ASSUME NEW z, NEW n \in Nat, NEW d \in 1 .. n, NEW F, NEW I, NEW G, NEW J, NEW hits, NEW more,
         NEW last \in Nat, SizesAre(z, last), InOrder(z, F, I, n, hits, last), NoiseAt(F, I, n, d, G, J),
         \A k \in hits : k \in more, F[d] >= 0 => F[d] \in more
  PROVE  InOrder(z, G, J, n, more, last)
  <1> USE DEF NoiseAt
  <1>02. \A k \in 0 .. last : z[k] \in Nat
    BY DEF SizesAre
  <1>05. \A p \in 1 .. n : F[p] \in Int /\ I[p] \in Int /\ (F[p] >= 0 => F[p] \in 0 .. last /\ I[p] \in 1 .. z[F[p]])
    BY DEF InOrder, BytesAre
  <1>04. \A k : k \notin more => k \notin hits /\ (F[d] < 0 \/ k # F[d])
    BY <1>05
  <1>06. \A p \in 1 .. n : G[p] >= 0 => p # d
    OBVIOUS
  <1>1. BytesAre(z, G, J, n, last)
    BY DEF InOrder, BytesAre
  <1>2. Sorted(G, J, n)
    BY <1>06 DEF InOrder, Sorted
  <1>3. Together(z, G, J, n, more)
    <2> SUFFICES ASSUME NEW p \in 1 .. n, G[p] >= 0, G[p] \notin more, NEW j \in 0 .. z[G[p]] - J[p]
                 PROVE  p + j <= n /\ G[p + j] = G[p] /\ J[p + j] = J[p] + j
      BY DEF Together
    <2>1. p # d /\ G[p] = F[p] /\ J[p] = I[p] /\ F[p] \notin hits
      BY <1>04, <1>06
    <2>2. p + j <= n /\ F[p + j] = F[p] /\ I[p + j] = I[p] + j
      BY <2>1 DEF InOrder, Together
    <2>3. p + j \in 1 .. n
      BY <1>02, <1>05, <2>1, <2>2
    <2>4. p + j # d
      BY <1>04, <1>05, <2>1, <2>2, <2>3
    <2> QED
      BY <2>1, <2>2, <2>3, <2>4
  <1>4. Behind(z, G, J, n, more)
    <2> SUFFICES ASSUME NEW p \in 1 .. n, G[p] >= 1, J[p] = 1, G[p] - 1 \notin more,
                        NEW j \in 1 .. z[G[p] - 1], j < p
                 PROVE  G[p - j] = G[p] - 1 /\ J[p - j] = z[G[p] - 1] + 1 - j
      BY DEF Behind
    <2>1. p # d /\ G[p] = F[p] /\ J[p] = I[p] /\ F[p] - 1 \notin hits
      BY <1>04
    <2>2. F[p - j] = F[p] - 1 /\ I[p - j] = z[F[p] - 1] + 1 - j
      BY <2>1 DEF InOrder, Behind
    <2>3. p - j \in 1 .. n
      BY <1>02, <1>05, <2>1
    <2>4. p - j # d
      BY <1>04, <1>05, <2>1, <2>2
    <2> QED
      BY <2>1, <2>2, <2>3, <2>4
  <1>5. Ends(z, G, J, n, more, last)
    <2> SUFFICES ASSUME last \notin more, NEW j \in 1 .. z[last], j <= n
                 PROVE  G[n + 1 - j] = last /\ J[n + 1 - j] = z[last] + 1 - j
      BY DEF Ends
    <2>1. F[n + 1 - j] = last /\ I[n + 1 - j] = z[last] + 1 - j
      BY <1>04 DEF InOrder, Ends
    <2>2. n + 1 - j \in 1 .. n /\ n + 1 - j # d
      BY <1>02, <1>04, <2>1
    <2> QED
      BY <2>1, <2>2
  <1> QED
    BY <1>1, <1>2, <1>3, <1>4, <1>5 DEF InOrder

(* Parts of a sequence.                                                    *)
LEMMA FromIs ==
  ASSUME NEW S, NEW s \in Seq(S), NEW c \in 0 .. Len(s)
  PROVE  /\ From(s, c + 1) \in Seq(S) /\ Len(From(s, c + 1)) = Len(s) - c
         /\ \A p \in 1 .. Len(s) - c : From(s, c + 1)[p] = s[p + c]
  <1>0. Len(s) \in Nat
    OBVIOUS
  <1>1. From(s, c + 1) \in Seq(S) /\ Len(From(s, c + 1)) = Len(s) - c
    BY <1>0 DEF From
  <1>2. \A p \in 1 .. Len(s) - c : From(s, c + 1)[p] = s[p + c]
    BY <1>0 DEF From
  <1> QED
    BY <1>1, <1>2

LEMMA FirstIs ==
  ASSUME NEW S, NEW s \in Seq(S), NEW c \in 0 .. Len(s)
  PROVE  /\ SubSeq(s, 1, c) \in Seq(S) /\ Len(SubSeq(s, 1, c)) = c
         /\ \A p \in 1 .. c : SubSeq(s, 1, c)[p] = s[p]
  OBVIOUS

LEMMA JoinIs ==
  ASSUME NEW S, NEW s \in Seq(S), NEW t \in Seq(S)
  PROVE  /\ s \o t \in Seq(S) /\ Len(s \o t) = Len(s) + Len(t)
         /\ \A p \in 1 .. Len(s) : (s \o t)[p] = s[p]
         /\ \A p \in 1 .. Len(t) : (s \o t)[Len(s) + p] = t[p]
  <1>0. Len(s) \in Nat /\ Len(t) \in Nat
    OBVIOUS
  <1>1. s \o t \in Seq(S) /\ Len(s \o t) = Len(s) + Len(t)
    OBVIOUS
  <1>2. \A p \in 1 .. Len(s) : (s \o t)[p] = s[p]
    BY <1>0
  <1>3. \A p \in 1 .. Len(t) : (s \o t)[Len(s) + p] = t[p]
    BY <1>0
  <1> QED
    BY <1>1, <1>2, <1>3

(* What the bytes on their way are after each step.                        *)
LEMMA ReadBytes ==
  ASSUME NEW b, NEW l, NEW b2, NEW l2, Len(b) \in Nat, Len(l) \in Nat, NEW n \in 1 .. Len(l),
         ReadInto(b, l, n, b2, l2)
  PROVE  /\ TotalOf(b2, l2) = TotalOf(b, l)
         /\ FramesOf(b2, l2) = FramesOf(b, l) /\ IndexesOf(b2, l2) = IndexesOf(b, l)
  <1> USE DEF ReadInto
  <1>4. TotalOf(b2, l2) = TotalOf(b, l)
    BY DEF TotalOf
  <1>5. \A p \in 1 .. TotalOf(b, l) : ByteOf(b2, l2, p) = ByteOf(b, l, p)
    <2> TAKE p \in 1 .. TotalOf(b, l)
    <2>1. CASE p <= Len(b)
      BY <2>1 DEF ByteOf
    <2>2. CASE p > Len(b) /\ p <= Len(b) + n
      <3>1. p - Len(b) \in 1 .. n /\ Len(b) + (p - Len(b)) = p
        BY <2>2 DEF TotalOf
      <3> QED
        BY <2>2, <3>1 DEF ByteOf
    <2>3. CASE p > Len(b) + n
      <3>1. p - Len(b2) \in 1 .. Len(l) - n /\ (p - Len(b2)) + n = p - Len(b)
        BY <2>3 DEF TotalOf
      <3>2. l2[p - Len(b2)] = l[p - Len(b)]
        BY <3>1
      <3>3. ~(p <= Len(b2)) /\ ~(p <= Len(b))
        BY <2>3 DEF TotalOf
      <3> QED
        BY <3>2, <3>3 DEF ByteOf
    <2> QED
      BY <2>1, <2>2, <2>3 DEF TotalOf
  <1> QED
    BY <1>4, <1>5 DEF FramesOf, IndexesOf

LEMMA DropBytes ==
  ASSUME NEW b, NEW l, NEW b2, Len(b) \in Nat, Len(l) \in Nat, NEW c \in 0 .. Len(b),
         CutTo(b, c, b2)
  PROVE  /\ TotalOf(b2, l) = TotalOf(b, l) - c
         /\ DroppedFrom(FramesOf(b, l), IndexesOf(b, l), TotalOf(b, l), c, FramesOf(b2, l), IndexesOf(b2, l))
  <1> USE DEF CutTo, DroppedFrom
  <1>2. TotalOf(b2, l) = TotalOf(b, l) - c
    BY DEF TotalOf
  <1>3. \A p \in 1 .. TotalOf(b, l) - c : ByteOf(b2, l, p) = ByteOf(b, l, p + c)
    <2> TAKE p \in 1 .. TotalOf(b, l) - c
    <2>0. p \in Nat
      BY DEF TotalOf
    <2>1. p <= Len(b) - c <=> p + c <= Len(b)
      BY <2>0
    <2>2. p - (Len(b) - c) = (p + c) - Len(b)
      BY <2>0
    <2>3. p <= Len(b) - c => p \in 1 .. Len(b) - c
      BY <2>0 DEF TotalOf
    <2> QED
      BY <2>1, <2>2, <2>3 DEF ByteOf
  <1>4. \A p \in 1 .. TotalOf(b, l) - c : p \in 1 .. TotalOf(b2, l) /\ p + c \in 1 .. TotalOf(b, l)
    BY <1>2 DEF TotalOf
  <1> QED
    BY <1>2, <1>3, <1>4 DEF FramesOf, IndexesOf

LEMMA SendBytes ==
  ASSUME NEW b, NEW l, NEW l2, NEW z, NEW k, z[k] \in Nat, Len(b) \in Nat, Len(l) \in Nat,
         ExtendedBy(l, z[k], k, l2)
  PROVE  /\ TotalOf(b, l2) = TotalOf(b, l) + z[k]
         /\ Followed(z, FramesOf(b, l), IndexesOf(b, l), TotalOf(b, l), k, FramesOf(b, l2), IndexesOf(b, l2))
  <1> USE DEF ExtendedBy, Followed
  <1>1. \A p \in 1 .. TotalOf(b, l) : p > Len(b) => p - Len(b) \in 1 .. Len(l)
    BY DEF TotalOf
  <1>5. ASSUME NEW p \in 1 .. TotalOf(b, l)
        PROVE  ByteOf(b, l2, p) = ByteOf(b, l, p) /\ p \in 1 .. TotalOf(b, l2)
    <2>1. p <= Len(b) \/ p > Len(b)
      BY DEF TotalOf
    <2>2. p > Len(b) => ~(p <= Len(b)) /\ l2[p - Len(b)] = l[p - Len(b)]
      BY <1>1 DEF TotalOf
    <2>3. p \in 1 .. TotalOf(b, l2)
      BY DEF TotalOf
    <2> QED
      BY <2>1, <2>2, <2>3 DEF ByteOf
  <1>6. ASSUME NEW i \in 1 .. z[k]
        PROVE  ByteOf(b, l2, TotalOf(b, l) + i) = <<k, i>> /\ TotalOf(b, l) + i \in 1 .. TotalOf(b, l2)
    <2>3. (TotalOf(b, l) + i) - Len(b) = Len(l) + i /\ ~(TotalOf(b, l) + i <= Len(b))
      BY DEF TotalOf
    <2>4. TotalOf(b, l) + i \in 1 .. TotalOf(b, l2)
      BY DEF TotalOf
    <2>5. l2[(TotalOf(b, l) + i) - Len(b)] = <<k, i>>
      BY <2>3
    <2> QED
      BY <2>3, <2>4, <2>5, Zenon DEF ByteOf
  <1>7. TotalOf(b, l2) = TotalOf(b, l) + z[k]
    BY DEF TotalOf
  <1> QED
    BY <1>5, <1>6, <1>7 DEF FramesOf, IndexesOf

LEMMA LossBytes ==
  ASSUME NEW b, NEW l, NEW l2, Len(b) \in Nat, Len(l) \in Nat, NEW i \in 1 .. Len(l), NEW d, d = Len(b) + i,
         Without(l, i, l2)
  PROVE  /\ TotalOf(b, l2) = TotalOf(b, l) - 1
         /\ LostAt(FramesOf(b, l), IndexesOf(b, l), TotalOf(b, l), d, FramesOf(b, l2), IndexesOf(b, l2))
  <1> USE DEF Without, LostAt
  <1>5. ASSUME NEW p \in 1 .. d - 1
        PROVE  ByteOf(b, l2, p) = ByteOf(b, l, p)
    <2>1. p > Len(b) => p - Len(b) \in 1 .. i - 1
      OBVIOUS
    <2> QED
      BY <2>1 DEF ByteOf
  <1>6. ASSUME NEW p \in d .. TotalOf(b, l) - 1
        PROVE  ByteOf(b, l2, p) = ByteOf(b, l, p + 1)
    <2>1. p - Len(b) \in i .. Len(l) - 1 /\ (p - Len(b)) + 1 = p + 1 - Len(b) /\ ~(p <= Len(b))
          /\ ~(p + 1 <= Len(b))
      BY DEF TotalOf
    <2> QED
      BY <2>1 DEF ByteOf
  <1>7. TotalOf(b, l2) = TotalOf(b, l) - 1
    BY DEF TotalOf
  <1>8. /\ \A p \in 1 .. d - 1 : p \in 1 .. TotalOf(b, l2) /\ p \in 1 .. TotalOf(b, l)
        /\ \A p \in d .. TotalOf(b, l) - 1 : p \in 1 .. TotalOf(b, l2) /\ p + 1 \in 1 .. TotalOf(b, l)
    BY <1>7 DEF TotalOf
  <1> QED
    BY <1>5, <1>6, <1>7, <1>8 DEF FramesOf, IndexesOf

LEMMA NoiseBytes ==
  ASSUME NEW b, NEW l, NEW l2, Len(b) \in Nat, Len(l) \in Nat, NEW i \in 1 .. Len(l), NEW d, d = Len(b) + i,
         Changed(l, i, l2)
  PROVE  /\ TotalOf(b, l2) = TotalOf(b, l)
         /\ NoiseAt(FramesOf(b, l), IndexesOf(b, l), TotalOf(b, l), d, FramesOf(b, l2), IndexesOf(b, l2))
  <1> USE DEF Changed, NoiseAt
  <1>3. TotalOf(b, l2) = TotalOf(b, l)
    BY DEF TotalOf
  <1>4. ASSUME NEW p \in 1 .. TotalOf(b, l), p # d
        PROVE  ByteOf(b, l2, p) = ByteOf(b, l, p)
    <2>1. p > Len(b) => p - Len(b) \in 1 .. Len(l) /\ p - Len(b) # i
      BY <1>4 DEF TotalOf
    <2>2. ~(p <= Len(b)) => p > Len(b)
      BY DEF TotalOf
    <2> QED
      BY <2>1, <2>2 DEF ByteOf
  <1>5. ByteOf(b, l2, d) = l2[i] /\ d \in 1 .. TotalOf(b, l)
    <2>1. ~(d <= Len(b)) /\ d - Len(b) = i
      OBVIOUS
    <2>2. d \in 1 .. TotalOf(b, l)
      BY DEF TotalOf
    <2> QED
      BY <2>1, <2>2 DEF ByteOf
  <1> QED
    BY <1>3, <1>4, <1>5 DEF FramesOf, IndexesOf

LEMMA ElementsAppend ==
  ASSUME NEW S, NEW s \in Seq(S), NEW e \in S
  PROVE  Append(s, e) \in Seq(S) /\ ElementsOf(Append(s, e)) = ElementsOf(s) \cup {e}
  <1>1. /\ Append(s, e) \in Seq(S) /\ Len(s) \in Nat /\ Len(Append(s, e)) = Len(s) + 1
        /\ Append(s, e)[Len(s) + 1] = e
        /\ \A m \in 1 .. Len(s) : Append(s, e)[m] = s[m]
    OBVIOUS
  <1>2. DOMAIN s = 1 .. Len(s) /\ DOMAIN Append(s, e) = 1 .. Len(s) + 1
    BY <1>1
  <1>3. \A m : m \in DOMAIN Append(s, e) <=> m \in DOMAIN s \/ m = Len(s) + 1
    BY <1>1, <1>2
  <1>4. \A m \in DOMAIN s : Append(s, e)[m] = s[m]
    BY <1>1, <1>2
  <1>5. ElementsOf(Append(s, e)) = ElementsOf(s) \cup {e}
    BY <1>1, <1>3, <1>4, Zenon DEF ElementsOf
  <1> QED
    BY <1>1, <1>5

(* Before anything else comes: the end of frame 0.                         *)
LEMMA EndOfFrame0 ==
  ASSUME NEW z, z[0] \in Nat, NEW c \in 1 .. z[0], NEW n, n = z[0] - c, NEW F, NEW I,
         \A p \in 1 .. n : F[p] = 0 /\ I[p] = p + c
  PROVE  InOrder(z, F, I, n, {}, 0)
  <1>1. BytesAre(z, F, I, n, 0) /\ Sorted(F, I, n)
    BY DEF BytesAre, Sorted
  <1>2. Together(z, F, I, n, {})
    BY DEF Together
  <1>3. Behind(z, F, I, n, {})
    BY DEF Behind
  <1>4. Ends(z, F, I, n, {}, 0)
    BY DEF Ends
  <1> QED
    BY <1>1, <1>2, <1>3, <1>4 DEF InOrder

(* A byte cut out of the middle.                                           *)
LEMMA CutOutIs ==
  ASSUME NEW S, NEW s \in Seq(S), NEW i \in 1 .. Len(s)
  PROVE  /\ SubSeq(s, 1, i - 1) \o From(s, i + 1) \in Seq(S)
         /\ Without(s, i, SubSeq(s, 1, i - 1) \o From(s, i + 1))
  <1> DEFINE before == SubSeq(s, 1, i - 1)
             after == From(s, i + 1)
             both == before \o after
  <1>0. i - 1 \in 0 .. Len(s) /\ i \in 0 .. Len(s) /\ Len(s) \in Nat
    OBVIOUS
  <1>1. before \in Seq(S) /\ Len(before) = i - 1 /\ \A p \in 1 .. i - 1 : before[p] = s[p]
    BY <1>0, FirstIs
  <1>2. after \in Seq(S) /\ Len(after) = Len(s) - i /\ \A p \in 1 .. Len(s) - i : after[p] = s[p + i]
    BY <1>0, FromIs
  <1> HIDE DEF before, after
  <1>3. /\ both \in Seq(S) /\ Len(both) = Len(before) + Len(after)
        /\ \A p \in 1 .. Len(before) : both[p] = before[p]
        /\ \A p \in 1 .. Len(after) : both[Len(before) + p] = after[p]
    <2>1. before \in Seq(S) /\ after \in Seq(S)
      BY <1>1, <1>2
    <2> QED
      BY <2>1, JoinIs
  <1> HIDE DEF both
  <1>4. Len(both) = Len(s) - 1
    BY <1>0, <1>1, <1>2, <1>3
  <1>5. \A p \in 1 .. i - 1 : both[p] = s[p]
    BY <1>1, <1>3
  <1>6. \A p \in i .. Len(s) - 1 : both[p] = s[p + 1]
    <2> TAKE p \in i .. Len(s) - 1
    <2>1. p - (i - 1) \in 1 .. Len(s) - i /\ (i - 1) + (p - (i - 1)) = p /\ (p - (i - 1)) + i = p + 1
      BY <1>0
    <2>2. both[(i - 1) + (p - (i - 1))] = after[p - (i - 1)]
      BY <1>1, <1>2, <1>3, <2>1
    <2> QED
      BY <1>2, <2>1, <2>2
  <1>7. both \in Seq(S) /\ Without(s, i, both)
    BY <1>3, <1>4, <1>5, <1>6 DEF Without
  <1> QED
    BY <1>7 DEF both, before, after

LEMMA BytesOf ==
  ASSUME NEW b, NEW l, Len(b) \in Nat, Len(l) \in Nat
  PROVE  /\ TotalOf(b, l) \in Nat /\ Len(b) <= TotalOf(b, l)
         /\ \A p \in 1 .. Len(b) : FramesOf(b, l)[p] = b[p][1] /\ IndexesOf(b, l)[p] = b[p][2]
  <1>1. TotalOf(b, l) \in Nat /\ Len(b) <= TotalOf(b, l) /\ \A p \in 1 .. Len(b) : p \in 1 .. TotalOf(b, l)
    BY DEF TotalOf
  <1> QED
    BY <1>1 DEF FramesOf, IndexesOf, ByteOf

-----------------------------------------------------------------------------
(* The search of referee_serial_bridge: all frames have one size.          *)
Sizes == [k \in Nat |-> FrameSize]
Hits == ElementsOf(damaged)
Done == ElementsOf(parsed)

(* The bytes of a frame that was parsed are gone.                          *)
GoneOnce(F, n, done) == \A p \in 1 .. n : F[p] >= 1 => F[p] \notin done

(* A frame is parsed, or about to be, unless bytes were lost or the frame  *)
(* before it was missed: of that one no first byte is left.                *)
Accounted(F, I, n, hits, done, k) ==
  \/ k \in done \/ k \in hits \/ k - 1 \in hits
  \/ LooksLike(k - 1) /\ (k = 1 \/ (k - 1 \notin done /\ ~Begins(F, I, n, k - 1)))
Present(F, I, n, hits, done, last) ==
  \A k \in 1 .. last : Begins(F, I, n, k) \/ Accounted(F, I, n, hits, done, k)

StreamInv(F, I, n, hits, done, last) ==
  InOrder(Sizes, F, I, n, hits, last) /\ GoneOnce(F, n, done) /\ Present(F, I, n, hits, done, last)

BridgeTypes ==
  /\ line \in Seq(Int \X Int) /\ buffer \in Seq(Int \X Int)
  /\ framesSent \in Nat /\ scanning \in BOOLEAN
  /\ parsed \in Seq(Nat) /\ damaged \in Seq(Int)
  /\ Done \subseteq 0 .. framesSent /\ Hits \subseteq -1 .. framesSent
Searched == ~scanning => \A i \in Places : ~IsHeader(i)
OnTheWay ==
  StreamInv(FramesOf(buffer, line), IndexesOf(buffer, line), TotalOf(buffer, line), Hits, Done, framesSent)

BridgeInv == BridgeTypes /\ Searched /\ OnTheWay

LEMMA SizesAll ==
  /\ FrameSize \in Nat /\ FrameSize > 2
  /\ \A k \in Nat : Sizes[k] = FrameSize
  /\ \A last \in Nat : SizesAre(Sizes, last)
  BY BridgeAssumption DEF Sizes, SizesAre

(* The same steps with what is known of the frames parsed and to come.     *)
LEMMA DropKeeps ==
  ASSUME NEW n \in Nat, NEW c \in 0 .. n, NEW F, NEW I, NEW G, NEW J, NEW hits, NEW done, NEW then,
         NEW last \in Nat,
         StreamInv(F, I, n, hits, done, last), DroppedFrom(F, I, n, c, G, J),
         \A k \in done : k \in then, \A k \in then : k \in done \/ k = 0 \/ Begins(F, I, n, k),
         \A p \in c + 1 .. n : F[p] >= 1 => F[p] \notin then,
         \A p \in 1 .. c : F[p] \in 1 .. last /\ I[p] = 1 => Accounted(G, J, n - c, hits, then, F[p])
  PROVE  StreamInv(G, J, n - c, hits, then, last)
  <1> USE DEF DroppedFrom
  <1>0. \A p \in 1 .. n - c : p + c \in 1 .. n /\ p + c \in c + 1 .. n
    OBVIOUS
  <1>1. InOrder(Sizes, G, J, n - c, hits, last)
    BY DropInOrder, SizesAll DEF StreamInv
  <1>2. GoneOnce(G, n - c, then)
    BY <1>0 DEF GoneOnce
  <1>3. \A k : Begins(G, J, n - c, k) => Begins(F, I, n, k)
    BY <1>0 DEF Begins
  <1>4. ASSUME NEW k \in 1 .. last
        PROVE  Begins(G, J, n - c, k) \/ Accounted(G, J, n - c, hits, then, k)
    <2>1. CASE Begins(F, I, n, k)
      <3>1. PICK p \in 1 .. n : F[p] = k /\ I[p] = 1
        BY <2>1 DEF Begins
      <3>2. CASE p <= c
        BY <3>1, <3>2
      <3>3. CASE p > c
        <4>1. p - c \in 1 .. n - c /\ (p - c) + c = p
          BY <3>3
        <4> QED
          BY <3>1, <4>1 DEF Begins
      <3> QED
        BY <3>2, <3>3
    <2>2. CASE Accounted(F, I, n, hits, done, k)
      BY <1>3, <2>2 DEF Accounted
    <2> QED
      BY <2>1, <2>2 DEF StreamInv, Present
  <1> QED
    BY <1>1, <1>2, <1>4 DEF StreamInv, Present

LEMMA SendKeeps ==
  ASSUME NEW n \in Nat, NEW F, NEW I, NEW G, NEW J, NEW hits, NEW done, NEW last \in Nat,
         StreamInv(F, I, n, hits, done, last), last + 1 \notin hits, done \subseteq 0 .. last,
         Followed(Sizes, F, I, n, last + 1, G, J)
  PROVE  StreamInv(G, J, n + FrameSize, hits, done, last + 1)
  <1> USE DEF Followed
  <1>0. FrameSize \in Nat /\ FrameSize > 2 /\ Sizes[last + 1] = FrameSize
    BY SizesAll
  <1>00. \A i \in 1 .. FrameSize : G[n + i] = last + 1 /\ J[n + i] = i
    BY <1>0
  <1>01. \A p \in 1 .. n + FrameSize : p \in 1 .. n \/ G[p] = last + 1
    <2> TAKE p \in 1 .. n + FrameSize
    <2>1. p \in 1 .. n \/ (p - n \in 1 .. FrameSize /\ n + (p - n) = p)
      BY <1>0
    <2> QED
      BY <1>00, <2>1
  <1>1. InOrder(Sizes, G, J, n + FrameSize, hits, last + 1)
    BY <1>0, SendInOrder, SizesAll DEF StreamInv
  <1>2. GoneOnce(G, n + FrameSize, done)
    <2>1. last + 1 \notin done
      OBVIOUS
    <2> QED
      BY <1>01, <2>1 DEF StreamInv, GoneOnce
  <1>3. \A k \in 0 .. last : Begins(G, J, n + FrameSize, k) <=> Begins(F, I, n, k)
    <2>1. \A p \in 1 .. n : p \in 1 .. n + FrameSize
      BY <1>0
    <2>2. \A k \in 0 .. last : k # last + 1
      OBVIOUS
    <2> QED
      BY <1>01, <2>1, <2>2 DEF Begins
  <1>4. Begins(G, J, n + FrameSize, last + 1)
    <2>1. n + 1 \in 1 .. n + FrameSize /\ G[n + 1] = last + 1 /\ J[n + 1] = 1
      BY <1>0, <1>00
    <2> QED
      BY <2>1 DEF Begins
  <1>5. ASSUME NEW k \in 1 .. last
        PROVE  Begins(G, J, n + FrameSize, k) \/ Accounted(G, J, n + FrameSize, hits, done, k)
    <2>1. k \in 0 .. last /\ k - 1 \in 0 .. last
      OBVIOUS
    <2> QED
      BY <1>3, <2>1 DEF StreamInv, Present, Accounted
  <1>6. \A k \in 1 .. last + 1 : k \in 1 .. last \/ k = last + 1
    OBVIOUS
  <1> QED
    BY <1>1, <1>2, <1>4, <1>5, <1>6 DEF StreamInv, Present

LEMMA LossKeeps ==
  ASSUME NEW n \in Nat, NEW d \in 1 .. n, NEW F, NEW I, NEW G, NEW J, NEW hits, NEW done, NEW last \in Nat,
         StreamInv(F, I, n, hits, done, last),
         LostAt(F, I, n, d, G, J)
  PROVE  StreamInv(G, J, n - 1, hits \cup {F[d]}, done, last)
  <1> USE DEF LostAt
  <1>1. InOrder(Sizes, G, J, n - 1, hits \cup {F[d]}, last)
    BY LossInOrder, SizesAll DEF StreamInv
  <1>2. \A p \in 1 .. n - 1 : \E q \in 1 .. n : G[p] = F[q] /\ J[p] = I[q]
    <2> TAKE p \in 1 .. n - 1
    <2>1. CASE p < d
      <3>1. p \in 1 .. n /\ p \in 1 .. d - 1
        BY <2>1
      <3> QED
        BY <3>1
    <2>2. CASE p >= d
      <3>1. p + 1 \in 1 .. n /\ p \in d .. n - 1
        BY <2>2
      <3> QED
        BY <3>1
    <2> QED
      BY <2>1, <2>2
  <1>3. GoneOnce(G, n - 1, done)
    BY <1>2 DEF StreamInv, GoneOnce
  <1>4. \A k : Begins(G, J, n - 1, k) => Begins(F, I, n, k)
    BY <1>2 DEF Begins
  <1>5. ASSUME NEW k, Begins(F, I, n, k), k # F[d]
        PROVE  Begins(G, J, n - 1, k)
    <2>1. PICK p \in 1 .. n : F[p] = k /\ I[p] = 1
      BY <1>5 DEF Begins
    <2>2. CASE p < d
      <3>1. p \in 1 .. n - 1 /\ p \in 1 .. d - 1
        BY <2>2
      <3> QED
        BY <2>1, <3>1 DEF Begins
    <2>3. CASE p > d
      <3>1. p - 1 \in 1 .. n - 1 /\ p - 1 \in d .. n - 1 /\ (p - 1) + 1 = p
        BY <2>3
      <3> QED
        BY <2>1, <3>1 DEF Begins
    <2>4. p # d
      BY <1>5, <2>1
    <2> QED
      BY <2>2, <2>3, <2>4
  <1>6. Present(G, J, n - 1, hits \cup {F[d]}, done, last)
    BY <1>4, <1>5 DEF StreamInv, Present, Accounted
  <1> QED
    BY <1>1, <1>3, <1>6 DEF StreamInv

LEMMA NoiseKeeps ==
  ASSUME NEW n \in Nat, NEW d \in 1 .. n, NEW F, NEW I, NEW G, NEW J, NEW hits, NEW done, NEW last \in Nat,
         StreamInv(F, I, n, hits, done, last),
         NoiseAt(F, I, n, d, G, J)
  PROVE  StreamInv(G, J, n, hits \cup {F[d]}, done, last)
  <1> USE DEF NoiseAt
  <1>1. InOrder(Sizes, G, J, n, hits \cup {F[d]}, last)
    BY NoiseInOrder, SizesAll DEF StreamInv
  <1>2. GoneOnce(G, n, done)
    BY DEF StreamInv, GoneOnce
  <1>3. \A k \in Nat : Begins(G, J, n, k) => Begins(F, I, n, k)
    BY DEF Begins
  <1>4. \A k \in Nat : Begins(F, I, n, k) /\ k # F[d] => Begins(G, J, n, k)
    BY DEF Begins
  <1>5. Present(G, J, n, hits \cup {F[d]}, done, last)
    <2>1. \A k \in 1 .. last : k \in Nat /\ k - 1 \in Nat
      OBVIOUS
    <2> QED
      BY <1>3, <1>4, <2>1 DEF StreamInv, Present, Accounted
  <1> QED
    BY <1>1, <1>2, <1>5 DEF StreamInv

(* What is known of the bytes, with the one size that frames have.         *)
FrameBytes(F, I, n, last) ==
  \A p \in 1 .. n :
    /\ F[p] \in Int /\ I[p] \in Int
    /\ (F[p] = -1) \/ (F[p] \in 0 .. last /\ I[p] \in 1 .. FrameSize)
RestFollows(F, I, n, hits) ==
  \A p \in 1 .. n : \A j \in 0 .. FrameSize :
    F[p] >= 0 /\ F[p] \notin hits /\ I[p] + j <= FrameSize =>
      p + j <= n /\ F[p + j] = F[p] /\ I[p + j] = I[p] + j
EndComesBefore(F, I, n, hits) ==
  \A p \in 1 .. n : \A j \in 1 .. FrameSize :
    F[p] >= 1 /\ I[p] = 1 /\ F[p] - 1 \notin hits /\ j < p =>
      F[p - j] = F[p] - 1 /\ I[p - j] = FrameSize + 1 - j

LEMMA FrameOrder ==
  ASSUME NEW n \in Nat, NEW F, NEW I, NEW hits, NEW last \in Nat, InOrder(Sizes, F, I, n, hits, last)
  PROVE  FrameBytes(F, I, n, last) /\ RestFollows(F, I, n, hits) /\ EndComesBefore(F, I, n, hits)
  <1>0. FrameSize \in Nat /\ \A k \in Nat : Sizes[k] = FrameSize
    BY SizesAll
  <1>1. \A p \in 1 .. n :
          /\ F[p] \in Int /\ I[p] \in Int
          /\ (F[p] = -1) \/ (F[p] \in 0 .. last /\ I[p] \in 1 .. FrameSize)
    BY <1>0 DEF InOrder, BytesAre
  <1>2. ASSUME NEW p \in 1 .. n, NEW j \in 0 .. FrameSize, F[p] >= 0, F[p] \notin hits, I[p] + j <= FrameSize
        PROVE  p + j <= n /\ F[p + j] = F[p] /\ I[p + j] = I[p] + j
    <2>1. F[p] \in Nat /\ Sizes[F[p]] = FrameSize /\ j \in 0 .. Sizes[F[p]] - I[p]
      BY <1>0, <1>1, <1>2
    <2> QED
      BY <1>2, <2>1 DEF InOrder, Together
  <1>3. ASSUME NEW p \in 1 .. n, NEW j \in 1 .. FrameSize, F[p] >= 1, I[p] = 1, F[p] - 1 \notin hits, j < p
        PROVE  F[p - j] = F[p] - 1 /\ I[p - j] = FrameSize + 1 - j
    <2>1. F[p] - 1 \in Nat /\ Sizes[F[p] - 1] = FrameSize /\ j \in 1 .. Sizes[F[p] - 1]
      BY <1>0, <1>1, <1>3
    <2>2. F[p - j] = F[p] - 1 /\ I[p - j] = Sizes[F[p] - 1] + 1 - j
      BY <1>3, <2>1 DEF InOrder, Behind
    <2> QED
      BY <2>1, <2>2
  <1> QED
    BY <1>1, <1>2, <1>3 DEF FrameBytes, RestFollows, EndComesBefore

LEMMA BridgeBegins == BridgeInit => BridgeInv
  <1> SUFFICES ASSUME BridgeInit PROVE BridgeInv
    OBVIOUS
  <1>0. FrameSize \in Nat /\ FrameSize > 2 /\ Sizes[0] = FrameSize
    BY SizesAll
  <1>1. PICK i \in 2 .. FrameSize + 1 : line = From(RefereeFrame(0), i)
    BY DEF BridgeInit
  <1>2. RefereeFrame(0) \in [1 .. FrameSize -> Int \X Int]
    BY <1>0 DEF RefereeFrame
  <1>3. RefereeFrame(0) \in Seq(Int \X Int) /\ Len(RefereeFrame(0)) = FrameSize
    BY <1>0, <1>2, SeqDef
  <1>4. \A m \in 1 .. FrameSize : RefereeFrame(0)[m] = <<0, m>>
    BY DEF RefereeFrame
  <1> DEFINE c == i - 1
  <1>5. c \in 0 .. FrameSize /\ i = c + 1 /\ c >= 1
    BY <1>0
  <1> HIDE DEF c
  <1>6. /\ line \in Seq(Int \X Int) /\ Len(line) = FrameSize - c
        /\ \A p \in 1 .. FrameSize - c : line[p] = RefereeFrame(0)[p + c]
    BY <1>1, <1>3, <1>5, FromIs
  <1>7. \A p \in 1 .. FrameSize - c : line[p] = <<0, p + c>>
    <2> TAKE p \in 1 .. FrameSize - c
    <2>1. p + c \in 1 .. FrameSize
      BY <1>0, <1>5
    <2> QED
      BY <1>4, <1>6, <2>1
  <1>8. buffer = <<>> /\ Len(buffer) = 0 /\ framesSent = 0 /\ scanning = FALSE /\ parsed = <<>> /\ damaged = <<>>
    BY DEF BridgeInit
  <1>9. Hits = {} /\ Done = {}
    BY <1>8 DEF Hits, Done, ElementsOf
  <1>10. BridgeTypes
    <2>1. buffer \in Seq(Int \X Int) /\ parsed \in Seq(Nat) /\ damaged \in Seq(Int)
      BY <1>8
    <2> QED
      BY <1>6, <1>8, <1>9, <2>1 DEF BridgeTypes
  <1>11. Searched
    BY <1>0, <1>8 DEF Searched, Places
  <1> DEFINE n == TotalOf(buffer, line)
             F == FramesOf(buffer, line)
             I == IndexesOf(buffer, line)
  <1>12. n = FrameSize - c
    BY <1>0, <1>5, <1>6, <1>8 DEF TotalOf
  <1>13. \A p \in 1 .. n : ByteOf(buffer, line, p) = <<0, p + c>>
    <2> TAKE p \in 1 .. n
    <2>1. p - Len(buffer) = p /\ ~(p <= Len(buffer))
      BY <1>8, <1>12
    <2> QED
      BY <1>7, <1>12, <2>1 DEF ByteOf
  <1>14. \A p \in 1 .. n : F[p] = 0 /\ I[p] = p + c
    BY <1>13 DEF FramesOf, IndexesOf
  <1> HIDE DEF n, F, I
  <1>15. InOrder(Sizes, F, I, n, {}, 0)
    BY <1>0, <1>5, <1>12, <1>14, EndOfFrame0
  <1>19. GoneOnce(F, n, {}) /\ Present(F, I, n, {}, {}, 0)
    BY DEF GoneOnce, Present
  <1>20. OnTheWay
    BY <1>8, <1>9, <1>15, <1>19 DEF OnTheWay, StreamInv, n, F, I
  <1> QED
    BY <1>10, <1>11, <1>20 DEF BridgeInv

LEMMA SendKeepsInv ==
  ASSUME BridgeInv, BoardSendsFrame
  PROVE  BridgeInv'
  <1>0. FrameSize \in Nat /\ FrameSize > 2
    BY SizesAll
  <1>1. /\ framesSent' = framesSent + 1 /\ line' = line \o RefereeFrame(framesSent + 1)
        /\ buffer' = buffer /\ scanning' = scanning /\ parsed' = parsed /\ damaged' = damaged
    BY DEF BoardSendsFrame
  <1>2. /\ framesSent \in Nat /\ line \in Seq(Int \X Int) /\ buffer \in Seq(Int \X Int)
        /\ Done \subseteq 0 .. framesSent /\ Hits \subseteq -1 .. framesSent
    BY DEF BridgeInv, BridgeTypes
  <1>3. Done' = Done /\ Hits' = Hits
    BY <1>1 DEF Done, Hits
  <1>4. RefereeFrame(framesSent + 1) \in [1 .. FrameSize -> Int \X Int]
    BY <1>0, <1>2 DEF RefereeFrame
  <1>5. RefereeFrame(framesSent + 1) \in Seq(Int \X Int) /\ Len(RefereeFrame(framesSent + 1)) = FrameSize
    BY <1>0, <1>4, SeqDef
  <1>6. \A i \in 1 .. FrameSize : RefereeFrame(framesSent + 1)[i] = <<framesSent + 1, i>>
    BY DEF RefereeFrame
  <1>7. /\ line' \in Seq(Int \X Int) /\ Len(line') = Len(line) + FrameSize
        /\ \A p \in 1 .. Len(line) : line'[p] = line[p]
        /\ \A i \in 1 .. FrameSize : line'[Len(line) + i] = <<framesSent + 1, i>>
    <2> DEFINE r == RefereeFrame(framesSent + 1)
    <2>1. r \in Seq(Int \X Int) /\ Len(r) = FrameSize /\ line' = line \o r
      BY <1>1, <1>5
    <2>2. \A i \in 1 .. FrameSize : r[i] = <<framesSent + 1, i>>
      BY <1>6
    <2> HIDE DEF r
    <2>3. /\ line \o r \in Seq(Int \X Int) /\ Len(line \o r) = Len(line) + Len(r)
          /\ \A p \in 1 .. Len(line) : (line \o r)[p] = line[p]
          /\ \A p \in 1 .. Len(r) : (line \o r)[Len(line) + p] = r[p]
      <3>1. line \in Seq(Int \X Int) /\ r \in Seq(Int \X Int)
        BY <1>2, <2>1
      <3> QED
        BY <3>1, JoinIs
    <2> QED
      BY <2>1, <2>2, <2>3, Zenon
  <1>8. Len(buffer) \in Nat /\ Len(line) \in Nat
    BY <1>2
  <1>9. framesSent + 1 \notin Hits
    BY <1>2
  <1>15. ExtendedBy(line, Sizes[framesSent + 1], framesSent + 1, line') /\ Sizes[framesSent + 1] = FrameSize
    <2>1. Sizes[framesSent + 1] = FrameSize
      BY <1>2, SizesAll
    <2> QED
      BY <1>7, <2>1 DEF ExtendedBy
  <1>10. /\ TotalOf(buffer, line') = TotalOf(buffer, line) + FrameSize
         /\ Followed(Sizes, FramesOf(buffer, line), IndexesOf(buffer, line), TotalOf(buffer, line), framesSent + 1,
                     FramesOf(buffer, line'), IndexesOf(buffer, line'))
    BY <1>0, <1>8, <1>15, SendBytes
  <1>11. TotalOf(buffer, line) \in Nat
    BY <1>8 DEF TotalOf
  <1>16. StreamInv(FramesOf(buffer, line), IndexesOf(buffer, line), TotalOf(buffer, line), Hits, Done, framesSent)
    BY DEF BridgeInv, OnTheWay
  <1>17. StreamInv(FramesOf(buffer, line'), IndexesOf(buffer, line'), TotalOf(buffer, line'), Hits, Done,
                   framesSent + 1)
    BY <1>2, <1>9, <1>10, <1>11, <1>16, SendKeeps
  <1>12. OnTheWay'
    BY <1>1, <1>3, <1>17 DEF OnTheWay
  <1>13. BridgeTypes'
    BY <1>1, <1>2, <1>3, <1>7 DEF BridgeInv, BridgeTypes
  <1>14. Searched'
    BY <1>1 DEF BridgeInv, Searched, Places, IsHeader
  <1> QED
    BY <1>12, <1>13, <1>14 DEF BridgeInv

LEMMA DamageKeepsInv ==
  ASSUME BridgeInv, NEW i \in 1 .. Len(line), Damage(i)
  PROVE  BridgeInv'
  <1>1. /\ damaged' = Append(damaged, line[i][1])
        /\ buffer' = buffer /\ scanning' = scanning /\ parsed' = parsed /\ framesSent' = framesSent
    BY DEF Damage
  <1>2. /\ framesSent \in Nat /\ line \in Seq(Int \X Int) /\ buffer \in Seq(Int \X Int)
        /\ damaged \in Seq(Int)
    BY DEF BridgeInv, BridgeTypes
  <1>3. Len(buffer) \in Nat /\ Len(line) \in Nat /\ line[i] \in Int \X Int
    BY <1>2
  <1> DEFINE n == TotalOf(buffer, line)
             F == FramesOf(buffer, line)
             I == IndexesOf(buffer, line)
  <1> DEFINE d == Len(buffer) + i
  <1>4. d \in 1 .. n /\ n \in Nat /\ d = Len(buffer) + i
    BY <1>3 DEF TotalOf
  <1>5. F[d] = line[i][1]
    <2>1. ~(d <= Len(buffer)) /\ d - Len(buffer) = i
      BY <1>3
    <2> QED
      BY <1>4, <2>1 DEF FramesOf, ByteOf
  <1>7. damaged' \in Seq(Int) /\ Hits' = Hits \cup {F[d]} /\ Done' = Done
    BY <1>1, <1>2, <1>3, <1>5, ElementsAppend DEF Hits, Done
  <1>8. Searched'
    BY <1>1 DEF BridgeInv, Searched, Places, IsHeader
  <1>9. StreamInv(F, I, n, Hits, Done, framesSent)
    BY DEF BridgeInv, OnTheWay
  <1> HIDE DEF F, I, n, d
  <1>6. F[d] \in -1 .. framesSent
    <2>1. F[d] \in Int /\ (F[d] = -1 \/ F[d] \in 0 .. framesSent)
      BY <1>4, <1>9 DEF StreamInv, InOrder, BytesAre
    <2> QED
      BY <1>2, <2>1
  <1>10. line' \in Seq(Int \X Int) /\ OnTheWay'
    <2>1. CASE line' = SubSeq(line, 1, i - 1) \o From(line, i + 1)
      <3>3. line' \in Seq(Int \X Int) /\ Without(line, i, line')
        BY <1>2, <2>1, CutOutIs
      <3>6. TotalOf(buffer, line') = n - 1 /\ LostAt(F, I, n, d, FramesOf(buffer, line'), IndexesOf(buffer, line'))
        BY <1>3, <1>4, <3>3, LossBytes DEF F, I, n
      <3>7. StreamInv(FramesOf(buffer, line'), IndexesOf(buffer, line'), n - 1, Hits \cup {F[d]}, Done, framesSent)
        BY <1>2, <1>4, <1>9, <3>6, LossKeeps
      <3> QED
        BY <1>1, <1>7, <3>3, <3>6, <3>7 DEF OnTheWay
    <2>2. CASE line' = [line EXCEPT ![i] = Junk]
      <3>1. Junk \in Int \X Int /\ Junk[1] = -1 /\ Junk[2] \in Int
        BY DEF Junk
      <3>2. /\ line' \in Seq(Int \X Int) /\ Len(line') = Len(line) /\ line'[i] = Junk
            /\ \A p \in 1 .. Len(line) : p # i => line'[p] = line[p]
        BY <1>2, <2>2, <3>1, ExceptSeq
      <3>5. Changed(line, i, line')
        BY <3>1, <3>2 DEF Changed
      <3>3. TotalOf(buffer, line') = n /\ NoiseAt(F, I, n, d, FramesOf(buffer, line'), IndexesOf(buffer, line'))
        BY <1>3, <1>4, <3>5, NoiseBytes DEF F, I, n
      <3>4. StreamInv(FramesOf(buffer, line'), IndexesOf(buffer, line'), n, Hits \cup {F[d]}, Done, framesSent)
        BY <1>2, <1>4, <1>9, <3>3, NoiseKeeps
      <3> QED
        BY <1>1, <1>7, <3>2, <3>3, <3>4 DEF OnTheWay
    <2> QED
      BY <2>1, <2>2 DEF Damage
  <1>11. BridgeTypes'
    BY <1>1, <1>6, <1>7, <1>10 DEF BridgeInv, BridgeTypes
  <1> QED
    BY <1>8, <1>10, <1>11 DEF BridgeInv

LEMMA ReadKeepsInv ==
  ASSUME BridgeInv, NEW n \in 1 .. Len(line), ReadPort(n)
  PROVE  BridgeInv'
  <1>1. /\ buffer' = buffer \o SubSeq(line, 1, n) /\ line' = From(line, n + 1) /\ scanning' = TRUE
        /\ framesSent' = framesSent /\ parsed' = parsed /\ damaged' = damaged
    BY DEF ReadPort
  <1>2. line \in Seq(Int \X Int) /\ buffer \in Seq(Int \X Int)
    BY DEF BridgeInv, BridgeTypes
  <1>3. Len(buffer) \in Nat /\ Len(line) \in Nat
    BY <1>2
  <1>4. n \in 0 .. Len(line)
    BY <1>3
  <1>5. /\ line' \in Seq(Int \X Int) /\ Len(line') = Len(line) - n
        /\ \A p \in 1 .. Len(line) - n : line'[p] = line[p + n]
    BY <1>1, <1>2, <1>4, FromIs
  <1>6. /\ SubSeq(line, 1, n) \in Seq(Int \X Int) /\ Len(SubSeq(line, 1, n)) = n
        /\ \A p \in 1 .. n : SubSeq(line, 1, n)[p] = line[p]
    BY <1>2, <1>4, FirstIs
  <1>7. /\ buffer' \in Seq(Int \X Int) /\ Len(buffer') = Len(buffer) + n
        /\ \A p \in 1 .. Len(buffer) : buffer'[p] = buffer[p]
        /\ \A p \in 1 .. n : buffer'[Len(buffer) + p] = line[p]
    <2> DEFINE r == SubSeq(line, 1, n)
    <2>1. r \in Seq(Int \X Int) /\ Len(r) = n /\ buffer' = buffer \o r /\ \A p \in 1 .. n : r[p] = line[p]
      BY <1>1, <1>6, Zenon
    <2> HIDE DEF r
    <2>2. /\ buffer \o r \in Seq(Int \X Int) /\ Len(buffer \o r) = Len(buffer) + Len(r)
          /\ \A p \in 1 .. Len(buffer) : (buffer \o r)[p] = buffer[p]
          /\ \A p \in 1 .. Len(r) : (buffer \o r)[Len(buffer) + p] = r[p]
      <3>1. buffer \in Seq(Int \X Int) /\ r \in Seq(Int \X Int)
        BY <1>2, <2>1
      <3> QED
        BY <3>1, JoinIs
    <2> QED
      BY <2>1, <2>2, Zenon
  <1>8. /\ TotalOf(buffer', line') = TotalOf(buffer, line)
        /\ FramesOf(buffer', line') = FramesOf(buffer, line)
        /\ IndexesOf(buffer', line') = IndexesOf(buffer, line)
    <2>1. ReadInto(buffer, line, n, buffer', line')
      BY <1>5, <1>7 DEF ReadInto
    <2> QED
      BY <1>3, <2>1, ReadBytes
  <1>9. Done' = Done /\ Hits' = Hits
    BY <1>1 DEF Done, Hits
  <1>10. OnTheWay'
    BY <1>1, <1>8, <1>9 DEF BridgeInv, OnTheWay
  <1>11. BridgeTypes'
    BY <1>1, <1>5, <1>7, <1>9 DEF BridgeInv, BridgeTypes
  <1> QED
    BY <1>1, <1>10, <1>11 DEF BridgeInv, Searched

(* A header in the buffer, as it shows in the bytes.                       *)
LEMMA HeaderIs ==
  ASSUME BridgeTypes, NEW p \in 1 .. Len(buffer) - 1,
         IndexesOf(buffer, line)[p] = 1, IndexesOf(buffer, line)[p + 1] = 2
  PROVE  IsHeader(p)
  <1>1. Len(buffer) \in Nat /\ Len(line) \in Nat /\ p \in 1 .. Len(buffer) /\ p + 1 \in 1 .. Len(buffer)
    BY DEF BridgeTypes
  <1>2. buffer[p][2] = 1 /\ buffer[p + 1][2] = 2
    BY <1>1, BytesOf
  <1> QED
    BY <1>2 DEF IsHeader

(* What is parsed at a header: frame k itself, or 0.                       *)
ParsedAt(i, k, x) ==
  /\ k = buffer[i][1]
  /\ x = IF k > 0 /\ SubSeq(buffer, i, i + FrameSize - 1) = RefereeFrame(k) THEN k ELSE 0

LEMMA ParsedIs ==
  ASSUME BridgeTypes, NEW i \in Places, NEW x, NEW k, ParsedAt(i, k, x)
  PROVE  /\ x # 0 => /\ k > 0 /\ x = k
                     /\ \A j \in 0 .. FrameSize - 1 : buffer[i + j][1] = k /\ buffer[i + j][2] = j + 1
         /\ k > 0 /\ (\A j \in 0 .. FrameSize - 1 : buffer[i + j] = <<k, j + 1>>) => x = k
  <1>0. FrameSize \in Nat /\ FrameSize > 2
    BY BridgeAssumption
  <1>1. buffer \in Seq(Int \X Int) /\ Len(buffer) \in Nat /\ i \in Nat /\ i >= 1
        /\ i + FrameSize - 1 <= Len(buffer)
    BY <1>0 DEF BridgeTypes, Places
  <1> DEFINE bytes == SubSeq(buffer, i, i + FrameSize - 1)
  <1>2. /\ bytes \in Seq(Int \X Int) /\ Len(bytes) = FrameSize
        /\ \A m \in 1 .. FrameSize : bytes[m] = buffer[i + m - 1]
    BY <1>0, <1>1
  <1>3. DOMAIN bytes = 1 .. FrameSize /\ bytes = [m \in 1 .. FrameSize |-> bytes[m]]
    BY <1>2
  <1>4. \A m \in 1 .. FrameSize : RefereeFrame(k)[m] = <<k, m>>
    BY DEF RefereeFrame
  <1> HIDE DEF bytes
  <1>5. ASSUME bytes = RefereeFrame(k), NEW j \in 0 .. FrameSize - 1
        PROVE  buffer[i + j] = <<k, j + 1>>
    <2>1. j + 1 \in 1 .. FrameSize /\ i + (j + 1) - 1 = i + j
      BY <1>0, <1>1
    <2>2. bytes[j + 1] = buffer[i + j] /\ bytes[j + 1] = <<k, j + 1>>
      BY <1>2, <1>4, <1>5, <2>1
    <2> QED
      BY <2>2
  <1>6. ASSUME \A j \in 0 .. FrameSize - 1 : buffer[i + j] = <<k, j + 1>>
        PROVE  bytes = RefereeFrame(k)
    <2>1. ASSUME NEW m \in 1 .. FrameSize
          PROVE  bytes[m] = <<k, m>>
      <3>1. m - 1 \in 0 .. FrameSize - 1 /\ i + (m - 1) = i + m - 1 /\ (m - 1) + 1 = m
        BY <1>0, <1>1
      <3>2. buffer[i + (m - 1)] = <<k, (m - 1) + 1>>
        BY <1>6, <3>1
      <3> QED
        BY <1>2, <3>1, <3>2
    <2> QED
      BY <1>3, <2>1 DEF RefereeFrame
  <1>7. x = IF k > 0 /\ bytes = RefereeFrame(k) THEN k ELSE 0
    BY DEF bytes, ParsedAt
  <1>8. \A j \in 0 .. FrameSize - 1 :
          buffer[i + j] = <<k, j + 1>> => buffer[i + j][1] = k /\ buffer[i + j][2] = j + 1
    OBVIOUS
  <1> QED
    BY <1>5, <1>6, <1>7, <1>8

(* A frame whose first byte goes is accounted for: the first header that   *)
(* the search meets is its own, or lies in what follows the first byte of  *)
(* the frame before it, which is missed, and looks like one.               *)
LEMMA FoundAccounts ==
  ASSUME BridgeInv, NEW i \in Places, IsHeader(i), \A j \in 1 .. i - 1 : ~IsHeader(j),
         NEW F, F = FramesOf(buffer, line), NEW I, I = IndexesOf(buffer, line), NEW n, n = TotalOf(buffer, line),
         NEW c, c = i + FrameSize - 1, NEW G, NEW J, DroppedFrom(F, I, n, c, G, J), NEW x, NEW then,
         x # 0 => I[i] = 1 /\ x = F[i],
         F[i] > 0 /\ (\A j \in 0 .. FrameSize - 1 : F[i + j] = F[i] /\ I[i + j] = j + 1) => x = F[i],
         then = Done \cup {x},
         NEW p \in 1 .. c, F[p] \in 1 .. framesSent, I[p] = 1
  PROVE  Accounted(G, J, n - c, Hits, then, F[p])
  <1>0. FrameSize \in Nat /\ FrameSize > 2
    BY BridgeAssumption
  <1>1. buffer \in Seq(Int \X Int) /\ line \in Seq(Int \X Int) /\ framesSent \in Nat
    BY DEF BridgeInv, BridgeTypes
  <1>2. /\ Len(buffer) \in Nat /\ n \in Nat /\ Len(buffer) <= n
        /\ \A q \in 1 .. Len(buffer) : F[q] = buffer[q][1] /\ I[q] = buffer[q][2]
    <2>1. Len(buffer) \in Nat /\ Len(line) \in Nat
      BY <1>1
    <2> QED
      BY <2>1, BytesOf
  <1>3. i \in 1 .. Len(buffer) /\ c \in 1 .. Len(buffer) /\ i < c /\ i \in 1 .. n /\ p \in 1 .. n
    BY <1>0, <1>2 DEF Places
  <1>4. Sorted(F, I, n) /\ GoneOnce(F, n, Done) /\ RestFollows(F, I, n, Hits) /\ EndComesBefore(F, I, n, Hits)
    <2>1. InOrder(Sizes, F, I, n, Hits, framesSent) /\ GoneOnce(F, n, Done)
      BY DEF BridgeInv, OnTheWay, StreamInv
    <2> QED
      BY <1>1, <1>2, <2>1, FrameOrder DEF InOrder
  <1> SUFFICES ASSUME F[p] \notin Hits, F[p] - 1 \notin Hits
               PROVE  Accounted(G, J, n - c, Hits, then, F[p])
    BY DEF Accounted
  <1>5. ASSUME NEW j \in 0 .. FrameSize - 1
        PROVE  p + j <= n /\ F[p + j] = F[p] /\ I[p + j] = j + 1
    <2>1. j \in 0 .. FrameSize /\ I[p] + j <= FrameSize /\ F[p] >= 0
      BY <1>0
    <2>2. p + j <= n /\ F[p + j] = F[p] /\ I[p + j] = I[p] + j
      BY <1>3, <1>4, <2>1 DEF RestFollows
    <2> QED
      BY <2>2
  <1>6. p >= i
    <2> SUFFICES ASSUME p < i PROVE FALSE
      BY <1>3
    <2>1. 1 \in 0 .. FrameSize - 1
      BY <1>0
    <2>2. I[p + 1] = 2 /\ p \in 1 .. Len(buffer) - 1 /\ p \in 1 .. i - 1
      BY <1>3, <1>5, <2>1
    <2>3. IsHeader(p)
      BY <2>2, HeaderIs DEF BridgeInv
    <2> QED
      BY <2>2, <2>3
  <1>7. CASE p = i
    <2>1. x = F[i]
      BY <1>5, <1>7
    <2> QED
      BY <1>7, <2>1 DEF Accounted
  <1>8. CASE p > i
    <2> DEFINE k == F[p]
               j == p - i
    <2>1. j \in 1 .. FrameSize /\ j < p /\ j < FrameSize /\ p - j = i
      BY <1>0, <1>3, <1>8
    <2>2. F[i] = k - 1 /\ I[i] = FrameSize + 1 - j
      <3>1. F[p - j] = F[p] - 1 /\ I[p - j] = FrameSize + 1 - j
        <4>1. F[p] >= 1
          OBVIOUS
        <4> QED
          BY <1>3, <1>4, <2>1, <4>1 DEF EndComesBefore
      <3> QED
        BY <2>1, <3>1
    <2>3. I[i] \in 2 .. FrameSize /\ k \in 1 .. framesSent
      BY <1>0, <2>1, <2>2
    <2> HIDE DEF k, j
    <2>4. LooksLike(k - 1)
      <3>1. buffer[i] \in Int \X Int /\ buffer[i][1] = k - 1 /\ buffer[i][2] = I[i]
        <4>1. buffer[i] \in Int \X Int
          BY <1>1, <1>3
        <4>2. buffer[i][1] = k - 1 /\ buffer[i][2] = I[i]
          BY <1>2, <1>3, <2>2
        <4> QED
          BY <4>1, <4>2
      <3>2. buffer[i] = <<k - 1, I[i]>>
        BY <3>1
      <3>3. buffer[i] \in Starts
        BY <2>3, <3>1 DEF IsHeader
      <3>4. I[i] \in 1 .. FrameSize
        BY <1>0, <2>3
      <3> QED
        BY <3>2, <3>3, <3>4 DEF LooksLike
    <2>5. x = 0
      BY <2>3
    <2>6. k # 1 => k - 1 \notin then
      <3>1. k # 1 => k - 1 \notin Done
        <4>1. k # 1 => F[i] >= 1
          BY <2>2, <2>3
        <4> QED
          BY <1>3, <1>4, <2>2, <4>1 DEF GoneOnce
      <3> QED
        BY <2>3, <2>5, <3>1
    <2>7. ~Begins(G, J, n - c, k - 1)
      <3> SUFFICES ASSUME NEW q \in 1 .. n - c, G[q] = k - 1, J[q] = 1
                   PROVE  FALSE
        BY DEF Begins
      <3>1. F[q + c] = k - 1 /\ I[q + c] = 1
        BY DEF DroppedFrom
      <3>2. q + c \in 1 .. n /\ i < q + c
        BY <1>2, <1>3
      <3>3. F[q + c] >= 0 /\ F[i] >= 0
        BY <2>2, <2>3, <3>1
      <3>4. F[i] < F[q + c] \/ (F[i] = F[q + c] /\ I[i] < I[q + c])
        BY <1>3, <1>4, <3>2, <3>3 DEF Sorted
      <3> QED
        BY <2>2, <2>3, <3>1, <3>4
    <2>8. Accounted(G, J, n - c, Hits, then, k)
      BY <2>4, <2>6, <2>7 DEF Accounted
    <2> QED
      BY <2>8 DEF k
  <1> QED
    BY <1>3, <1>6, <1>7, <1>8

LEMMA FoundKeepsInv ==
  ASSUME BridgeInv, FrameFound
  PROVE  BridgeInv'
  <1>0. FrameSize \in Nat /\ FrameSize > 2
    BY BridgeAssumption
  <1>1. PICK i \in Places : /\ IsHeader(i) /\ \A j \in 1 .. i - 1 : ~IsHeader(j)
                            /\ ParseRefereeData(i) /\ buffer' = From(buffer, i + FrameSize)
    BY DEF FrameFound
  <1>2. line' = line /\ framesSent' = framesSent /\ scanning' = scanning /\ damaged' = damaged /\ scanning
    BY DEF FrameFound
  <1>3. /\ buffer \in Seq(Int \X Int) /\ line \in Seq(Int \X Int) /\ framesSent \in Nat
        /\ parsed \in Seq(Nat) /\ Done \subseteq 0 .. framesSent
    BY DEF BridgeInv, BridgeTypes
  <1>4. Len(buffer) \in Nat /\ Len(line) \in Nat
    BY <1>3
  <1> DEFINE F == FramesOf(buffer, line)
             I == IndexesOf(buffer, line)
             n == TotalOf(buffer, line)
             k == buffer[i][1]
             x == IF k > 0 /\ SubSeq(buffer, i, i + FrameSize - 1) = RefereeFrame(k) THEN k ELSE 0
             c == i + FrameSize - 1
             G == FramesOf(buffer', line)
             J == IndexesOf(buffer', line)
             then == Done \cup {x}
  <1>5. c \in 0 .. Len(buffer) /\ c + 1 = i + FrameSize /\ i \in 1 .. c /\ i \in 1 .. Len(buffer)
        /\ \A j \in 0 .. FrameSize - 1 : i + j \in 1 .. Len(buffer) /\ i + j <= c
    BY <1>0, <1>4 DEF Places
  <1>6. /\ n \in Nat /\ Len(buffer) <= n
        /\ \A p \in 1 .. Len(buffer) : F[p] = buffer[p][1] /\ I[p] = buffer[p][2]
    BY <1>4, BytesOf
  <1>7. /\ x # 0 => /\ k > 0 /\ x = k
                    /\ \A j \in 0 .. FrameSize - 1 : buffer[i + j][1] = k /\ buffer[i + j][2] = j + 1
        /\ k > 0 /\ (\A j \in 0 .. FrameSize - 1 : buffer[i + j] = <<k, j + 1>>) => x = k
    <2>1. ParsedAt(i, k, x)
      BY DEF ParsedAt
    <2> HIDE DEF x, k
    <2>2. BridgeTypes
      BY DEF BridgeInv
    <2> QED
      BY <2>1, <2>2, ParsedIs
  <1>8. parsed' = Append(parsed, x)
    BY <1>1 DEF ParseRefereeData
  <1> HIDE DEF F, I, n, x, c, G, J, k
  <1>9. F[i] = k /\ k \in Int
    BY <1>3, <1>4, <1>5, <1>6 DEF k
  <1>10. x # 0 => /\ x = F[i] /\ x > 0 /\ I[i] = 1 /\ I[c] = FrameSize /\ F[c] = x
    <2> SUFFICES ASSUME x # 0 PROVE x = F[i] /\ x > 0 /\ I[i] = 1 /\ I[c] = FrameSize /\ F[c] = x
      OBVIOUS
    <2>1. 0 \in 0 .. FrameSize - 1 /\ FrameSize - 1 \in 0 .. FrameSize - 1
          /\ i + 0 = i /\ i + (FrameSize - 1) = c /\ (FrameSize - 1) + 1 = FrameSize
      BY <1>0, <1>4, <1>5 DEF c
    <2>2. buffer[i][2] = 1 /\ buffer[c][1] = k /\ buffer[c][2] = FrameSize
      <3>1. buffer[i + 0][2] = 0 + 1
        BY <1>7, <2>1
      <3>2. buffer[i + (FrameSize - 1)][1] = k /\ buffer[i + (FrameSize - 1)][2] = (FrameSize - 1) + 1
        BY <1>7, <2>1
      <3> QED
        BY <2>1, <3>1, <3>2
    <2>3. c \in 1 .. Len(buffer)
      BY <1>4, <1>5
    <2> QED
      BY <1>5, <1>6, <1>7, <1>9, <2>2, <2>3
  <1>11. F[i] > 0 /\ (\A j \in 0 .. FrameSize - 1 : F[i + j] = F[i] /\ I[i + j] = j + 1) => x = F[i]
    <2> SUFFICES ASSUME F[i] > 0, \A j \in 0 .. FrameSize - 1 : F[i + j] = F[i] /\ I[i + j] = j + 1
                 PROVE  x = F[i]
      OBVIOUS
    <2>1. ASSUME NEW j \in 0 .. FrameSize - 1
          PROVE  buffer[i + j] = <<k, j + 1>>
      <3>1. i + j \in 1 .. Len(buffer) /\ F[i + j] = F[i] /\ I[i + j] = j + 1
        BY <1>5
      <3>2. buffer[i + j] \in Int \X Int
        BY <1>3, <3>1
      <3>3. buffer[i + j][1] = k /\ buffer[i + j][2] = j + 1
        BY <1>6, <1>9, <3>1
      <3> QED
        BY <3>2, <3>3
    <2> QED
      BY <1>7, <1>9, <2>1
  <1>12. /\ buffer' \in Seq(Int \X Int) /\ Len(buffer') = Len(buffer) - c
         /\ \A p \in 1 .. Len(buffer) - c : buffer'[p] = buffer[p + c]
    <2>1. buffer' = From(buffer, c + 1)
      BY <1>1, <1>5
    <2> QED
      BY <1>3, <1>5, <2>1, FromIs
  <1>13. TotalOf(buffer', line) = n - c /\ DroppedFrom(F, I, n, c, G, J)
    <2>1. CutTo(buffer, c, buffer')
      BY <1>12 DEF CutTo
    <2> QED
      BY <1>4, <1>5, <2>1, DropBytes DEF F, I, n, G, J
  <1>14. StreamInv(F, I, n, Hits, Done, framesSent)
    BY DEF BridgeInv, OnTheWay, F, I, n
  <1>15. \A p \in c + 1 .. n : F[p] >= 1 => F[p] \notin then
    <2> SUFFICES ASSUME NEW p \in c + 1 .. n, F[p] >= 1
                 PROVE  F[p] \notin then
      OBVIOUS
    <2>1. p \in 1 .. n /\ c \in 1 .. n /\ c < p
      BY <1>4, <1>5, <1>6
    <2>2. F[p] \notin Done
      BY <1>14, <2>1 DEF StreamInv, GoneOnce
    <2>3. F[p] # x
      <3> SUFFICES ASSUME F[p] = x PROVE FALSE
        OBVIOUS
      <3>1. F[c] = x /\ I[c] = FrameSize
        BY <1>10
      <3>2. Sorted(F, I, n) /\ InOrder(Sizes, F, I, n, Hits, framesSent)
        BY <1>14 DEF StreamInv, InOrder
      <3>6. FrameBytes(F, I, n, framesSent)
        BY <1>3, <1>6, <3>2, FrameOrder
      <3>3. F[c] >= 0 /\ F[p] >= 0
        BY <2>1, <3>1, <3>6 DEF FrameBytes
      <3>4. F[c] < F[p] \/ (F[c] = F[p] /\ I[c] < I[p])
        BY <2>1, <3>2, <3>3 DEF Sorted
      <3>5. I[p] <= FrameSize /\ F[p] \in Int /\ I[p] \in Int
        BY <1>0, <2>1, <3>6 DEF FrameBytes
      <3> QED
        BY <1>0, <3>1, <3>4, <3>5
    <2> QED
      BY <2>2, <2>3
  <1>16. \A m \in then : m \in Done \/ m = 0 \/ Begins(F, I, n, m)
    <2>1. i \in 1 .. n
      BY <1>4, <1>5, <1>6
    <2>2. x # 0 => Begins(F, I, n, x)
      BY <1>10, <2>1 DEF Begins
    <2> QED
      BY <2>2
  <1>17. \A p \in 1 .. c : F[p] \in 1 .. framesSent /\ I[p] = 1 => Accounted(G, J, n - c, Hits, then, F[p])
    <2> SUFFICES ASSUME NEW p \in 1 .. c, F[p] \in 1 .. framesSent, I[p] = 1
                 PROVE  Accounted(G, J, n - c, Hits, then, F[p])
      OBVIOUS
    <2>1. F = FramesOf(buffer, line) /\ I = IndexesOf(buffer, line) /\ n = TotalOf(buffer, line)
          /\ c = i + FrameSize - 1
      BY DEF F, I, n, c
    <2>2. then = Done \cup {x}
      OBVIOUS
    <2>3. x # 0 => I[i] = 1 /\ x = F[i]
      BY <1>10
    <2> HIDE DEF then
    <2> QED
      BY <1>1, <1>11, <1>13, <2>1, <2>2, <2>3, FoundAccounts
  <1>18. StreamInv(G, J, n - c, Hits, then, framesSent)
    <2>1. \A m \in Done : m \in then
      OBVIOUS
    <2>2. c \in 0 .. n
      BY <1>4, <1>5, <1>6
    <2> HIDE DEF then
    <2> QED
      BY <1>3, <1>6, <1>13, <1>14, <1>15, <1>16, <1>17, <2>1, <2>2, DropKeeps
  <1>19. x \in 0 .. framesSent
    <2>1. i \in 1 .. n
      BY <1>4, <1>5, <1>6
    <2>2. F[i] \in Int /\ (F[i] = -1 \/ F[i] \in 0 .. framesSent)
      BY <1>14, <2>1 DEF StreamInv, InOrder, BytesAre
    <2> QED
      BY <1>3, <1>10, <2>2
  <1>20. parsed' \in Seq(Nat) /\ Done' = then /\ Hits' = Hits
    <2>1. x \in Nat
      BY <1>3, <1>19
    <2>2. Append(parsed, x) \in Seq(Nat) /\ ElementsOf(Append(parsed, x)) = ElementsOf(parsed) \cup {x}
      <3>1. parsed \in Seq(Nat)
        BY <1>3
      <3> QED
        BY <2>1, <3>1, ElementsAppend, Zenon
    <2>3. Done' = ElementsOf(Append(parsed, x))
      BY <1>8 DEF Done
    <2>4. Hits' = Hits
      BY <1>2 DEF Hits
    <2> QED
      BY <1>8, <2>2, <2>3, <2>4 DEF Done
  <1>21. OnTheWay'
    <2>1. StreamInv(FramesOf(buffer', line'), IndexesOf(buffer', line'), TotalOf(buffer', line'), Hits', Done',
                    framesSent')
      BY <1>2, <1>13, <1>18, <1>20 DEF G, J
    <2> QED
      BY <2>1 DEF OnTheWay
  <1>22. BridgeTypes'
    BY <1>2, <1>12, <1>19, <1>20 DEF BridgeInv, BridgeTypes
  <1> QED
    BY <1>2, <1>21, <1>22 DEF BridgeInv, Searched

LEMMA NotFoundKeepsInv ==
  ASSUME BridgeInv, NoFrameFound
  PROVE  BridgeInv'
  <1>0. FrameSize \in Nat /\ FrameSize > 2 /\ KeepSize \in Nat /\ KeepSize >= FrameSize
    BY BridgeAssumption
  <1>1. /\ line' = line /\ framesSent' = framesSent /\ damaged' = damaged /\ parsed' = parsed
        /\ scanning' = FALSE /\ \A i \in Places : ~IsHeader(i)
        /\ buffer' = IF Len(buffer) > KeepSize THEN From(buffer, Len(buffer) - FrameSize + 1) ELSE buffer
    BY DEF NoFrameFound
  <1>2. buffer \in Seq(Int \X Int) /\ line \in Seq(Int \X Int) /\ framesSent \in Nat
    BY DEF BridgeInv, BridgeTypes
  <1>3. Len(buffer) \in Nat /\ Len(line) \in Nat
    BY <1>2
  <1>4. Done' = Done /\ Hits' = Hits
    BY <1>1 DEF Done, Hits
  <1>5. CASE ~(Len(buffer) > KeepSize)
    <2>1. buffer' = buffer
      BY <1>1, <1>5
    <2>2. OnTheWay'
      BY <1>1, <1>4, <2>1 DEF BridgeInv, OnTheWay
    <2>3. BridgeTypes'
      BY <1>1, <1>4, <2>1 DEF BridgeInv, BridgeTypes
    <2>4. Searched'
      BY <1>1, <2>1 DEF Searched, Places, IsHeader
    <2> QED
      BY <2>2, <2>3, <2>4 DEF BridgeInv
  <1>6. CASE Len(buffer) > KeepSize
    <2> DEFINE F == FramesOf(buffer, line)
               I == IndexesOf(buffer, line)
               n == TotalOf(buffer, line)
               c == Len(buffer) - FrameSize
               G == FramesOf(buffer', line)
               J == IndexesOf(buffer', line)
    <2>1. c \in 0 .. Len(buffer) /\ Len(buffer) - FrameSize + 1 = c + 1 /\ Len(buffer) - c = FrameSize
      BY <1>0, <1>3, <1>6
    <2>2. \A p \in 1 .. c + 1 : p \in Places /\ p \in 1 .. Len(buffer) - 1
      BY <1>0, <1>3, <2>1 DEF Places
    <2> HIDE DEF F, I, n, c, G, J
    <2>3. /\ buffer' \in Seq(Int \X Int) /\ Len(buffer') = Len(buffer) - c
          /\ \A p \in 1 .. Len(buffer) - c : buffer'[p] = buffer[p + c]
      <3>1. buffer' = From(buffer, c + 1)
        BY <1>1, <1>6, <2>1
      <3> QED
        BY <1>2, <2>1, <3>1, FromIs
    <2>4. TotalOf(buffer', line) = n - c /\ DroppedFrom(F, I, n, c, G, J)
      <3>1. CutTo(buffer, c, buffer')
        BY <2>3 DEF CutTo
      <3> QED
        BY <1>3, <2>1, <3>1, DropBytes DEF F, I, n, G, J
    <2>5. StreamInv(F, I, n, Hits, Done, framesSent)
      BY DEF BridgeInv, OnTheWay, F, I, n
    <2>6. n \in Nat /\ Len(buffer) <= n
      BY <1>3, BytesOf DEF n
    <2>7. \A p \in 1 .. c : F[p] \in 1 .. framesSent /\ I[p] = 1 => Accounted(G, J, n - c, Hits, Done, F[p])
      <3> SUFFICES ASSUME NEW p \in 1 .. c, F[p] \in 1 .. framesSent, I[p] = 1, F[p] \notin Hits
                   PROVE  FALSE
        BY DEF Accounted
      <3>1. p \in 1 .. n /\ 1 \in 0 .. FrameSize /\ I[p] + 1 <= FrameSize /\ F[p] >= 0 /\ p \in 1 .. c + 1
        BY <1>0, <1>3, <2>1, <2>6
      <3>2. I[p + 1] = 2
        <4>1. InOrder(Sizes, F, I, n, Hits, framesSent)
          BY <2>5 DEF StreamInv
        <4>3. RestFollows(F, I, n, Hits)
          BY <1>2, <2>6, <4>1, FrameOrder
        <4>2. I[p + 1] = I[p] + 1
          BY <3>1, <4>3 DEF RestFollows
        <4> QED
          BY <4>2
      <3>3. IsHeader(p)
        BY <2>2, <3>1, <3>2, HeaderIs DEF BridgeInv, I
      <3> QED
        BY <1>1, <2>2, <3>1, <3>3
    <2>8. \A p \in c + 1 .. n : F[p] >= 1 => F[p] \notin Done
      <3>1. \A p \in c + 1 .. n : p \in 1 .. n
        BY <1>3, <2>1, <2>6
      <3> QED
        BY <2>5, <3>1 DEF StreamInv, GoneOnce
    <2>9. StreamInv(G, J, n - c, Hits, Done, framesSent)
      <3>1. c \in 0 .. n
        BY <1>3, <2>1, <2>6
      <3> QED
        BY <1>2, <2>4, <2>5, <2>6, <2>7, <2>8, <3>1, DropKeeps
    <2>10. OnTheWay'
      BY <1>1, <1>4, <2>4, <2>9 DEF OnTheWay, G, J
    <2>11. BridgeTypes'
      BY <1>1, <1>4, <2>3 DEF BridgeInv, BridgeTypes
    <2>12. Searched'
      <3> SUFFICES ASSUME NEW i \in Places'
                   PROVE  ~IsHeader(i)'
        BY DEF Searched
      <3>1. i = 1
        BY <1>0, <2>1, <2>3 DEF Places
      <3>2. buffer'[1] = buffer[c + 1] /\ buffer'[1 + 1] = buffer[(c + 1) + 1]
        <4>1. 1 \in 1 .. Len(buffer) - c /\ 1 + 1 \in 1 .. Len(buffer) - c
              /\ 1 + c = c + 1 /\ (1 + 1) + c = (c + 1) + 1
          BY <1>0, <2>1
        <4> QED
          BY <2>3, <4>1
      <3>3. ~IsHeader(c + 1)
        <4>1. c + 1 \in 1 .. c + 1
          BY <2>1
        <4> QED
          BY <1>1, <2>2, <4>1
      <3> QED
        BY <3>1, <3>2, <3>3 DEF IsHeader
    <2> QED
      BY <2>10, <2>11, <2>12 DEF BridgeInv
  <1> QED
    BY <1>5, <1>6

LEMMA BridgeStep == BridgeInv /\ [BridgeNext]_bridgeVars => BridgeInv'
  <1> SUFFICES ASSUME BridgeInv, [BridgeNext]_bridgeVars
               PROVE  BridgeInv'
    OBVIOUS
  <1>1. CASE BoardSendsFrame
    BY <1>1, SendKeepsInv
  <1>2. ASSUME NEW i \in 1 .. Len(line), Damage(i) \/ ReadPort(i)
        PROVE  BridgeInv'
    BY <1>2, DamageKeepsInv, ReadKeepsInv
  <1>3. CASE FrameFound
    BY <1>3, FoundKeepsInv
  <1>4. CASE NoFrameFound
    BY <1>4, NotFoundKeepsInv
  <1>5. CASE UNCHANGED bridgeVars
    BY <1>5 DEF bridgeVars, BridgeInv, BridgeTypes, Searched, Places, IsHeader, OnTheWay, Hits, Done
  <1> QED
    BY <1>1, <1>2, <1>3, <1>4, <1>5 DEF BridgeNext

(* In which order and in what company the bytes of frames wait, and why a  *)
(* frame that was not handled was lost, in every behaviour.                *)
THEOREM BridgeInvariant == BridgeSpec => []BridgeInv
  BY BridgeBegins, BridgeStep, PTL DEF BridgeSpec

LEMMA NothingWaits == BridgeInv => BridgeRecovers
  <1> SUFFICES ASSUME BridgeInv, ~scanning, line = <<>>, NEW k \in 1 .. framesSent
               PROVE  Parsed(k) \/ BridgeExcused(k)
    BY DEF BridgeRecovers
  <1>0. FrameSize \in Nat /\ FrameSize > 2
    BY BridgeAssumption
  <1>1. buffer \in Seq(Int \X Int) /\ Len(buffer) \in Nat /\ Len(line) = 0 /\ framesSent \in Nat
    BY DEF BridgeInv, BridgeTypes
  <1> DEFINE F == FramesOf(buffer, line)
             I == IndexesOf(buffer, line)
             n == TotalOf(buffer, line)
  <1>2. n = Len(buffer)
    BY <1>1 DEF TotalOf
  <1>3. StreamInv(F, I, n, Hits, Done, framesSent)
    BY DEF BridgeInv, OnTheWay
  <1> HIDE DEF F, I, n
  <1>4. /\ \A m : m \in Done <=> Parsed(m)
        /\ \A m : m \in Hits <=> Hit(m)
    BY DEF Done, Hits, ElementsOf, Parsed, Hit
  <1>5. Accounted(F, I, n, Hits, Done, k) => Parsed(k) \/ BridgeExcused(k)
    BY <1>4, Zenon DEF Accounted, BridgeExcused
  <1>6. ASSUME Begins(F, I, n, k), k \notin Hits
        PROVE  FALSE
    <2>1. PICK p \in 1 .. n : F[p] = k /\ I[p] = 1
      BY <1>6 DEF Begins
    <2>2. \A j \in 0 .. FrameSize - 1 : p + j <= n /\ I[p + j] = 1 + j
      <3> TAKE j \in 0 .. FrameSize - 1
      <3>1. j \in 0 .. FrameSize /\ I[p] + j <= FrameSize /\ F[p] >= 0 /\ F[p] \notin Hits
        BY <1>0, <1>6, <2>1
      <3>2. InOrder(Sizes, F, I, n, Hits, framesSent) /\ n \in Nat
        BY <1>1, <1>2, <1>3 DEF StreamInv
      <3>3. p + j <= n /\ I[p + j] = I[p] + j
        <4>1. RestFollows(F, I, n, Hits)
          BY <1>1, <3>2, FrameOrder
        <4> QED
          BY <2>1, <3>1, <4>1 DEF RestFollows
      <3> QED
        BY <2>1, <3>3
    <2>3. 1 \in 0 .. FrameSize - 1 /\ FrameSize - 1 \in 0 .. FrameSize - 1
      BY <1>0
    <2>4. I[p + 1] = 2 /\ p + (FrameSize - 1) <= n
      BY <2>2, <2>3
    <2>5. p \in 1 .. Len(buffer) - 1 /\ p \in Places
      BY <1>0, <1>1, <1>2, <2>4 DEF Places
    <2>6. IsHeader(p)
      BY <2>1, <2>4, <2>5, HeaderIs DEF BridgeInv, I
    <2> QED
      BY <2>5, <2>6 DEF BridgeInv, Searched
  <1>7. k \in Hits => BridgeExcused(k)
    BY <1>4 DEF BridgeExcused
  <1> QED
    BY <1>3, <1>5, <1>6, <1>7 DEF StreamInv, Present

(***************************************************************************)
(* For frames and a buffer of any size, any data that look like headers    *)
(* and any number of bytes damaged.                                        *)
(***************************************************************************)
THEOREM BridgeAlwaysRecovers == BridgeSpec => []BridgeRecovers
  BY BridgeInvariant, NothingWaits, PTL

-----------------------------------------------------------------------------
(* receiveData: it holds the bytes read since the last sof.                *)
Lengths == [k \in Numbers |-> FrameLen(k)]
Held == IF step = "sof" THEN <<>> ELSE taken
Handed == ElementsOf(published)

(* What was published came before all that is still on its way.            *)
Earlier(F, n, done) == \A p \in 1 .. n : F[p] >= 0 => \A k \in done : k < F[p]

(* A packet is published, or about to be, unless one of the reasons of     *)
(* Excused holds: of a packet that was missed no first byte is left.       *)
Missed(F, I, n, done, k) == k \notin done /\ ~Begins(F, I, n, k)
Explained(F, I, n, hits, done, pieces, k) ==
  \/ k \in done \/ k \in hits \/ k \in pieces \/ k \in DebugPackets \/ k - 1 \in hits
  \/ SofNearEnd(k - 1) /\ Missed(F, I, n, done, k - 1)
  \/ \E m \in hits :
       /\ m < k - 1 /\ FrameLen(k - 1) + HeaderLen < FrameLen(m)
       /\ \A j \in m .. k - 1 : Missed(F, I, n, done, j)
AllExplained(F, I, n, hits, done, pieces, last) ==
  \A k \in 1 .. last : Begins(F, I, n, k) \/ Explained(F, I, n, hits, done, pieces, k)

WireInv(F, I, n, hits, done, pieces, last) ==
  /\ InOrder(Lengths, F, I, n, hits, last) /\ Earlier(F, n, done)
  /\ AllExplained(F, I, n, hits, done, pieces, last)

ReceiveTypes ==
  /\ wire \in Seq(Int \X Int) /\ taken \in Seq(Int \X Int)
  /\ header_frame_buf \in Seq(Int \X Int) /\ data_buf \in Seq(Int \X Int)
  /\ sent \in 0 .. NumPackets /\ step \in {"sof", "header", "data", "parse"}
  /\ remain_len \in Int /\ received_len_sum \in Nat
  /\ published \in Seq(Nat) /\ Handed \subseteq 1 .. sent
  /\ hit \subseteq 0 .. sent

SofRead == step = "header" => Len(taken) = 1 /\ IsSof(taken[1])

(* While the data of a packet are read: its header, what is missing, and   *)
(* zeros in data_buf where nothing came yet.                               *)
DataOf(k) ==
  /\ header_frame_buf = Header(k)
  /\ \A i \in 1 .. 4 : taken[i] = <<k, i>>
  /\ Len(taken) = 4 + received_len_sum
  /\ remain_len \in Nat /\ remain_len = len[k] + 2 - received_len_sum
  /\ step = "parse" => remain_len = 0
  /\ received_len_sum <= Len(data_buf)
  /\ \A i \in 1 .. Len(data_buf) : data_buf[i] = IF i <= received_len_sum THEN taken[4 + i] ELSE Zero
DataRead == step \in {"data", "parse"} => \E k \in Numbers : DataOf(k)

OnTheWire ==
  WireInv(FramesOf(Held, wire), IndexesOf(Held, wire), TotalOf(Held, wire), hit, Handed, split, sent)

ReceiveInv == ReceiveTypes /\ SofRead /\ DataRead /\ OnTheWire

(* Packets, their headers and zeros.                                       *)
LEMMA LengthsAre ==
  /\ \A k \in Numbers : Lengths[k] = FrameLen(k) /\ FrameLen(k) \in Nat /\ FrameLen(k) >= 7
                        /\ len[k] \in Nat /\ FrameLen(k) = 4 + len[k] + 2
  /\ \A last \in 0 .. NumPackets : SizesAre(Lengths, last)
  /\ Numbers \subseteq Nat /\ NumPackets \in Nat /\ Numbers = 0 .. NumPackets
  <1>1. NumPackets \in Nat /\ Numbers \subseteq Nat /\ Numbers = 0 .. NumPackets
    BY ReceiveParameters DEF Numbers
  <1>2. ASSUME NEW k \in Numbers
        PROVE  /\ Lengths[k] = FrameLen(k) /\ FrameLen(k) \in Nat /\ FrameLen(k) >= 7
               /\ len[k] \in Nat /\ FrameLen(k) = 4 + len[k] + 2
    <2>1. len[k] \in Nat \ {0}
      BY ReceiveParameters
    <2> QED
      BY <2>1 DEF Lengths, FrameLen, HeaderLen
  <1>3. \A last \in 0 .. NumPackets : \A k \in 0 .. last : k \in Numbers
    BY <1>1 DEF Numbers
  <1> QED
    BY <1>1, <1>2, <1>3 DEF SizesAre

LEMMA FrameIs ==
  ASSUME NEW k \in Numbers
  PROVE  /\ Frame(k) \in Seq(Int \X Int) /\ Len(Frame(k)) = FrameLen(k)
         /\ \A i \in 1 .. FrameLen(k) : Frame(k)[i] = <<k, i>>
  <1>1. FrameLen(k) \in Nat /\ k \in Int
    BY LengthsAre
  <1>2. Frame(k) \in [1 .. FrameLen(k) -> Int \X Int]
    BY <1>1 DEF Frame
  <1>3. Frame(k) \in Seq(Int \X Int) /\ Len(Frame(k)) = FrameLen(k)
    BY <1>1, <1>2, SeqDef
  <1> QED
    BY <1>3 DEF Frame

LEMMA HeaderOf ==
  ASSUME NEW k \in Numbers
  PROVE  /\ Header(k) \in Seq(Int \X Int) /\ Len(Header(k)) = 4
         /\ \A i \in 1 .. 4 : Header(k)[i] = <<k, i>>
  <1> DEFINE r == Frame(k)
  <1>1. r \in Seq(Int \X Int) /\ Len(r) = FrameLen(k) /\ \A i \in 1 .. FrameLen(k) : r[i] = <<k, i>>
    BY FrameIs
  <1>2. FrameLen(k) \in Nat /\ FrameLen(k) >= 7 /\ Header(k) = SubSeq(r, 1, 4)
    BY LengthsAre DEF Header, HeaderLen
  <1> HIDE DEF r
  <1>3. 4 \in 0 .. Len(r)
    BY <1>1, <1>2
  <1>4. /\ SubSeq(r, 1, 4) \in Seq(Int \X Int) /\ Len(SubSeq(r, 1, 4)) = 4
        /\ \A p \in 1 .. 4 : SubSeq(r, 1, 4)[p] = r[p]
    <2>1. r \in Seq(Int \X Int)
      BY <1>1
    <2> QED
      BY <1>3, <2>1, FirstIs
  <1> QED
    BY <1>1, <1>2, <1>4

LEMMA NumberOfHeader ==
  ASSUME NEW k \in Numbers
  PROVE  NumberOf(Header(k)) = k
  <1>1. \A j \in Numbers : Header(k) = Header(j) => j = k
    <2> SUFFICES ASSUME NEW j \in Numbers, Header(k) = Header(j) PROVE j = k
      OBVIOUS
    <2>1. Header(k)[1] = <<k, 1>> /\ Header(j)[1] = <<j, 1>>
      BY HeaderOf
    <2> QED
      BY <2>1
  <1>2. NumberOf(Header(k)) \in Numbers /\ Header(k) = Header(NumberOf(Header(k)))
    BY DEF NumberOf
  <1> QED
    BY <1>1, <1>2

LEMMA ZerosAre ==
  ASSUME NEW n \in Nat
  PROVE  /\ Zeros(n) \in Seq(Int \X Int) /\ Len(Zeros(n)) = n
         /\ \A i \in 1 .. n : Zeros(n)[i] = Zero
  <1>1. Zeros(n) \in [1 .. n -> Int \X Int]
    BY DEF Zeros, Zero
  <1>2. Zeros(n) \in Seq(Int \X Int) /\ Len(Zeros(n)) = n
    BY <1>1, SeqDef
  <1> QED
    BY <1>2 DEF Zeros

(* What is in the port and what remains there after a read.                *)
LEMMA PortIs ==
  ASSUME wire \in Seq(Int \X Int), NEW n \in 0 .. Len(wire)
  PROVE  /\ First(n) \in Seq(Int \X Int) /\ Len(First(n)) = n
         /\ \A p \in 1 .. n : First(n)[p] = wire[p]
         /\ After(n) \in Seq(Int \X Int) /\ Len(After(n)) = Len(wire) - n
         /\ \A p \in 1 .. Len(wire) - n : After(n)[p] = wire[p + n]
  <1>1. After(n) = From(wire, n + 1) /\ First(n) = SubSeq(wire, 1, n)
    BY DEF After, First, From
  <1>2. /\ SubSeq(wire, 1, n) \in Seq(Int \X Int) /\ Len(SubSeq(wire, 1, n)) = n
        /\ \A p \in 1 .. n : SubSeq(wire, 1, n)[p] = wire[p]
    BY FirstIs
  <1>3. /\ From(wire, n + 1) \in Seq(Int \X Int) /\ Len(From(wire, n + 1)) = Len(wire) - n
        /\ \A p \in 1 .. Len(wire) - n : From(wire, n + 1)[p] = wire[p + n]
    BY FromIs
  <1> QED
    BY <1>1, <1>2, <1>3

(* A reason stays one as long as no packet that was missed comes back.     *)
LEMMA StaysExplained ==
  ASSUME NEW n, NEW F, NEW I, NEW n2, NEW G, NEW J, NEW hits, NEW more, NEW done, NEW then,
         NEW pieces, NEW apart, NEW k \in Nat, k >= 1, Explained(F, I, n, hits, done, pieces, k),
         \A m \in hits : m \in Nat /\ m \in more, \A m \in done : m \in then, \A m \in pieces : m \in apart,
         \A j \in Nat : j < k /\ Missed(F, I, n, done, j) => Missed(G, J, n2, then, j)
  PROVE  Explained(G, J, n2, more, then, apart, k)
  <1>1. CASE k \in done \/ k \in hits \/ k \in pieces \/ k \in DebugPackets \/ k - 1 \in hits
    BY <1>1 DEF Explained
  <1>2. CASE SofNearEnd(k - 1) /\ Missed(F, I, n, done, k - 1)
    <2>1. k - 1 \in Nat /\ k - 1 < k
      OBVIOUS
    <2> QED
      BY <1>2, <2>1 DEF Explained
  <1>3. ASSUME NEW m \in hits, m < k - 1, FrameLen(k - 1) + HeaderLen < FrameLen(m),
               \A j \in m .. k - 1 : Missed(F, I, n, done, j)
        PROVE  Explained(G, J, n2, more, then, apart, k)
    <2>1. m \in Nat /\ m \in more
      OBVIOUS
    <2>2. \A j \in m .. k - 1 : j \in Nat /\ j < k
      BY <2>1
    <2> QED
      BY <1>3, <2>1, <2>2 DEF Explained
  <1> QED
    BY <1>1, <1>2, <1>3 DEF Explained

(* Of what comes before a byte that is dropped, nothing is left.           *)
LEMMA GoneBefore ==
  ASSUME NEW z, NEW n \in Nat, NEW c \in 0 .. n, NEW F, NEW I, NEW G, NEW J, NEW hits, NEW last \in Nat,
         InOrder(z, F, I, n, hits, last), SizesAre(z, last), DroppedFrom(F, I, n, c, G, J),
         NEW p \in 1 .. c, F[p] >= 0, NEW j \in Nat, j <= F[p]
  PROVE  ~Begins(G, J, n - c, j)
  <1> SUFFICES ASSUME NEW q \in 1 .. n - c, G[q] = j, J[q] = 1
               PROVE  FALSE
    BY DEF Begins
  <1>1. q + c \in 1 .. n /\ p \in 1 .. n /\ p < q + c
    OBVIOUS
  <1>2. F[q + c] = j /\ I[q + c] = 1
    BY DEF DroppedFrom
  <1>3. F[p] \in Int /\ I[p] \in Int /\ I[p] >= 1
    BY <1>1 DEF InOrder, BytesAre, SizesAre
  <1>4. F[p] < F[q + c] \/ (F[p] = F[q + c] /\ I[p] < I[q + c])
    BY <1>1, <1>2 DEF InOrder, Sorted
  <1> QED
    BY <1>2, <1>3, <1>4

LEMMA WireDropped ==
  ASSUME NEW n \in Nat, NEW c \in 0 .. n, NEW F, NEW I, NEW G, NEW J, NEW hits, NEW more, NEW done, NEW then,
         NEW pieces, NEW apart, NEW last \in 0 .. NumPackets,
         WireInv(F, I, n, hits, done, pieces, last), DroppedFrom(F, I, n, c, G, J),
         \A k \in hits : k \in Nat /\ k \in more, \A k \in pieces : k \in apart,
         \A k \in done : k \in then, \A k \in then : k \in done \/ Begins(F, I, n, k),
         \A p \in c + 1 .. n : F[p] >= 0 => \A k \in then : k < F[p],
         \A p \in 1 .. c : F[p] \in 1 .. last /\ I[p] = 1 => Explained(G, J, n - c, more, then, apart, F[p])
  PROVE  WireInv(G, J, n - c, more, then, apart, last)
  <1> USE DEF DroppedFrom
  <1>0. \A p \in 1 .. n - c : p + c \in 1 .. n /\ p + c \in c + 1 .. n
    OBVIOUS
  <1>1. InOrder(Lengths, G, J, n - c, more, last)
    <2>1. SizesAre(Lengths, last) /\ last \in Nat
      BY LengthsAre
    <2>2. InOrder(Lengths, G, J, n - c, hits, last)
      BY <2>1, DropInOrder DEF WireInv
    <2> QED
      BY <2>2, MoreHits
  <1>2. Earlier(G, n - c, then)
    BY <1>0 DEF Earlier
  <1>3. \A k : Begins(G, J, n - c, k) => Begins(F, I, n, k)
    BY <1>0 DEF Begins
  <1>4. ASSUME NEW k \in 1 .. last
        PROVE  Begins(G, J, n - c, k) \/ Explained(G, J, n - c, more, then, apart, k)
    <2>1. CASE Begins(F, I, n, k)
      <3>1. PICK p \in 1 .. n : F[p] = k /\ I[p] = 1
        BY <2>1 DEF Begins
      <3>2. CASE p <= c
        BY <3>1, <3>2
      <3>3. CASE p > c
        <4>1. p - c \in 1 .. n - c /\ (p - c) + c = p
          BY <3>3
        <4> QED
          BY <3>1, <4>1 DEF Begins
      <3> QED
        BY <3>2, <3>3
    <2>2. CASE Explained(F, I, n, hits, done, pieces, k)
      <3>1. \A j : Missed(F, I, n, done, j) => Missed(G, J, n - c, then, j)
        BY <1>3 DEF Missed
      <3>2. k \in Nat /\ k >= 1
        OBVIOUS
      <3> QED
        BY <2>2, <3>1, <3>2, StaysExplained
    <2> QED
      BY <2>1, <2>2 DEF WireInv, AllExplained
  <1> QED
    BY <1>1, <1>2, <1>4 DEF WireInv, AllExplained

LEMMA WireExtended ==
  ASSUME NEW n \in Nat, NEW F, NEW I, NEW G, NEW J, NEW hits, NEW done, NEW pieces, NEW last \in Nat,
         last < NumPackets, WireInv(F, I, n, hits, done, pieces, last), \A k \in hits : k \in 0 .. last,
         \A k \in done : k \in 1 .. last, Followed(Lengths, F, I, n, last + 1, G, J)
  PROVE  WireInv(G, J, n + FrameLen(last + 1), hits, done, pieces, last + 1)
  <1> USE DEF Followed
  <1>0. /\ last + 1 \in Numbers /\ NumPackets \in Nat /\ SizesAre(Lengths, last + 1)
        /\ Lengths[last + 1] = FrameLen(last + 1) /\ FrameLen(last + 1) \in Nat /\ FrameLen(last + 1) >= 7
    <2>1. NumPackets \in Nat /\ last + 1 \in 0 .. NumPackets
      BY LengthsAre
    <2> QED
      BY <2>1, LengthsAre
  <1> DEFINE size == FrameLen(last + 1)
  <1>00. \A i \in 1 .. size : G[n + i] = last + 1 /\ J[n + i] = i
    BY <1>0
  <1>01. \A p \in 1 .. n + size : p \in 1 .. n \/ G[p] = last + 1
    <2> TAKE p \in 1 .. n + size
    <2>1. p \in 1 .. n \/ (p - n \in 1 .. size /\ n + (p - n) = p)
      BY <1>0
    <2> QED
      BY <1>00, <2>1
  <1>1. InOrder(Lengths, G, J, n + size, hits, last + 1)
    <2>1. last + 1 \notin hits
      OBVIOUS
    <2>2. InOrder(Lengths, F, I, n, hits, last)
      BY DEF WireInv
    <2> QED
      BY <1>0, <2>1, <2>2, SendInOrder
  <1> HIDE DEF size
  <1>2. Earlier(G, n + size, done)
    <2>1. \A k \in done : k < last + 1
      OBVIOUS
    <2>2. \A p \in 1 .. n : F[p] >= 0 => \A k \in done : k < F[p]
      BY DEF WireInv, Earlier
    <2>3. \A p \in 1 .. n : G[p] = F[p]
      OBVIOUS
    <2> QED
      BY <1>01, <2>1, <2>2, <2>3 DEF Earlier
  <1>3. \A k \in Int : k <= last => (Begins(G, J, n + size, k) <=> Begins(F, I, n, k))
    <2>1. \A p \in 1 .. n : p \in 1 .. n + size
      BY <1>0 DEF size
    <2>2. \A k \in Int : k <= last => k # last + 1
      OBVIOUS
    <2> QED
      BY <1>01, <2>1, <2>2 DEF Begins
  <1>4. Begins(G, J, n + size, last + 1)
    <2>1. n + 1 \in 1 .. n + size /\ G[n + 1] = last + 1 /\ J[n + 1] = 1
      BY <1>0, <1>00 DEF size
    <2> QED
      BY <2>1 DEF Begins
  <1>5. ASSUME NEW k \in 1 .. last
        PROVE  Begins(G, J, n + size, k) \/ Explained(G, J, n + size, hits, done, pieces, k)
    <2>1. k \in Nat /\ k >= 1 /\ k <= last
      OBVIOUS
    <2>2. CASE Begins(F, I, n, k)
      BY <1>3, <2>1, <2>2
    <2>3. CASE Explained(F, I, n, hits, done, pieces, k)
      <3>1. \A j \in Nat : j < k /\ Missed(F, I, n, done, j) => Missed(G, J, n + size, done, j)
        BY <1>3 DEF Missed
      <3>2. \A m \in hits : m \in Nat
        OBVIOUS
      <3> QED
        BY <2>1, <2>3, <3>1, <3>2, StaysExplained
    <2> QED
      BY <2>2, <2>3 DEF WireInv, AllExplained
  <1>6. \A k \in 1 .. last + 1 : k \in 1 .. last \/ k = last + 1
    OBVIOUS
  <1>7. AllExplained(G, J, n + size, hits, done, pieces, last + 1)
    BY <1>4, <1>5, <1>6 DEF AllExplained
  <1> QED
    BY <1>1, <1>2, <1>7 DEF WireInv, size

(* A byte was lost or turned into noise.                                   *)
LEMMA WireHit ==
  ASSUME NEW n \in Nat, NEW n2 \in Nat, NEW F, NEW I, NEW G, NEW J, NEW hits, NEW more, NEW done, NEW pieces,
         NEW last \in 0 .. NumPackets, NEW x,
         WireInv(F, I, n, hits, done, pieces, last), InOrder(Lengths, G, J, n2, more, last),
         \A k \in hits : k \in Nat /\ k \in more, x \in 1 .. last => x \in more,
         \A p \in 1 .. n2 : G[p] = -1 \/ \E q \in 1 .. n : G[p] = F[q] /\ J[p] = I[q],
         \A k \in Nat : Begins(F, I, n, k) /\ k # x => Begins(G, J, n2, k)
  PROVE  WireInv(G, J, n2, more, done, pieces, last)
  <1>1. Earlier(G, n2, done)
    BY DEF WireInv, Earlier
  <1>2. \A k \in Nat : Begins(G, J, n2, k) => Begins(F, I, n, k)
    BY DEF Begins
  <1>3. ASSUME NEW k \in 1 .. last
        PROVE  Begins(G, J, n2, k) \/ Explained(G, J, n2, more, done, pieces, k)
    <2>1. k \in Nat /\ k >= 1
      OBVIOUS
    <2>2. CASE Begins(F, I, n, k)
      <3>1. CASE k = x
        BY <3>1 DEF Explained
      <3> QED
        BY <2>1, <2>2, <3>1
    <2>3. CASE Explained(F, I, n, hits, done, pieces, k)
      <3>1. \A j \in Nat : Missed(F, I, n, done, j) => Missed(G, J, n2, done, j)
        BY <1>2 DEF Missed
      <3> QED
        BY <2>1, <2>3, <3>1, StaysExplained
    <2> QED
      BY <2>2, <2>3 DEF WireInv, AllExplained
  <1> QED
    BY <1>1, <1>3 DEF WireInv, AllExplained

(* A packet that begins among the bytes read as a header of another one:   *)
(* one of the last three bytes of the packet before looked like a sof.     *)
LEMMA BeginsInHeader ==
  ASSUME NEW n \in Nat, NEW c \in 0 .. n, c <= 4, NEW F, NEW I, NEW G, NEW J, NEW hits, NEW done, NEW pieces,
         NEW last \in 0 .. NumPackets, WireInv(F, I, n, hits, done, pieces, last),
         DroppedFrom(F, I, n, c, G, J), \A k \in done : k \in Nat /\ k >= 1,
         I[1] = 1 \/ <<F[1], I[1]>> \in SofBytes,
         NEW p \in 1 .. c, p > 1, F[p] \in 1 .. last, I[p] = 1, F[p] - 1 \notin hits
  PROVE  SofNearEnd(F[p] - 1) /\ Missed(G, J, n - c, done, F[p] - 1)
  <1>0. /\ SizesAre(Lengths, last) /\ F[p] - 1 \in Numbers /\ F[p] - 1 \in Nat /\ p \in 1 .. n /\ last \in Nat
        /\ Lengths[F[p] - 1] = FrameLen(F[p] - 1) /\ FrameLen(F[p] - 1) \in Nat /\ FrameLen(F[p] - 1) >= 7
    <2>1. F[p] - 1 \in 0 .. NumPackets
      BY LengthsAre
    <2> QED
      BY <2>1, LengthsAre
  <1> DEFINE size == FrameLen(F[p] - 1)
  <1>1. F[1] = F[p] - 1 /\ I[1] = size + 2 - p
    <2>1. p - 1 \in 1 .. Lengths[F[p] - 1] /\ p - 1 < p
      BY <1>0
    <2>2. F[p - (p - 1)] = F[p] - 1 /\ I[p - (p - 1)] = Lengths[F[p] - 1] + 1 - (p - 1)
      BY <1>0, <2>1 DEF WireInv, InOrder, Behind
    <2>3. p - (p - 1) = 1
      OBVIOUS
    <2> QED
      BY <1>0, <2>2, <2>3
  <1>2. SofNearEnd(F[p] - 1)
    <2>1. I[1] \in size - 2 .. size /\ I[1] # 1
      BY <1>0, <1>1
    <2>2. <<F[p] - 1, I[1]>> \in SofBytes
      BY <1>1, <2>1
    <2> QED
      BY <2>1, <2>2 DEF SofNearEnd
  <1>3. F[p] - 1 \notin done
    <2>1. 1 \in 1 .. n /\ F[1] >= 0
      BY <1>0, <1>1
    <2>2. \A k \in done : k < F[1]
      BY <2>1 DEF WireInv, Earlier
    <2> QED
      BY <1>0, <1>1, <2>2
  <1>4. ~Begins(G, J, n - c, F[p] - 1)
    <2>1. InOrder(Lengths, F, I, n, hits, last) /\ 1 \in 1 .. c /\ F[1] >= 0 /\ F[p] - 1 <= F[1]
      BY <1>0, <1>1 DEF WireInv
    <2> DEFINE j == F[p] - 1
    <2>2. j \in Nat /\ j <= F[1]
      BY <1>0, <2>1
    <2> HIDE DEF j
    <2>3. ~Begins(G, J, n - c, j)
      BY <1>0, <2>1, <2>2, GoneBefore
    <2> QED
      BY <2>3 DEF j
  <1> QED
    BY <1>2, <1>3, <1>4 DEF Missed

(* A packet that begins among the bytes read as the data of another one:   *)
(* that one lost bytes, and so did the packet before, unless it is shorter *)
(* and lies in the data as well.                                           *)
LEMMA BeginsInData ==
  ASSUME NEW n \in Nat, NEW c \in 0 .. n, NEW F, NEW I, NEW G, NEW J, NEW hits, NEW done, NEW pieces,
         NEW last \in 0 .. NumPackets, WireInv(F, I, n, hits, done, pieces, last),
         DroppedFrom(F, I, n, c, G, J), \A k \in done : k \in Nat,
         NEW m \in Numbers, c = FrameLen(m), \A i \in 1 .. 4 : F[i] = m /\ I[i] = i,
         NEW p \in 1 .. c, F[p] \in 1 .. last, I[p] = 1, F[p] # m
  PROVE  Explained(G, J, n - c, hits, done, pieces, F[p])
  <1>0. /\ SizesAre(Lengths, last) /\ last \in Nat /\ p \in 1 .. n /\ m \in Nat
        /\ c \in Nat /\ c >= 7 /\ Lengths[m] = c
    BY LengthsAre
  <1>1. InOrder(Lengths, F, I, n, hits, last)
    BY DEF WireInv
  <1>2. p > 4
    BY <1>0
  <1>3. F[1] = m /\ I[1] = 1 /\ F[4] = m /\ I[4] = 4 /\ 1 \in 1 .. n /\ 4 \in 1 .. n
    BY <1>0
  <1>4. m < F[p]
    BY <1>0, <1>1, <1>2, <1>3 DEF InOrder, Sorted
  <1>5. m \in hits
    <2> SUFFICES ASSUME m \notin hits PROVE FALSE
      OBVIOUS
    <2>1. p - 1 \in 0 .. Lengths[F[1]] - I[1]
      BY <1>0, <1>3
    <2>2. F[1 + (p - 1)] = F[1]
      BY <1>0, <1>1, <1>3, <2>1 DEF InOrder, Together
    <2>3. 1 + (p - 1) = p
      OBVIOUS
    <2> QED
      BY <1>3, <2>2, <2>3
  <1>6. ASSUME F[p] - 1 \notin hits
        PROVE  m < F[p] - 1 /\ FrameLen(F[p] - 1) + HeaderLen < FrameLen(m)
    <2>1. m < F[p] - 1
      <3>1. m # F[p] - 1
        BY <1>5, <1>6
      <3> QED
        BY <1>0, <1>4, <3>1
    <2>2. F[p] - 1 \in 0 .. NumPackets /\ F[p] >= 1
      BY LengthsAre
    <2>3. Lengths[F[p] - 1] = FrameLen(F[p] - 1) /\ FrameLen(F[p] - 1) \in Nat
      BY <2>2, LengthsAre
    <2> DEFINE size == FrameLen(F[p] - 1)
    <2>4. ASSUME size >= p - 4
          PROVE  FALSE
      <3>1. p - 4 \in 1 .. Lengths[F[p] - 1] /\ p - 4 < p
        BY <1>0, <1>2, <2>3, <2>4
      <3>2. F[p - (p - 4)] = F[p] - 1
        BY <1>0, <1>1, <1>6, <2>2, <3>1 DEF InOrder, Behind
      <3>3. p - (p - 4) = 4
        OBVIOUS
      <3> QED
        BY <1>3, <2>1, <3>2, <3>3
    <2> QED
      BY <1>0, <2>1, <2>3, <2>4 DEF HeaderLen
  <1>7. ASSUME NEW j \in m .. F[p] - 1
        PROVE  Missed(G, J, n - c, done, j)
    <2>1. j \in Nat /\ j <= F[p] /\ F[p] >= 0
      BY <1>0
    <2>2. ~Begins(G, J, n - c, j)
      BY <1>0, <1>1, <2>1, GoneBefore
    <2>3. \A k \in done : k < m
      BY <1>0, <1>3 DEF WireInv, Earlier
    <2>4. j \notin done
      BY <1>0, <2>1, <2>3
    <2> QED
      BY <2>2, <2>4 DEF Missed
  <1> QED
    BY <1>5, <1>6, <1>7 DEF Explained

(* A packet of the right bytes passes, and only such a one does.           *)
LEMMA PacketIs ==
  ASSUME ReceiveTypes, NEW k \in Numbers, DataOf(k), step = "parse"
  PROVE  /\ Packet \in Seq(Int \X Int) /\ Len(Packet) = 4 + Len(data_buf) /\ Len(Packet) \in Nat
         /\ Len(taken) = FrameLen(k) /\ Len(Packet) >= FrameLen(k)
         /\ \A i \in 1 .. Len(Packet) : Packet[i] = IF i <= FrameLen(k) THEN taken[i] ELSE Zero
  <1>1. /\ header_frame_buf \in Seq(Int \X Int) /\ Len(header_frame_buf) = 4
        /\ \A i \in 1 .. 4 : header_frame_buf[i] = taken[i]
    BY HeaderOf DEF DataOf
  <1>2. data_buf \in Seq(Int \X Int) /\ Len(data_buf) \in Nat /\ received_len_sum \in Nat
    BY DEF ReceiveTypes
  <1>3. /\ Packet \in Seq(Int \X Int) /\ Len(Packet) = Len(header_frame_buf) + Len(data_buf)
        /\ \A p \in 1 .. Len(header_frame_buf) : Packet[p] = header_frame_buf[p]
        /\ \A p \in 1 .. Len(data_buf) : Packet[Len(header_frame_buf) + p] = data_buf[p]
    <2>1. header_frame_buf \in Seq(Int \X Int) /\ data_buf \in Seq(Int \X Int)
      BY <1>1, <1>2
    <2>2. Packet = header_frame_buf \o data_buf
      BY DEF Packet
    <2> QED
      BY <2>1, <2>2, JoinIs
  <1>4. /\ len[k] \in Nat /\ FrameLen(k) = 4 + len[k] + 2 /\ FrameLen(k) \in Nat
        /\ received_len_sum = len[k] + 2 /\ Len(taken) = 4 + received_len_sum
        /\ received_len_sum <= Len(data_buf)
    BY LengthsAre, <1>2 DEF DataOf
  <1>41. FrameLen(k) = received_len_sum + 4 /\ received_len_sum \in Nat
    BY <1>2, <1>4
  <1>5. ASSUME NEW i \in 1 .. Len(Packet)
        PROVE  Packet[i] = IF i <= FrameLen(k) THEN taken[i] ELSE Zero
    <2>1. CASE i <= 4
      <3>1. i \in 1 .. 4 /\ i <= FrameLen(k)
        BY <1>4, <2>1
      <3> QED
        BY <1>1, <1>3, <3>1
    <2>2. CASE i > 4
      <3>1. i - 4 \in 1 .. Len(data_buf) /\ Len(header_frame_buf) + (i - 4) = i /\ 4 + (i - 4) = i /\ i \in Nat
        <4>1. Len(Packet) = 4 + Len(data_buf)
          BY <1>1, <1>3
        <4> QED
          BY <1>1, <1>2, <2>2, <4>1
      <3>2. Packet[Len(header_frame_buf) + (i - 4)] = data_buf[i - 4]
        BY <1>3, <3>1
      <3>3. data_buf[i - 4] = IF i - 4 <= received_len_sum THEN taken[4 + (i - 4)] ELSE Zero
        BY <3>1 DEF DataOf
      <3>4. CASE i <= FrameLen(k)
        <4>1. i - 4 <= received_len_sum
          BY <1>41, <3>1, <3>4
        <4> QED
          BY <3>1, <3>2, <3>3, <3>4, <4>1
      <3>5. CASE ~(i <= FrameLen(k))
        <4>1. ~(i - 4 <= received_len_sum)
          BY <1>41, <3>1, <3>5
        <4> QED
          BY <3>1, <3>2, <3>3, <3>5, <4>1
      <3> QED
        BY <3>4, <3>5
    <2> QED
      BY <2>1, <2>2
  <1>6. Len(Packet) = 4 + Len(data_buf) /\ Len(Packet) \in Nat
    BY <1>1, <1>2, <1>3
  <1>7. Len(taken) = FrameLen(k) /\ Len(Packet) >= FrameLen(k)
    BY <1>2, <1>4, <1>6
  <1> QED
    BY <1>3, <1>5, <1>6, <1>7

LEMMA PassesIfWhole ==
  ASSUME ReceiveTypes, NEW k \in Numbers, DataOf(k), step = "parse",
         \A i \in 1 .. FrameLen(k) : taken[i] = <<k, i>>
  PROVE  Crc16Ok(Packet)
  <1> DEFINE m == Len(Packet) - FrameLen(k)
             r == Frame(k)
             t == Zeros(m)
  <1>1. /\ Packet \in Seq(Int \X Int) /\ Len(Packet) >= FrameLen(k) /\ FrameLen(k) \in Nat /\ Len(Packet) \in Nat
        /\ \A i \in 1 .. Len(Packet) : Packet[i] = IF i <= FrameLen(k) THEN taken[i] ELSE Zero
    BY PacketIs, LengthsAre
  <1>2. m \in Nat
    BY <1>1
  <1>3. r \in Seq(Int \X Int) /\ Len(r) = FrameLen(k) /\ \A i \in 1 .. FrameLen(k) : r[i] = <<k, i>>
    BY FrameIs
  <1>4. t \in Seq(Int \X Int) /\ Len(t) = m /\ \A i \in 1 .. m : t[i] = Zero
    BY <1>2, ZerosAre
  <1> HIDE DEF r, t
  <1>5. /\ r \o t \in Seq(Int \X Int) /\ Len(r \o t) = Len(r) + Len(t)
        /\ \A p \in 1 .. Len(r) : (r \o t)[p] = r[p]
        /\ \A p \in 1 .. Len(t) : (r \o t)[Len(r) + p] = t[p]
    <2>1. r \in Seq(Int \X Int) /\ t \in Seq(Int \X Int)
      BY <1>3, <1>4
    <2> QED
      BY <2>1, JoinIs
  <1>6. ASSUME NEW i \in 1 .. Len(Packet)
        PROVE  Packet[i] = (r \o t)[i]
    <2>1. CASE i <= FrameLen(k)
      <3>1. i \in 1 .. FrameLen(k)
        BY <1>1, <2>1
      <3>2. Packet[i] = <<k, i>>
        BY <1>1, <2>1, <3>1
      <3>3. (r \o t)[i] = r[i] /\ r[i] = <<k, i>>
        BY <1>3, <1>5, <3>1
      <3> QED
        BY <3>2, <3>3
    <2>2. CASE i > FrameLen(k)
      <3>1. i - FrameLen(k) \in 1 .. m /\ FrameLen(k) + (i - FrameLen(k)) = i /\ ~(i <= FrameLen(k))
        BY <1>1, <2>2
      <3>2. (r \o t)[i] = Zero
        BY <1>3, <1>4, <1>5, <3>1
      <3> QED
        BY <1>1, <3>1, <3>2
    <2>3. i <= FrameLen(k) \/ i > FrameLen(k)
      <3>1. FrameLen(k) \in Nat /\ i \in Int
        BY <1>1
      <3> QED
        BY <3>1
    <2> QED
      BY <2>1, <2>2, <2>3
  <1>7. Packet = r \o t
    <2>1. Len(Packet) = Len(r \o t)
      BY <1>1, <1>3, <1>4, <1>5
    <2>2. Packet \in Seq(Int \X Int) /\ r \o t \in Seq(Int \X Int)
      BY <1>1, <1>5
    <2> QED
      BY <1>6, <2>1, <2>2, SeqEqual
  <1> QED
    BY <1>1, <1>7 DEF Crc16Ok, r, t

LEMMA WholeIfPasses ==
  ASSUME ReceiveTypes, NEW k \in Numbers, DataOf(k), step = "parse", Crc16Ok(Packet)
  PROVE  (\A i \in 1 .. FrameLen(k) : taken[i] = <<k, i>>) /\ Contents = k
  <1>1. /\ Packet \in Seq(Int \X Int) /\ Len(Packet) >= FrameLen(k) /\ FrameLen(k) \in Nat /\ Len(Packet) \in Nat
        /\ \A i \in 1 .. Len(Packet) : Packet[i] = IF i <= FrameLen(k) THEN taken[i] ELSE Zero
        /\ FrameLen(k) >= 7 /\ taken[1] = <<k, 1>>
    <2>1. taken[1] = <<k, 1>>
      BY DEF DataOf
    <2> QED
      BY <2>1, PacketIs, LengthsAre
  <1>2. PICK j \in Numbers : /\ Len(Packet) >= FrameLen(j)
                             /\ Packet = Frame(j) \o Zeros(Len(Packet) - FrameLen(j))
    BY Zenon DEF Crc16Ok
  <1>20. Len(Packet) >= FrameLen(j)
    BY <1>2, Zenon
  <1>21. Len(Packet) - FrameLen(j) \in Nat
    <2>1. FrameLen(j) \in Nat
      BY LengthsAre
    <2> QED
      BY <1>1, <1>20, <2>1
  <1> DEFINE r == Frame(j)
             t == Zeros(Len(Packet) - FrameLen(j))
  <1>3. /\ r \in Seq(Int \X Int) /\ Len(r) = FrameLen(j) /\ \A i \in 1 .. FrameLen(j) : r[i] = <<j, i>>
        /\ FrameLen(j) \in Nat /\ FrameLen(j) >= 7
    BY FrameIs, LengthsAre
  <1>4. t \in Seq(Int \X Int) /\ Packet = r \o t
    <2>2. t \in Seq(Int \X Int)
      BY <1>21, ZerosAre
    <2>3. Packet = r \o t
      BY <1>2, Zenon
    <2> QED
      BY <2>2, <2>3
  <1> HIDE DEF r, t
  <1>5. \A i \in 1 .. FrameLen(j) : Packet[i] = <<j, i>>
    <2>1. \A p \in 1 .. Len(r) : (r \o t)[p] = r[p]
      <3>1. r \in Seq(Int \X Int)
        BY <1>3
      <3> QED
        BY <1>4, <3>1, JoinIs
    <2> QED
      BY <1>3, <1>4, <2>1
  <1>6. j = k
    <2>1. Packet[1] = <<j, 1>>
      BY <1>3, <1>5
    <2>2. 1 \in 1 .. Len(Packet) /\ 1 <= FrameLen(k)
      BY <1>1
    <2>3. Packet[1] = <<k, 1>>
      BY <1>1, <2>2
    <2> QED
      BY <2>1, <2>3
  <1>7. \A i \in 1 .. FrameLen(k) : taken[i] = <<k, i>>
    <2> TAKE i \in 1 .. FrameLen(k)
    <2>1. i \in 1 .. Len(Packet) /\ i <= FrameLen(k)
      BY <1>1
    <2> QED
      BY <1>1, <1>5, <1>6, <2>1
  <1>8. SubSeq(Packet, 1, FrameLen(k)) = Frame(k)
    <2> DEFINE front == SubSeq(Packet, 1, FrameLen(k))
    <2>1. FrameLen(k) \in 0 .. Len(Packet)
      BY <1>1
    <2>2. /\ front \in Seq(Int \X Int) /\ Len(front) = FrameLen(k)
          /\ \A p \in 1 .. FrameLen(k) : front[p] = Packet[p]
      BY <1>1, <2>1, FirstIs
    <2>3. Frame(k) \in Seq(Int \X Int) /\ Len(Frame(k)) = FrameLen(k)
      BY FrameIs
    <2> HIDE DEF front
    <2>4. \A i \in 1 .. Len(front) : front[i] = Frame(k)[i]
      BY <1>5, <1>6, <2>2, FrameIs
    <2>5. front = Frame(k)
      BY <2>2, <2>3, <2>4, SeqEqual
    <2> QED
      BY <2>5 DEF front
  <1>9. NumberOf(header_frame_buf) = k
    BY NumberOfHeader DEF DataOf
  <1> QED
    BY <1>7, <1>8, <1>9 DEF Contents

(* What is on its way when a step has dropped all that was held and the    *)
(* next c bytes of the port.                                               *)
LEMMA SkipBytes ==
  ASSUME NEW b, NEW l, NEW l2, Len(b) \in Nat, Len(l) \in Nat, NEW c \in 0 .. Len(l),
         Len(l2) = Len(l) - c, \A p \in 1 .. Len(l) - c : l2[p] = l[p + c]
  PROVE  /\ TotalOf(<<>>, l2) = TotalOf(b, l) - (Len(b) + c)
         /\ DroppedFrom(FramesOf(b, l), IndexesOf(b, l), TotalOf(b, l), Len(b) + c,
                        FramesOf(<<>>, l2), IndexesOf(<<>>, l2))
  <1>0. Len(<<>>) = 0
    OBVIOUS
  <1>1. TotalOf(<<>>, l2) = TotalOf(b, l) - (Len(b) + c)
    BY <1>0 DEF TotalOf
  <1>2. ASSUME NEW p \in 1 .. TotalOf(b, l) - (Len(b) + c)
        PROVE  ByteOf(<<>>, l2, p) = ByteOf(b, l, p + (Len(b) + c))
    <2>1. p \in 1 .. Len(l) - c /\ ~(p <= 0) /\ p - 0 = p
      BY DEF TotalOf
    <2>2. ~(p + (Len(b) + c) <= Len(b)) /\ (p + (Len(b) + c)) - Len(b) = p + c
      BY <2>1
    <2> QED
      BY <1>0, <2>1, <2>2 DEF ByteOf
  <1>3. \A p \in 1 .. TotalOf(b, l) - (Len(b) + c) :
          p \in 1 .. TotalOf(<<>>, l2) /\ p + (Len(b) + c) \in 1 .. TotalOf(b, l)
    BY <1>1 DEF TotalOf
  <1> QED
    BY <1>1, <1>2, <1>3 DEF DroppedFrom, FramesOf, IndexesOf

(* The numbers and indexes of the bytes that are held and of those in the  *)
(* port.                                                                   *)
LEMMA HeldAre ==
  ASSUME ReceiveTypes
  PROVE  /\ Held \in Seq(Int \X Int) /\ Len(Held) \in Nat /\ Len(wire) \in Nat /\ wire \in Seq(Int \X Int)
         /\ TotalOf(Held, wire) \in Nat /\ TotalOf(Held, wire) = Len(Held) + Len(wire)
         /\ \A p \in 1 .. Len(Held) :
              FramesOf(Held, wire)[p] = Held[p][1] /\ IndexesOf(Held, wire)[p] = Held[p][2]
         /\ \A p \in 1 .. Len(wire) :
              FramesOf(Held, wire)[Len(Held) + p] = wire[p][1] /\ IndexesOf(Held, wire)[Len(Held) + p] = wire[p][2]
  <1>1. Held \in Seq(Int \X Int) /\ wire \in Seq(Int \X Int)
    <2>1. <<>> \in Seq(Int \X Int) /\ taken \in Seq(Int \X Int) /\ wire \in Seq(Int \X Int)
      BY DEF ReceiveTypes
    <2> QED
      BY <2>1 DEF Held
  <1>2. Len(Held) \in Nat /\ Len(wire) \in Nat
    BY <1>1
  <1>3. TotalOf(Held, wire) \in Nat /\ TotalOf(Held, wire) = Len(Held) + Len(wire)
    BY <1>2 DEF TotalOf
  <1>4. \A p \in 1 .. Len(Held) :
          FramesOf(Held, wire)[p] = Held[p][1] /\ IndexesOf(Held, wire)[p] = Held[p][2]
    BY <1>2, BytesOf
  <1>5. ASSUME NEW p \in 1 .. Len(wire)
        PROVE  /\ FramesOf(Held, wire)[Len(Held) + p] = wire[p][1]
               /\ IndexesOf(Held, wire)[Len(Held) + p] = wire[p][2]
    <2>1. /\ Len(Held) + p \in 1 .. TotalOf(Held, wire) /\ ~(Len(Held) + p <= Len(Held))
          /\ (Len(Held) + p) - Len(Held) = p
      BY <1>2, <1>3
    <2> QED
      BY <2>1 DEF FramesOf, IndexesOf, ByteOf
  <1> QED
    BY <1>1, <1>2, <1>3, <1>4, <1>5

(* What a step that drops all that is held and c bytes of the port keeps.  *)
LEMMA SkipKeeps ==
  ASSUME ReceiveInv, NEW c \in 0 .. Len(wire), NEW more, NEW then, NEW apart,
         wire' = After(c), step' = "sof", sent' = sent, hit' = more, Handed' = then, split' = apart,
         \A k \in hit : k \in more, \A k \in split : k \in apart, \A k \in Handed : k \in then,
         \A k \in then : k \in Handed \/ Begins(FramesOf(Held, wire), IndexesOf(Held, wire), TotalOf(Held, wire), k),
         \A p \in Len(Held) + c + 1 .. TotalOf(Held, wire) :
           FramesOf(Held, wire)[p] >= 0 => \A k \in then : k < FramesOf(Held, wire)[p],
         \A p \in 1 .. Len(Held) + c :
           FramesOf(Held, wire)[p] \in 1 .. sent /\ IndexesOf(Held, wire)[p] = 1 =>
             Explained(FramesOf(<<>>, After(c)), IndexesOf(<<>>, After(c)), TotalOf(Held, wire) - (Len(Held) + c),
                       more, then, apart, FramesOf(Held, wire)[p])
  PROVE  OnTheWire'
  <1> DEFINE n == TotalOf(Held, wire)
             F == FramesOf(Held, wire)
             I == IndexesOf(Held, wire)
             G == FramesOf(<<>>, After(c))
             J == IndexesOf(<<>>, After(c))
             d == Len(Held) + c
  <1>1. /\ Len(Held) \in Nat /\ Len(wire) \in Nat /\ n \in Nat /\ n = Len(Held) + Len(wire)
        /\ sent \in 0 .. NumPackets /\ \A k \in hit : k \in Nat /\ k \in more
    <2>1. ReceiveTypes
      BY DEF ReceiveInv
    <2>2. sent \in 0 .. NumPackets /\ hit \subseteq 0 .. sent
      BY <2>1 DEF ReceiveTypes
    <2>3. \A k \in hit : k \in Nat
      <3>1. \A k \in hit : k \in 0 .. sent
        BY <2>2
      <3> QED
        BY <3>1
    <2> QED
      BY <2>1, <2>2, <2>3, HeldAre
  <1>2. d \in 0 .. n /\ d \in Nat
    BY <1>1
  <1>3. TotalOf(<<>>, After(c)) = n - d /\ DroppedFrom(F, I, n, d, G, J)
    <2>1. Len(After(c)) = Len(wire) - c /\ \A p \in 1 .. Len(wire) - c : After(c)[p] = wire[p + c]
      BY PortIs DEF ReceiveInv, ReceiveTypes
    <2> QED
      BY <1>1, <2>1, SkipBytes
  <1>4. WireInv(F, I, n, hit, Handed, split, sent)
    BY DEF ReceiveInv, OnTheWire
  <1> HIDE DEF n, F, I, G, J, d
  <1>5. /\ \A p \in d + 1 .. n : F[p] >= 0 => \A k \in then : k < F[p]
        /\ \A p \in 1 .. d : F[p] \in 1 .. sent /\ I[p] = 1 => Explained(G, J, n - d, more, then, apart, F[p])
        /\ \A k \in then : k \in Handed \/ Begins(F, I, n, k)
    BY DEF n, F, I, G, J, d
  <1>6. WireInv(G, J, n - d, more, then, apart, sent)
    BY <1>1, <1>2, <1>3, <1>4, <1>5, WireDropped
  <1>7. Held' = <<>>
    BY DEF Held
  <1> QED
    BY <1>3, <1>6, <1>7 DEF OnTheWire, G, J

(* A read that goes on.                                                    *)
LEMMA ReadOn ==
  ASSUME ReceiveInv, NEW n \in 1 .. Len(wire), wire' = After(n), step' # "sof",
         taken' = Held \o First(n), UNCHANGED <<sent, hit, published>>, \A k \in split : k \in split'
  PROVE  /\ OnTheWire' /\ wire' \in Seq(Int \X Int) /\ taken' \in Seq(Int \X Int)
         /\ Len(taken') = Len(Held) + n
         /\ \A p \in 1 .. Len(Held) : taken'[p] = Held[p]
         /\ \A p \in 1 .. n : taken'[Len(Held) + p] = wire[p]
  <1>1. /\ Held \in Seq(Int \X Int) /\ Len(Held) \in Nat /\ wire \in Seq(Int \X Int) /\ Len(wire) \in Nat
        /\ n \in 0 .. Len(wire) /\ TotalOf(Held, wire) \in Nat
    BY HeldAre DEF ReceiveInv
  <1>2. /\ First(n) \in Seq(Int \X Int) /\ Len(First(n)) = n
        /\ \A p \in 1 .. n : First(n)[p] = wire[p]
        /\ wire' \in Seq(Int \X Int) /\ Len(wire') = Len(wire) - n
        /\ \A p \in 1 .. Len(wire) - n : wire'[p] = wire[p + n]
    BY <1>1, PortIs
  <1>3. /\ taken' \in Seq(Int \X Int) /\ Len(taken') = Len(Held) + n
        /\ \A p \in 1 .. Len(Held) : taken'[p] = Held[p]
        /\ \A p \in 1 .. n : taken'[Len(Held) + p] = wire[p]
    <2> DEFINE r == First(n)
               b == Held
    <2>1. r \in Seq(Int \X Int) /\ Len(r) = n /\ taken' = b \o r /\ \A p \in 1 .. n : r[p] = wire[p]
      BY <1>2, Zenon
    <2>2. b \in Seq(Int \X Int) /\ r \in Seq(Int \X Int)
      BY <1>1, <2>1
    <2> HIDE DEF r, b
    <2>3. /\ b \o r \in Seq(Int \X Int) /\ Len(b \o r) = Len(b) + Len(r)
          /\ \A p \in 1 .. Len(b) : (b \o r)[p] = b[p]
          /\ \A p \in 1 .. Len(r) : (b \o r)[Len(b) + p] = r[p]
      BY <2>2, JoinIs
    <2>4. /\ taken' \in Seq(Int \X Int) /\ Len(taken') = Len(b) + n
          /\ \A p \in 1 .. Len(b) : taken'[p] = b[p]
          /\ \A p \in 1 .. n : taken'[Len(b) + p] = wire[p]
      BY <2>1, <2>3, Zenon
    <2> QED
      BY <2>4 DEF b
  <1>4. /\ TotalOf(taken', wire') = TotalOf(Held, wire)
        /\ FramesOf(taken', wire') = FramesOf(Held, wire)
        /\ IndexesOf(taken', wire') = IndexesOf(Held, wire)
    <2> DEFINE b == Held
    <2>1. ReadInto(b, wire, n, taken', wire')
      BY <1>2, <1>3 DEF ReadInto
    <2>2. Len(b) \in Nat /\ Len(wire) \in Nat
      BY <1>1
    <2> HIDE DEF b
    <2>3. /\ TotalOf(taken', wire') = TotalOf(b, wire)
          /\ FramesOf(taken', wire') = FramesOf(b, wire)
          /\ IndexesOf(taken', wire') = IndexesOf(b, wire)
      BY <2>1, <2>2, ReadBytes
    <2> QED
      BY <2>3 DEF b
  <1>5. Held' = taken' /\ Handed' = Handed /\ hit' = hit /\ sent' = sent
    BY DEF Held, Handed
  <1> DEFINE m == TotalOf(Held, wire)
             F == FramesOf(Held, wire)
             I == IndexesOf(Held, wire)
  <1>6. WireInv(F, I, m, hit, Handed, split, sent)
    BY DEF ReceiveInv, OnTheWire
  <1>7. \A k \in hit : k \in Nat
    <2>1. \A k \in hit : k \in 0 .. sent
      BY DEF ReceiveInv, ReceiveTypes
    <2> QED
      BY <2>1
  <1> HIDE DEF m, F, I
  <1>8. WireInv(F, I, m, hit, Handed, split', sent)
    <2> SUFFICES ASSUME NEW k \in 1 .. sent, Explained(F, I, m, hit, Handed, split, k)
                 PROVE  Explained(F, I, m, hit, Handed, split', k)
      BY <1>6 DEF WireInv, AllExplained
    <2>1. k \in Nat /\ k >= 1
      OBVIOUS
    <2> QED
      BY <1>7, <2>1, StaysExplained
  <1>9. OnTheWire'
    BY <1>4, <1>5, <1>8 DEF OnTheWire, m, F, I
  <1> QED
    BY <1>2, <1>3, <1>9

LEMMA ReadSofKeeps ==
  ASSUME ReceiveInv, ReadSof
  PROVE  ReceiveInv'
  <1>1. /\ step = "sof" /\ wire # <<>> /\ wire' = After(1)
        /\ UNCHANGED <<sent, header_frame_buf, data_buf, remain_len, received_len_sum, published, strikes, hit, split>>
    BY DEF ReadSof, history
  <1>2. ReceiveTypes
    BY DEF ReceiveInv
  <1>3. Held = <<>> /\ Len(Held) = 0
    BY <1>1 DEF Held
  <1>4. wire \in Seq(Int \X Int) /\ Len(wire) \in Nat /\ 1 \in 1 .. Len(wire) /\ 1 \in 0 .. Len(wire)
    <2>1. wire \in Seq(Int \X Int)
      BY <1>2 DEF ReceiveTypes
    <2>2. Len(wire) \in Nat \ {0}
      BY <1>1, <2>1, EmptySeq
    <2> QED
      BY <2>1, <2>2
  <1>5. Handed' = Handed
    BY <1>1 DEF Handed
  <1>6. /\ First(1) \in Seq(Int \X Int) /\ Len(First(1)) = 1 /\ First(1)[1] = wire[1]
        /\ After(1) \in Seq(Int \X Int)
    <2>1. /\ First(1) \in Seq(Int \X Int) /\ Len(First(1)) = 1
          /\ \A p \in 1 .. 1 : First(1)[p] = wire[p]
          /\ After(1) \in Seq(Int \X Int)
      BY <1>4, PortIs
    <2> QED
      BY <2>1
  <1>7. CASE IsSof(wire[1])
    <2>1. step' = "header" /\ taken' = First(1)
      BY <1>7 DEF ReadSof
    <2>2. taken' = Held \o First(1)
      <3>1. <<>> \o First(1) = First(1)
        BY <1>6, ConcatEmptySeq
      <3> QED
        BY <1>3, <2>1, <3>1
    <2>3. OnTheWire'
      <3>1. step' # "sof" /\ UNCHANGED <<sent, hit, published>> /\ \A k \in split : k \in split'
        BY <1>1, <2>1
      <3> QED
        BY <1>1, <1>4, <2>2, <3>1, ReadOn
    <2>4. SofRead'
      BY <1>6, <1>7, <2>1 DEF SofRead, IsSof
    <2>5. ReceiveTypes'
      BY <1>1, <1>2, <1>5, <1>6, <2>1 DEF ReceiveTypes
    <2> QED
      BY <2>1, <2>3, <2>4, <2>5 DEF ReceiveInv, DataRead
  <1>8. CASE ~IsSof(wire[1])
    <2>1. step' = "sof" /\ taken' = taken
      BY <1>1, <1>8 DEF ReadSof
    <2> DEFINE F == FramesOf(Held, wire)
               I == IndexesOf(Held, wire)
               n == TotalOf(Held, wire)
    <2>2. I[1] = wire[1][2]
      <3>1. I[Len(Held) + 1] = wire[1][2]
        BY <1>2, <1>4, HeldAre
      <3> QED
        BY <1>3, <3>1
    <2>3. I[1] # 1
      BY <1>8, <2>2 DEF IsSof
    <2>4. \A p \in 1 .. n : F[p] >= 0 => \A k \in Handed : k < F[p]
      BY DEF ReceiveInv, OnTheWire, WireInv, Earlier
    <2>5. n \in Nat /\ n = 0 + Len(wire)
      BY <1>2, <1>3, HeldAre
    <2>6. \A p \in Len(Held) + 1 + 1 .. n : F[p] >= 0 => \A k \in Handed : k < F[p]
      <3>1. \A p \in Len(Held) + 1 + 1 .. n : p \in 1 .. n
        BY <1>3, <2>5
      <3> QED
        BY <2>4, <3>1
    <2>7. \A p \in 1 .. Len(Held) + 1 : I[p] # 1
      <3>1. \A p \in 1 .. Len(Held) + 1 : p = 1
        BY <1>3
      <3> QED
        BY <2>3, <3>1
    <2>8. OnTheWire'
      <3>1. hit' = hit /\ split' = split /\ sent' = sent /\ Handed' = Handed
        BY <1>1, <1>5
      <3> HIDE DEF F, I, n
      <3>2. \A p \in 1 .. Len(Held) + 1 :
              F[p] \in 1 .. sent /\ I[p] = 1 =>
                Explained(FramesOf(<<>>, After(1)), IndexesOf(<<>>, After(1)), n - (Len(Held) + 1),
                          hit, Handed, split, F[p])
        BY <2>7
      <3> QED
        BY <1>1, <1>4, <2>1, <2>6, <3>1, <3>2, SkipKeeps DEF F, I, n
    <2>9. SofRead' /\ DataRead'
      BY <2>1 DEF SofRead, DataRead
    <2>10. ReceiveTypes'
      BY <1>1, <1>2, <1>5, <1>6, <2>1 DEF ReceiveTypes
    <2> QED
      BY <2>8, <2>9, <2>10 DEF ReceiveInv
  <1> QED
    BY <1>7, <1>8

(* What receiveData takes for a header, as the bytes on their way show it. *)
LEMMA HeaderRead ==
  ASSUME ReceiveInv, NEW n \in 1 .. Len(wire), n <= 3, ReadHeader(n)
  PROVE  /\ header_frame_buf' \in Seq(Int \X Int) /\ Len(header_frame_buf') = 4
         /\ \A i \in 1 .. 1 + n : i <= 4 /\ i <= TotalOf(Held, wire)
         /\ \A i \in 1 .. 1 + n :
              header_frame_buf'[i] = <<FramesOf(Held, wire)[i], IndexesOf(Held, wire)[i]>>
         /\ n < 3 => header_frame_buf'[4] = Zero
         /\ Held = taken /\ Len(Held) = 1
         /\ taken[1] = <<FramesOf(Held, wire)[1], IndexesOf(Held, wire)[1]>>
  <1>1. ReceiveTypes /\ step = "header" /\ Held = taken /\ Len(taken) = 1
    BY DEF ReceiveInv, ReadHeader, Held, SofRead
  <1>2. /\ taken \in Seq(Int \X Int) /\ wire \in Seq(Int \X Int) /\ Len(wire) \in Nat
        /\ TotalOf(Held, wire) = 1 + Len(wire)
        /\ FramesOf(Held, wire)[1] = taken[1][1] /\ IndexesOf(Held, wire)[1] = taken[1][2]
        /\ \A p \in 1 .. Len(wire) :
             FramesOf(Held, wire)[1 + p] = wire[p][1] /\ IndexesOf(Held, wire)[1 + p] = wire[p][2]
    <2>1. 1 \in 1 .. Len(Held) /\ Len(Held) = 1
      BY <1>1
    <2> QED
      BY <1>1, <2>1, HeldAre DEF ReceiveTypes
  <1>3. /\ First(n) \in Seq(Int \X Int) /\ Len(First(n)) = n
        /\ \A p \in 1 .. n : First(n)[p] = wire[p]
    <2>1. n \in 0 .. Len(wire)
      BY <1>2
    <2> QED
      BY <1>2, <2>1, PortIs
  <1>4. /\ Zeros(3 - n) \in Seq(Int \X Int) /\ Len(Zeros(3 - n)) = 3 - n
        /\ \A i \in 1 .. 3 - n : Zeros(3 - n)[i] = Zero
    <2>1. 3 - n \in Nat
      BY <1>2
    <2> QED
      BY <2>1, ZerosAre
  <1> DEFINE r == First(n)
             t == Zeros(3 - n)
             h == taken \o r
  <1>5. header_frame_buf' = h \o t
    BY DEF ReadHeader
  <1>6. r \in Seq(Int \X Int) /\ Len(r) = n /\ (\A p \in 1 .. n : r[p] = wire[p])
    BY <1>3
  <1>7. t \in Seq(Int \X Int) /\ Len(t) = 3 - n /\ (\A p \in 1 .. 3 - n : t[p] = Zero)
    BY <1>4
  <1> HIDE DEF r, t
  <1>8. /\ h \in Seq(Int \X Int) /\ Len(h) = Len(taken) + Len(r)
        /\ \A p \in 1 .. Len(taken) : h[p] = taken[p]
        /\ \A p \in 1 .. Len(r) : h[Len(taken) + p] = r[p]
    <2>1. taken \in Seq(Int \X Int) /\ r \in Seq(Int \X Int)
      BY <1>2, <1>6
    <2> QED
      BY <2>1, JoinIs
  <1> HIDE DEF h
  <1>9. /\ h \o t \in Seq(Int \X Int) /\ Len(h \o t) = Len(h) + Len(t)
        /\ \A p \in 1 .. Len(h) : (h \o t)[p] = h[p]
        /\ \A p \in 1 .. Len(t) : (h \o t)[Len(h) + p] = t[p]
    <2>1. h \in Seq(Int \X Int) /\ t \in Seq(Int \X Int)
      BY <1>7, <1>8
    <2> QED
      BY <2>1, JoinIs
  <1>10. n \in Nat /\ Len(h) = 1 + n /\ Len(h \o t) = 4
    BY <1>1, <1>6, <1>7, <1>8, <1>9
  <1>11. \A i \in 1 .. 1 + n : i <= 4 /\ i <= TotalOf(Held, wire)
    BY <1>2, <1>10
  <1>12. taken[1] = <<FramesOf(Held, wire)[1], IndexesOf(Held, wire)[1]>>
    <2>1. taken[1] \in Int \X Int
      <3>1. taken \in Seq(Int \X Int) /\ 1 \in 1 .. Len(taken)
        BY <1>1, <1>2
      <3> QED
        BY <3>1, ElementOfSeq
    <2> QED
      BY <1>2, <2>1
  <1>13. ASSUME NEW i \in 1 .. 1 + n
         PROVE  (h \o t)[i] = <<FramesOf(Held, wire)[i], IndexesOf(Held, wire)[i]>>
    <2>1. (h \o t)[i] = h[i]
      BY <1>9, <1>10
    <2>2. CASE i = 1
      <3>1. h[1] = taken[1]
        BY <1>1, <1>8
      <3> QED
        BY <1>12, <2>1, <2>2, <3>1
    <2>3. CASE i > 1
      <3>1. i - 1 \in 1 .. n /\ i - 1 \in 1 .. Len(wire) /\ 1 + (i - 1) = i
        BY <1>10, <2>3
      <3>2. h[i] = wire[i - 1]
        <4>1. h[Len(taken) + (i - 1)] = r[i - 1]
          BY <1>6, <1>8, <3>1
        <4> QED
          BY <1>1, <1>6, <3>1, <4>1
      <3>3. wire[i - 1] \in Int \X Int
        BY <1>2, <3>1, ElementOfSeq
      <3>4. FramesOf(Held, wire)[i] = wire[i - 1][1] /\ IndexesOf(Held, wire)[i] = wire[i - 1][2]
        <4>1. /\ FramesOf(Held, wire)[1 + (i - 1)] = wire[i - 1][1]
              /\ IndexesOf(Held, wire)[1 + (i - 1)] = wire[i - 1][2]
          BY <1>2, <3>1
        <4> QED
          BY <3>1, <4>1
      <3> QED
        BY <2>1, <3>2, <3>3, <3>4
    <2> QED
      BY <1>10, <2>2, <2>3
  <1>14. n < 3 => (h \o t)[4] = Zero
    <2> SUFFICES ASSUME n < 3 PROVE (h \o t)[4] = Zero
      OBVIOUS
    <2>1. 3 - n \in 1 .. Len(t) /\ Len(h) + (3 - n) = 4
      BY <1>7, <1>10
    <2>2. (h \o t)[Len(h) + (3 - n)] = t[3 - n]
      BY <1>9, <2>1
    <2> QED
      BY <1>7, <2>1, <2>2
  <1> QED
    BY <1>1, <1>5, <1>9, <1>10, <1>11, <1>12, <1>13, <1>14

(* A packet whose first byte was taken for no header, by line 375.         *)
LEMMA HeaderFails ==
  ASSUME ReceiveInv, NEW n \in 1 .. Len(wire), n <= 3, ReadHeader(n), ~Crc8Ok(header_frame_buf'),
         NEW p \in 1 .. Len(Held) + n,
         FramesOf(Held, wire)[p] \in 1 .. sent, IndexesOf(Held, wire)[p] = 1
  PROVE  Explained(FramesOf(<<>>, After(n)), IndexesOf(<<>>, After(n)), TotalOf(Held, wire) - (Len(Held) + n),
                   hit, Handed, split', FramesOf(Held, wire)[p])
  <1> DEFINE m == TotalOf(Held, wire)
             F == FramesOf(Held, wire)
             I == IndexesOf(Held, wire)
             G == FramesOf(<<>>, After(n))
             J == IndexesOf(<<>>, After(n))
             c == Len(Held) + n
  <1>1. /\ Len(Held) = 1 /\ Held = taken /\ taken[1] = <<F[1], I[1]>>
        /\ header_frame_buf' \in Seq(Int \X Int) /\ Len(header_frame_buf') = 4
        /\ \A i \in 1 .. 1 + n : header_frame_buf'[i] = <<F[i], I[i]>>
    BY HeaderRead
  <1>2. /\ ReceiveTypes /\ m \in Nat /\ m = Len(Held) + Len(wire) /\ Len(wire) \in Nat /\ n \in 0 .. Len(wire)
        /\ n \in Nat
    <2>1. ReceiveTypes
      BY DEF ReceiveInv
    <2> QED
      BY <2>1, HeldAre
  <1>3. WireInv(F, I, m, hit, Handed, split, sent) /\ sent \in 0 .. NumPackets
    BY DEF ReceiveInv, OnTheWire, ReceiveTypes
  <1>4. DroppedFrom(F, I, m, c, G, J)
    <2>1. Len(After(n)) = Len(wire) - n /\ \A q \in 1 .. Len(wire) - n : After(n)[q] = wire[q + n]
      BY <1>2, PortIs DEF ReceiveTypes
    <2>2. Len(Held) \in Nat
      BY <1>1
    <2> QED
      BY <1>2, <2>1, <2>2, SkipBytes
  <1>5. \A k \in Handed : k \in Nat /\ k >= 1
    <2>1. \A k \in Handed : k \in 1 .. sent
      BY <1>2 DEF ReceiveTypes
    <2> QED
      BY <2>1
  <1>6. I[1] = 1 \/ <<F[1], I[1]>> \in SofBytes
    <2>1. IsSof(taken[1])
      BY DEF ReceiveInv, SofRead, ReadHeader
    <2> QED
      BY <1>1, <2>1 DEF IsSof
  <1>7. split' = split \cup {k \in Numbers : n < 3 /\ taken = <<Frame(k)[1]>>}
    BY DEF ReadHeader
  <1> HIDE DEF m, F, I, G, J
  <1>8. c \in 0 .. m /\ c <= 4 /\ c = 1 + n
    <2>1. Len(Held) = 1
      BY <1>1
    <2>2. m = Len(Held) + Len(wire) /\ Len(wire) \in Nat /\ n \in Nat
      BY <1>2
    <2>3. n <= Len(wire) /\ n <= 3
      BY <2>2
    <2> QED
      BY <2>1, <2>2, <2>3
  <1>9. F[p] \in 1 .. sent /\ I[p] = 1 /\ p \in 1 .. c
    BY DEF F, I
  <1> HIDE DEF c
  <1>10. CASE p > 1 /\ F[p] - 1 \notin hit
    <2>1. SofNearEnd(F[p] - 1) /\ Missed(G, J, m - c, Handed, F[p] - 1)
      BY <1>2, <1>3, <1>4, <1>5, <1>6, <1>8, <1>9, <1>10, BeginsInHeader
    <2> QED
      BY <2>1 DEF Explained, m, F, G, J, c
  <1>11. CASE F[p] - 1 \in hit \/ F[p] \in hit
    BY <1>11 DEF Explained, F
  <1>12. CASE p = 1 /\ F[p] \notin hit
    <2> DEFINE k == F[1]
    <2>1. k \in 1 .. sent /\ I[1] = 1 /\ k \notin hit /\ k \in Nat
      BY <1>9, <1>12
    <2>2. k \in Numbers /\ Lengths[k] = FrameLen(k) /\ FrameLen(k) \in Nat /\ FrameLen(k) >= 7
      <3>1. k \in 0 .. NumPackets
        BY <1>3, <2>1, LengthsAre
      <3> QED
        BY <3>1, LengthsAre
    <2>3. CASE n < 3
      <3>1. taken = <<Frame(k)[1]>>
        <4>1. Frame(k)[1] = <<k, 1>>
          <5>1. 1 \in 1 .. FrameLen(k) /\ k \in Numbers
            BY <2>2
          <5> HIDE DEF k
          <5> QED
            BY <5>1, FrameIs
        <4>2. taken[1] = <<k, 1>> /\ Len(taken) = 1 /\ taken \in Seq(Int \X Int)
          BY <1>1, <1>2, <2>1 DEF ReceiveTypes
        <4>3. <<k, 1>> \in Int \X Int
          BY <2>1
        <4>4. <<<<k, 1>>>> \in Seq(Int \X Int) /\ Len(<<<<k, 1>>>>) = 1 /\ <<<<k, 1>>>>[1] = <<k, 1>>
          BY <4>3
        <4>5. \A i \in 1 .. Len(taken) : taken[i] = <<<<k, 1>>>>[i]
          BY <4>2, <4>4
        <4>6. taken = <<<<k, 1>>>>
          BY <4>2, <4>4, <4>5, SeqEqual
        <4> QED
          BY <4>1, <4>6
      <3>2. k \in split'
        BY <1>7, <2>2, <2>3, <3>1
      <3>3. F[p] \in split'
        BY <1>12, <3>2
      <3> QED
        BY <3>3 DEF Explained, F
    <2>4. CASE n >= 3
      <3>0. n = 3 /\ 1 \in 1 .. m
        BY <1>2, <1>8, <2>4
      <3>1. \A j \in 0 .. 3 : F[1 + j] = k /\ I[1 + j] = 1 + j
        <4> TAKE j \in 0 .. 3
        <4>1. j \in 0 .. Lengths[F[1]] - I[1]
          BY <2>1, <2>2
        <4>2. F[1] >= 0 /\ F[1] \notin hit
          BY <2>1
        <4>3. Together(Lengths, F, I, m, hit)
          BY <1>3 DEF WireInv, InOrder
        <4>4. F[1 + j] = F[1] /\ I[1 + j] = I[1] + j
          BY <3>0, <4>1, <4>2, <4>3 DEF Together
        <4> QED
          BY <2>1, <4>4
      <3>2. \A i \in 1 .. 4 : header_frame_buf'[i] = <<k, i>>
        <4> TAKE i \in 1 .. 4
        <4>1. i - 1 \in 0 .. 3 /\ 1 + (i - 1) = i /\ i \in 1 .. 1 + n
          BY <3>0
        <4>2. F[i] = k /\ I[i] = i
          BY <3>1, <4>1
        <4> QED
          BY <1>1, <4>1, <4>2
      <3>3. header_frame_buf' = Header(k)
        <4>1. Header(k) \in Seq(Int \X Int) /\ Len(Header(k)) = 4 /\ \A i \in 1 .. 4 : Header(k)[i] = <<k, i>>
          BY <2>2, HeaderOf
        <4>2. \A i \in 1 .. Len(header_frame_buf') : header_frame_buf'[i] = Header(k)[i]
          BY <1>1, <3>2, <4>1
        <4>3. header_frame_buf' \in Seq(Int \X Int) /\ Len(header_frame_buf') = Len(Header(k))
          BY <1>1, <4>1
        <4>4. Header(k) \in Seq(Int \X Int)
          BY <4>1
        <4> HIDE DEF k
        <4> QED
          BY <4>2, <4>3, <4>4, SeqEqual
      <3> QED
        BY <2>2, <3>3 DEF Crc8Ok
    <2> QED
      BY <1>2, <2>3, <2>4
  <1> QED
    BY <1>8, <1>9, <1>10, <1>11, <1>12

LEMMA ReadHeaderKeeps ==
  ASSUME ReceiveInv, NEW n \in 1 .. Len(wire), ReadHeader(n)
  PROVE  ReceiveInv'
  <1>1. /\ step = "header" /\ n <= 3 /\ wire' = After(n) /\ taken' = taken \o First(n)
        /\ received_len_sum' = 0 /\ data_buf' = <<>> /\ \A k \in split : k \in split'
        /\ UNCHANGED <<sent, published, strikes, hit>>
    BY DEF ReadHeader
  <1>2. /\ header_frame_buf' \in Seq(Int \X Int) /\ Len(header_frame_buf') = 4
        /\ \A i \in 1 .. 1 + n : header_frame_buf'[i] = <<FramesOf(Held, wire)[i], IndexesOf(Held, wire)[i]>>
        /\ n < 3 => header_frame_buf'[4] = Zero
        /\ Held = taken /\ Len(Held) = 1
        /\ taken[1] = <<FramesOf(Held, wire)[1], IndexesOf(Held, wire)[1]>>
    BY <1>1, HeaderRead
  <1>3. ReceiveTypes /\ Handed' = Handed /\ n \in Nat
    BY <1>1 DEF ReceiveInv, Handed
  <1>4. /\ wire \in Seq(Int \X Int) /\ Len(wire) \in Nat /\ n \in 0 .. Len(wire)
        /\ First(n) \in Seq(Int \X Int) /\ After(n) \in Seq(Int \X Int)
    <2>1. wire \in Seq(Int \X Int) /\ n \in 0 .. Len(wire)
      BY <1>3 DEF ReceiveTypes
    <2> QED
      BY <2>1, PortIs
  <1>5. taken' \in Seq(Int \X Int)
    <2>1. taken \in Seq(Int \X Int)
      BY <1>3 DEF ReceiveTypes
    <2> QED
      BY <1>1, <1>4, <2>1, JoinIs
  <1>6. data_buf' \in Seq(Int \X Int)
    BY <1>1
  <1>7. CASE Crc8Ok(header_frame_buf')
    <2>1. step' = "data" /\ remain_len' = Announced(header_frame_buf')
      BY <1>7 DEF ReadHeader
    <2>2. PICK k \in Numbers : header_frame_buf' = Header(k)
      BY <1>7 DEF Crc8Ok
    <2>3. remain_len' = len[k] + 2 /\ len[k] \in Nat
      BY <2>1, <2>2, NumberOfHeader, LengthsAre DEF Announced
    <2>4. \A i \in 1 .. 4 : header_frame_buf'[i] = <<k, i>>
      BY <2>2, HeaderOf
    <2>5. n = 3
      <3> SUFFICES ASSUME n < 3 PROVE FALSE
        BY <1>1, <1>3
      <3>1. header_frame_buf'[4] = Zero /\ header_frame_buf'[4] = <<k, 4>>
        BY <1>2, <2>4
      <3>2. k \in Nat
        BY LengthsAre
      <3> QED
        BY <3>1, <3>2 DEF Zero
    <2>6. /\ OnTheWire' /\ wire' \in Seq(Int \X Int) /\ taken' \in Seq(Int \X Int)
          /\ Len(taken') = Len(Held) + n
          /\ \A p \in 1 .. Len(Held) : taken'[p] = Held[p]
          /\ \A p \in 1 .. n : taken'[Len(Held) + p] = wire[p]
      <3>1. taken' = Held \o First(n) /\ step' # "sof" /\ UNCHANGED <<sent, hit, published>>
        BY <1>1, <1>2, <2>1
      <3> QED
        BY <1>1, <3>1, ReadOn
    <2>7. \A i \in 1 .. 4 : taken'[i] = <<k, i>>
      <3> TAKE i \in 1 .. 4
      <3>1. header_frame_buf'[i] = <<k, i>> /\ i \in 1 .. 1 + n
        BY <2>4, <2>5
      <3>2. FramesOf(Held, wire)[i] = k /\ IndexesOf(Held, wire)[i] = i
        BY <1>2, <3>1
      <3>3. CASE i = 1
        <4>1. 1 \in 1 .. Len(Held)
          BY <1>2
        <4>2. taken'[1] = taken[1]
          BY <1>2, <2>6, <4>1
        <4> QED
          BY <1>2, <3>2, <3>3, <4>2
      <3>4. CASE i > 1
        <4>1. i - 1 \in 1 .. n /\ i - 1 \in 1 .. Len(wire) /\ 1 + (i - 1) = i
          BY <1>4, <2>5, <3>4
        <4>2. taken'[i] = wire[i - 1]
          <5>1. taken'[Len(Held) + (i - 1)] = wire[i - 1]
            BY <2>6, <4>1
          <5> QED
            BY <1>2, <4>1, <5>1
        <4>3. wire[i - 1] \in Int \X Int
          BY <1>4, <4>1, ElementOfSeq
        <4>4. FramesOf(Held, wire)[i] = wire[i - 1][1] /\ IndexesOf(Held, wire)[i] = wire[i - 1][2]
          <5>1. /\ FramesOf(Held, wire)[Len(Held) + (i - 1)] = wire[i - 1][1]
                /\ IndexesOf(Held, wire)[Len(Held) + (i - 1)] = wire[i - 1][2]
            BY <1>3, <4>1, HeldAre
          <5> QED
            BY <1>2, <4>1, <5>1
        <4> QED
          BY <3>2, <4>2, <4>3, <4>4
      <3> QED
        BY <3>3, <3>4
    <2>8. DataOf(k)'
      <3>1. Len(data_buf') = 0
        BY <1>1
      <3>2. Len(taken') = 4 + 0
        <4>1. Len(Held) = 1
          BY <1>2
        <4> QED
          BY <2>5, <2>6, <4>1
      <3>3. remain_len' \in Nat /\ remain_len' = len[k] + 2 - 0
        BY <2>3
      <3> QED
        BY <1>1, <2>1, <2>2, <2>7, <3>1, <3>2, <3>3 DEF DataOf
    <2>9. ReceiveTypes'
      <3>1. remain_len' \in Int /\ received_len_sum' \in Nat
        BY <1>1, <2>3
      <3> QED
        BY <1>1, <1>2, <1>3, <1>4, <1>5, <1>6, <2>1, <3>1 DEF ReceiveTypes
    <2> QED
      BY <2>1, <2>6, <2>8, <2>9 DEF ReceiveInv, SofRead, DataRead
  <1>8. CASE ~Crc8Ok(header_frame_buf')
    <2>1. step' = "sof" /\ remain_len' = remain_len
      BY <1>8 DEF ReadHeader
    <2> DEFINE F == FramesOf(Held, wire)
               I == IndexesOf(Held, wire)
               m == TotalOf(Held, wire)
    <2>2. \A p \in Len(Held) + n + 1 .. m : F[p] >= 0 => \A k \in Handed : k < F[p]
      <3>1. \A p \in 1 .. m : F[p] >= 0 => \A k \in Handed : k < F[p]
        BY DEF ReceiveInv, OnTheWire, WireInv, Earlier
      <3>2. \A p \in Len(Held) + n + 1 .. m : p \in 1 .. m
        <4>1. Len(Held) = 1 /\ m \in Nat
          BY <1>2, <1>3, HeldAre
        <4> QED
          BY <1>3, <4>1
      <3> QED
        BY <3>1, <3>2
    <2>3. \A p \in 1 .. Len(Held) + n :
            F[p] \in 1 .. sent /\ I[p] = 1 =>
              Explained(FramesOf(<<>>, After(n)), IndexesOf(<<>>, After(n)), m - (Len(Held) + n),
                        hit, Handed, split', F[p])
      BY <1>1, <1>8, HeaderFails
    <2>4. OnTheWire'
      <3>1. hit' = hit /\ sent' = sent
        BY <1>1
      <3> HIDE DEF F, I, m
      <3> QED
        BY <1>1, <1>3, <1>4, <2>1, <2>2, <2>3, <3>1, SkipKeeps DEF F, I, m
    <2>5. ReceiveTypes'
      BY <1>1, <1>2, <1>3, <1>4, <1>5, <1>6, <2>1 DEF ReceiveTypes
    <2> QED
      BY <2>1, <2>4, <2>5 DEF ReceiveInv, SofRead, DataRead
  <1> QED
    BY <1>7, <1>8

Inserted(b, x, r, w) ==
  /\ Len(w) = Len(b) + Len(r)
  /\ \A i \in 1 .. x : w[i] = b[i]
  /\ \A i \in 1 .. Len(r) : w[x + i] = r[i]
  /\ \A i \in 1 .. Len(b) - x : w[x + Len(r) + i] = b[x + i]

LEMMA InsertIs ==
  ASSUME NEW S, NEW b \in Seq(S), NEW r \in Seq(S), NEW x \in 0 .. Len(b)
  PROVE  InsertAt(b, x, r) \in Seq(S) /\ Inserted(b, x, r, InsertAt(b, x, r))
  <1> DEFINE u == SubSeq(b, 1, x)
             v == From(b, x + 1)
             w == u \o r
  <1>0. Len(b) \in Nat /\ Len(r) \in Nat /\ x \in Nat
    OBVIOUS
  <1>1. u \in Seq(S) /\ Len(u) = x /\ \A i \in 1 .. x : u[i] = b[i]
    BY FirstIs
  <1>2. v \in Seq(S) /\ Len(v) = Len(b) - x /\ \A i \in 1 .. Len(b) - x : v[i] = b[i + x]
    BY FromIs
  <1>3. InsertAt(b, x, r) = w \o v
    BY DEF InsertAt, From
  <1> HIDE DEF u, v
  <1>4. /\ w \in Seq(S) /\ Len(w) = Len(u) + Len(r)
        /\ \A i \in 1 .. Len(u) : w[i] = u[i]
        /\ \A i \in 1 .. Len(r) : w[Len(u) + i] = r[i]
    <2>1. u \in Seq(S)
      BY <1>1
    <2> QED
      BY <2>1, JoinIs
  <1> HIDE DEF w
  <1>5. /\ w \o v \in Seq(S) /\ Len(w \o v) = Len(w) + Len(v)
        /\ \A i \in 1 .. Len(w) : (w \o v)[i] = w[i]
        /\ \A i \in 1 .. Len(v) : (w \o v)[Len(w) + i] = v[i]
    <2>1. w \in Seq(S) /\ v \in Seq(S)
      BY <1>2, <1>4
    <2> QED
      BY <2>1, JoinIs
  <1>6. Len(w) = x + Len(r) /\ Len(w \o v) = Len(b) + Len(r)
    BY <1>0, <1>1, <1>2, <1>4, <1>5
  <1>7. ASSUME NEW i \in 1 .. x
        PROVE  (w \o v)[i] = b[i]
    <2>1. i \in 1 .. Len(w) /\ i \in 1 .. Len(u)
      BY <1>0, <1>1, <1>6
    <2> QED
      BY <1>1, <1>4, <1>5, <2>1
  <1>8. ASSUME NEW i \in 1 .. Len(r)
        PROVE  (w \o v)[x + i] = r[i]
    <2>1. x + i \in 1 .. Len(w)
      BY <1>0, <1>6
    <2>2. (w \o v)[x + i] = w[x + i]
      BY <1>5, <2>1
    <2>3. w[x + i] = r[i]
      BY <1>1, <1>4
    <2> QED
      BY <2>2, <2>3
  <1>9. ASSUME NEW i \in 1 .. Len(b) - x
        PROVE  (w \o v)[x + Len(r) + i] = b[x + i]
    <2>1. (w \o v)[Len(w) + i] = v[i]
      BY <1>2, <1>5
    <2>2. i + x = x + i
      BY <1>0
    <2> QED
      BY <1>2, <1>6, <2>1, <2>2
  <1> QED
    BY <1>3, <1>5, <1>6, <1>7, <1>8, <1>9 DEF Inserted

LEMMA ReadDataKeeps ==
  ASSUME ReceiveInv, NEW n \in 1 .. Len(wire), ReadData(n)
  PROVE  ReceiveInv'
  <1>1. /\ step = "data" /\ n <= remain_len /\ wire' = After(n) /\ taken' = taken \o First(n)
        /\ data_buf' = InsertAt(data_buf, received_len_sum, First(n) \o Zeros(remain_len - n))
        /\ received_len_sum' = received_len_sum + n /\ remain_len' = remain_len - n
        /\ step' = IF remain_len' <= 0 THEN "parse" ELSE "data"
        /\ UNCHANGED <<sent, header_frame_buf, published, strikes, hit, split>>
    BY DEF ReadData, BufSize, history
  <1>2. ReceiveTypes /\ Handed' = Handed /\ Held = taken
    BY <1>1 DEF ReceiveInv, Handed, Held
  <1>3. PICK k \in Numbers : DataOf(k)
    BY <1>1 DEF ReceiveInv, DataRead
  <1>4. /\ header_frame_buf = Header(k) /\ \A i \in 1 .. 4 : taken[i] = <<k, i>>
        /\ Len(taken) = 4 + received_len_sum
        /\ remain_len \in Nat /\ remain_len = len[k] + 2 - received_len_sum
        /\ received_len_sum <= Len(data_buf)
        /\ \A i \in 1 .. Len(data_buf) : data_buf[i] = IF i <= received_len_sum THEN taken[4 + i] ELSE Zero
    BY <1>3 DEF DataOf
  <1>5. /\ wire \in Seq(Int \X Int) /\ Len(wire) \in Nat /\ n \in 0 .. Len(wire) /\ n \in Nat
        /\ data_buf \in Seq(Int \X Int) /\ Len(data_buf) \in Nat /\ received_len_sum \in Nat
        /\ len[k] \in Nat
    BY <1>2, LengthsAre DEF ReceiveTypes
  <1>6. /\ First(n) \in Seq(Int \X Int) /\ Len(First(n)) = n /\ \A p \in 1 .. n : First(n)[p] = wire[p]
        /\ After(n) \in Seq(Int \X Int)
    BY <1>5, PortIs
  <1>7. /\ OnTheWire' /\ wire' \in Seq(Int \X Int) /\ taken' \in Seq(Int \X Int)
        /\ Len(taken') = 4 + received_len_sum + n
        /\ \A p \in 1 .. 4 + received_len_sum : taken'[p] = taken[p]
        /\ \A p \in 1 .. n : taken'[4 + received_len_sum + p] = wire[p]
    <2>1. step' # "sof" /\ taken' = Held \o First(n) /\ UNCHANGED <<sent, hit, published>>
          /\ \A j \in split : j \in split'
      BY <1>1, <1>2
    <2>2. /\ OnTheWire' /\ wire' \in Seq(Int \X Int) /\ taken' \in Seq(Int \X Int)
          /\ Len(taken') = Len(Held) + n
          /\ \A p \in 1 .. Len(Held) : taken'[p] = Held[p]
          /\ \A p \in 1 .. n : taken'[Len(Held) + p] = wire[p]
      BY <1>1, <2>1, ReadOn
    <2> QED
      BY <1>2, <1>4, <2>2
  <1> DEFINE place == received_len_sum
             y == remain_len - n
             came == First(n)
             none == Zeros(y)
  <1>8. y \in Nat /\ place \in 0 .. Len(data_buf) /\ place \in Nat
    <2>1. n <= remain_len /\ remain_len \in Nat /\ n \in Nat
      BY <1>1, <1>4, <1>5
    <2>2. received_len_sum \in Nat /\ received_len_sum <= Len(data_buf) /\ Len(data_buf) \in Nat
      BY <1>4, <1>5
    <2> QED
      BY <2>1, <2>2
  <1>9. none \in Seq(Int \X Int) /\ Len(none) = y /\ \A i \in 1 .. y : none[i] = Zero
    BY <1>8, ZerosAre
  <1>10. came \in Seq(Int \X Int) /\ Len(came) = n /\ \A p \in 1 .. n : came[p] = wire[p]
    BY <1>6
  <1> DEFINE piece == came \o none
             whole == InsertAt(data_buf, place, piece)
  <1>11. data_buf' = whole
    BY <1>1
  <1> HIDE DEF came, none
  <1>12. /\ piece \in Seq(Int \X Int) /\ Len(piece) = Len(came) + Len(none)
         /\ \A i \in 1 .. Len(came) : piece[i] = came[i]
         /\ \A i \in 1 .. Len(none) : piece[Len(came) + i] = none[i]
    <2>1. came \in Seq(Int \X Int) /\ none \in Seq(Int \X Int)
      BY <1>9, <1>10
    <2> QED
      BY <2>1, JoinIs
  <1> HIDE DEF piece
  <1>13. /\ whole \in Seq(Int \X Int) /\ Len(whole) = Len(data_buf) + Len(piece)
         /\ \A i \in 1 .. place : whole[i] = data_buf[i]
         /\ \A i \in 1 .. Len(piece) : whole[place + i] = piece[i]
         /\ \A i \in 1 .. Len(data_buf) - place : whole[place + Len(piece) + i] = data_buf[place + i]
    <2>1. data_buf \in Seq(Int \X Int)
      BY <1>5
    <2>2. piece \in Seq(Int \X Int)
      BY <1>12
    <2>3. place \in 0 .. Len(data_buf)
      BY <1>8
    <2> HIDE DEF place
    <2>4. InsertAt(data_buf, place, piece) \in Seq(Int \X Int)
          /\ Inserted(data_buf, place, piece, InsertAt(data_buf, place, piece))
      BY <2>1, <2>2, <2>3, InsertIs
    <2>5. whole \in Seq(Int \X Int) /\ Inserted(data_buf, place, piece, whole)
      BY <2>4
    <2> HIDE DEF whole
    <2> QED
      BY <2>5 DEF Inserted
  <1> HIDE DEF whole, place, y
  <1>14. Len(piece) = n + y /\ Len(whole) = Len(data_buf) + (n + y) /\ Len(data_buf) \in Nat /\ n \in Nat
    BY <1>5, <1>8, <1>9, <1>10, <1>12, <1>13
  <1>15. ASSUME NEW i \in 1 .. Len(whole)
         PROVE  whole[i] = IF i <= place + n THEN taken'[4 + i] ELSE Zero
    <2>1. CASE i <= place
      <3>1. i \in 1 .. place /\ i \in 1 .. Len(data_buf) /\ i <= place + n /\ 4 + i \in 1 .. 4 + place
        BY <1>8, <1>14, <2>1
      <3>2. whole[i] = data_buf[i] /\ data_buf[i] = taken[4 + i]
        BY <1>4, <1>13, <3>1, <2>1 DEF place
      <3>3. taken'[4 + i] = taken[4 + i]
        BY <1>7, <3>1 DEF place
      <3> QED
        BY <3>1, <3>2, <3>3
    <2>2. CASE i > place /\ i <= place + n
      <3>1. i - place \in 1 .. n /\ place + (i - place) = i /\ 4 + place + (i - place) = 4 + i /\ i - place \in 1 .. Len(piece)
        BY <1>8, <1>14, <2>2
      <3>2. whole[place + (i - place)] = piece[i - place]
        BY <1>13, <3>1
      <3>3. piece[i - place] = came[i - place] /\ came[i - place] = wire[i - place]
        BY <1>10, <1>12, <3>1
      <3>4. taken'[4 + place + (i - place)] = wire[i - place]
        BY <1>7, <3>1 DEF place
      <3> QED
        BY <2>2, <3>1, <3>2, <3>3, <3>4
    <2>3. CASE i > place + n /\ i <= place + n + y
      <3>1. /\ i - place - n \in 1 .. y /\ place + (n + (i - place - n)) = i
            /\ n + (i - place - n) \in 1 .. Len(piece) /\ ~(i <= place + n)
        BY <1>8, <1>14, <2>3
      <3>2. whole[place + (n + (i - place - n))] = piece[n + (i - place - n)]
        BY <1>13, <3>1
      <3>3. piece[n + (i - place - n)] = Zero
        BY <1>9, <1>10, <1>12, <3>1
      <3> QED
        BY <3>1, <3>2, <3>3
    <2>4. CASE i > place + n + y
      <3>1. /\ i - (n + y) \in 1 .. Len(data_buf) /\ i - (n + y) > place /\ ~(i <= place + n)
            /\ i - (n + y) - place \in 1 .. Len(data_buf) - place /\ place + (n + y) + (i - (n + y) - place) = i
            /\ place + (i - (n + y) - place) = i - (n + y)
        BY <1>8, <1>14, <2>4
      <3>2. whole[place + Len(piece) + (i - (n + y) - place)] = data_buf[place + (i - (n + y) - place)]
        BY <1>13, <3>1
      <3>3. data_buf[i - (n + y)] = Zero
        <4>1. ~(i - (n + y) <= place)
          BY <1>8, <1>14, <2>4
        <4> DEFINE j == i - (n + y)
        <4>2. j \in 1 .. Len(data_buf) /\ ~(j <= received_len_sum)
          BY <3>1, <4>1 DEF place
        <4> HIDE DEF j
        <4>3. data_buf[j] = Zero
          BY <1>4, <4>2
        <4> QED
          BY <4>3 DEF j
      <3> QED
        BY <1>14, <3>1, <3>2, <3>3
    <2> QED
      BY <1>8, <1>14, <2>1, <2>2, <2>3, <2>4
  <1>16. DataOf(k)'
    <2>0. received_len_sum' = place + n /\ remain_len' = y
      BY <1>1 DEF place, y
    <2>1. remain_len' \in Nat /\ received_len_sum' <= Len(data_buf')
      <3>1. Len(data_buf') = Len(data_buf) + (n + y)
        BY <1>11, <1>14
      <3>2. place <= Len(data_buf)
        BY <1>8, <1>14
      <3> QED
        BY <1>8, <1>14, <2>0, <3>1, <3>2
    <2>5. Len(taken') = 4 + received_len_sum'
      BY <1>7, <1>5, <2>0 DEF place
    <2>6. remain_len' = len[k] + 2 - received_len_sum'
      <3>1. remain_len = (len[k] + 2) - received_len_sum
        <4>1. remain_len = len[k] + 2 - received_len_sum
          BY <1>4
        <4>2. len[k] \in Nat /\ received_len_sum \in Nat
          BY <1>5
        <4> QED
          BY <4>1, <4>2
      <3>2. remain_len' = remain_len - n /\ received_len_sum' = received_len_sum + n
        BY <1>1
      <3>3. len[k] \in Nat /\ received_len_sum \in Nat /\ n \in Nat
        BY <1>5
      <3> DEFINE a1 == len[k]
      <3> HIDE DEF a1
      <3>4. remain_len = (a1 + 2) - received_len_sum /\ a1 \in Nat
        BY <3>1, <3>3 DEF a1
      <3>5. remain_len' = (a1 + 2) - received_len_sum'
        BY <3>2, <3>3, <3>4
      <3> QED
        BY <1>1, <1>5, <3>3, <3>5 DEF a1
    <2>2. \A i \in 1 .. 4 : taken'[i] = <<k, i>>
      <3>1. \A i \in 1 .. 4 : i \in 1 .. 4 + received_len_sum
        BY <1>5
      <3> QED
        BY <1>4, <1>7, <3>1
    <2>3. step' = "parse" => remain_len' = 0
      BY <1>1, <2>0, <2>1
    <2>4. \A i \in 1 .. Len(data_buf') :
            data_buf'[i] = IF i <= received_len_sum' THEN taken'[4 + i] ELSE Zero
      BY <1>11, <1>15, <2>0
    <2> QED
      BY <1>1, <1>4, <2>1, <2>2, <2>3, <2>4, <2>5, <2>6 DEF DataOf
  <1>17. ReceiveTypes'
    <2>1. data_buf' \in Seq(Int \X Int) /\ received_len_sum' \in Nat /\ remain_len' \in Int
      BY <1>1, <1>4, <1>5, <1>11, <1>13
    <2> QED
      BY <1>1, <1>2, <1>7, <2>1 DEF ReceiveTypes
  <1>18. step' # "header"
    BY <1>1
  <1> QED
    BY <1>7, <1>16, <1>17, <1>18 DEF ReceiveInv, SofRead, DataRead

LEMMA ReceiveBegins == ReceiveInit => ReceiveInv
  <1> SUFFICES ASSUME ReceiveInit PROVE ReceiveInv
    OBVIOUS
  <1>0. /\ 0 \in Numbers /\ Lengths[0] = FrameLen(0) /\ FrameLen(0) \in Nat /\ FrameLen(0) >= 7
        /\ NumPackets \in Nat
    <2>1. 0 \in Numbers
      BY LengthsAre
    <2> QED
      BY <2>1, LengthsAre
  <1>1. PICK i \in 2 .. FrameLen(0) + 1 : wire = SubSeq(Frame(0), i, FrameLen(0))
    BY DEF ReceiveInit
  <1> DEFINE r == Frame(0)
             c == i - 1
  <1>2. r \in Seq(Int \X Int) /\ Len(r) = FrameLen(0) /\ \A p \in 1 .. FrameLen(0) : r[p] = <<0, p>>
    BY <1>0, FrameIs
  <1>3. c \in 1 .. FrameLen(0) /\ c \in 0 .. Len(r) /\ c + 1 = i
    BY <1>0, <1>2
  <1>4. wire = From(r, c + 1)
    BY <1>1, <1>2, <1>3 DEF From
  <1> HIDE DEF r, c
  <1>5. /\ wire \in Seq(Int \X Int) /\ Len(wire) = FrameLen(0) - c
        /\ \A p \in 1 .. FrameLen(0) - c : wire[p] = <<0, p + c>>
    <2>1. /\ From(r, c + 1) \in Seq(Int \X Int) /\ Len(From(r, c + 1)) = Len(r) - c
          /\ \A p \in 1 .. Len(r) - c : From(r, c + 1)[p] = r[p + c]
      <3>1. r \in Seq(Int \X Int)
        BY <1>2
      <3> QED
        BY <1>3, <3>1, FromIs
    <2>2. \A p \in 1 .. FrameLen(0) - c : p + c \in 1 .. FrameLen(0)
      BY <1>0, <1>3
    <2> QED
      BY <1>2, <1>4, <2>1, <2>2
  <1>6. /\ step = "sof" /\ sent = 0 /\ published = <<>> /\ hit = {} /\ split = {}
        /\ header_frame_buf = <<>> /\ data_buf = <<>> /\ taken = <<>> /\ remain_len = 0 /\ received_len_sum = 0
    BY DEF ReceiveInit
  <1>7. Handed = {} /\ Held = <<>> /\ Len(Held) = 0
    BY <1>6 DEF Handed, ElementsOf, Held
  <1>8. ReceiveTypes
    <2>1. /\ header_frame_buf \in Seq(Int \X Int) /\ data_buf \in Seq(Int \X Int) /\ taken \in Seq(Int \X Int)
          /\ published \in Seq(Nat)
      BY <1>6
    <2> QED
      BY <1>0, <1>5, <1>6, <1>7, <2>1 DEF ReceiveTypes
  <1> DEFINE n == TotalOf(Held, wire)
             F == FramesOf(Held, wire)
             I == IndexesOf(Held, wire)
  <1>9. n = Lengths[0] - c
    BY <1>0, <1>3, <1>5, <1>7 DEF TotalOf
  <1>10. \A p \in 1 .. n : F[p] = 0 /\ I[p] = p + c
    <2> TAKE p \in 1 .. n
    <2>1. p \in 1 .. Len(wire) /\ Len(Held) + p = p
      BY <1>0, <1>3, <1>5, <1>7, <1>9
    <2>2. F[Len(Held) + p] = wire[p][1] /\ I[Len(Held) + p] = wire[p][2]
      BY <1>8, <2>1, HeldAre
    <2>3. wire[p] = <<0, p + c>>
      BY <1>5, <2>1
    <2> QED
      BY <2>1, <2>2, <2>3
  <1> HIDE DEF n, F, I
  <1>11. InOrder(Lengths, F, I, n, {}, 0)
    BY <1>0, <1>3, <1>9, <1>10, EndOfFrame0
  <1>12. WireInv(F, I, n, {}, {}, {}, 0)
    BY <1>11 DEF WireInv, Earlier, AllExplained
  <1>13. OnTheWire
    BY <1>6, <1>7, <1>12 DEF OnTheWire, n, F, I
  <1> QED
    BY <1>6, <1>8, <1>13 DEF ReceiveInv, SofRead, DataRead

LEMMA BoardSendsKeeps ==
  ASSUME ReceiveInv, BoardSends
  PROVE  ReceiveInv'
  <1>1. /\ sent' = sent + 1 /\ wire' = wire \o Frame(sent + 1) /\ sent < NumPackets
        /\ UNCHANGED <<step, header_frame_buf, data_buf, remain_len, received_len_sum, taken, published, hit, split>>
    BY DEF BoardSends, bufVars, history
  <1>2. ReceiveTypes /\ sent \in Nat /\ NumPackets \in Nat
    BY LengthsAre DEF ReceiveInv, ReceiveTypes
  <1>3. Handed' = Handed /\ Held' = Held
    BY <1>1 DEF Handed, Held
  <1>4. /\ sent + 1 \in Numbers /\ FrameLen(sent + 1) \in Nat
        /\ Lengths[sent + 1] = FrameLen(sent + 1)
    <2>1. sent + 1 \in 0 .. NumPackets
      BY <1>1, <1>2
    <2> QED
      BY <2>1, LengthsAre
  <1> DEFINE k == sent + 1
             r == Frame(k)
  <1>5. r \in Seq(Int \X Int) /\ Len(r) = FrameLen(k) /\ \A i \in 1 .. FrameLen(k) : r[i] = <<k, i>>
    <2>1. k \in Numbers
      BY <1>4
    <2> HIDE DEF k
    <2> QED
      BY <2>1, FrameIs
  <1>6. wire' = wire \o r /\ k \in Int
    BY <1>1, <1>2
  <1>7. wire \in Seq(Int \X Int) /\ Held \in Seq(Int \X Int) /\ Len(Held) \in Nat /\ Len(wire) \in Nat
        /\ TotalOf(Held, wire) \in Nat
    BY <1>2, HeldAre
  <1>8. ExtendedBy(wire, Lengths[k], k, wire') /\ wire' \in Seq(Int \X Int)
    <2> HIDE DEF r
    <2>1. /\ wire \o r \in Seq(Int \X Int) /\ Len(wire \o r) = Len(wire) + Len(r)
          /\ \A p \in 1 .. Len(wire) : (wire \o r)[p] = wire[p]
          /\ \A p \in 1 .. Len(r) : (wire \o r)[Len(wire) + p] = r[p]
      <3>1. wire \in Seq(Int \X Int) /\ r \in Seq(Int \X Int)
        BY <1>5, <1>7
      <3> QED
        BY <3>1, JoinIs
    <2>2. Lengths[k] = Len(r)
      BY <1>4, <1>5
    <2> HIDE DEF k
    <2> QED
      BY <1>5, <1>6, <2>1, <2>2 DEF ExtendedBy
  <1> DEFINE n == TotalOf(Held, wire)
             F == FramesOf(Held, wire)
             I == IndexesOf(Held, wire)
             G == FramesOf(Held, wire')
             J == IndexesOf(Held, wire')
  <1>9. TotalOf(Held, wire') = n + Lengths[k] /\ Followed(Lengths, F, I, n, k, G, J)
    <2>1. Lengths[k] \in Nat
      BY <1>4
    <2> HIDE DEF k
    <2> QED
      BY <1>7, <1>8, <2>1, SendBytes
  <1>10. WireInv(F, I, n, hit, Handed, split, sent)
    BY DEF ReceiveInv, OnTheWire
  <1>11. (\A m \in hit : m \in 0 .. sent) /\ (\A m \in Handed : m \in 1 .. sent)
    BY <1>2 DEF ReceiveTypes
  <1> HIDE DEF n, F, I, G, J
  <1>12. WireInv(G, J, n + FrameLen(sent + 1), hit, Handed, split, sent + 1)
    <2>1. n \in Nat /\ Followed(Lengths, F, I, n, sent + 1, G, J)
      BY <1>7, <1>9 DEF n
    <2> QED
      BY <1>1, <1>2, <1>10, <1>11, <2>1, WireExtended
  <1>13. OnTheWire'
    <2>1. TotalOf(Held, wire') = n + FrameLen(sent + 1)
      BY <1>4, <1>9
    <2>2. Held' = Held /\ hit' = hit /\ Handed' = Handed /\ split' = split /\ sent' = sent + 1
      BY <1>1, <1>3
    <2> QED
      BY <1>12, <2>1, <2>2 DEF OnTheWire, G, J
  <1>14. ReceiveTypes'
    <2>1. sent' \in 0 .. NumPackets /\ \A m \in 0 .. sent : m \in 0 .. sent'
      BY <1>1, <1>2
    <2>2. (\A m \in hit' : m \in 0 .. sent') /\ (\A m \in Handed' : m \in 1 .. sent')
      BY <1>1, <1>2, <1>3, <1>11
    <2>3. hit' \subseteq 0 .. sent' /\ Handed' \subseteq 1 .. sent'
      BY <2>2
    <2> QED
      BY <1>1, <1>2, <1>8, <2>1, <2>3 DEF ReceiveTypes
  <1>15. SofRead' /\ DataRead'
    BY <1>1 DEF ReceiveInv, SofRead, DataRead, DataOf
  <1> QED
    BY <1>13, <1>14, <1>15 DEF ReceiveInv

LEMMA FaultKeeps ==
  ASSUME ReceiveInv, NEW i \in 1 .. Len(wire), Fault(i)
  PROVE  ReceiveInv'
  <1>1. /\ hit' = hit \cup ({wire[i][1]} \cap Numbers)
        /\ UNCHANGED <<sent, step, header_frame_buf, data_buf, remain_len, received_len_sum, taken, published, split>>
    BY DEF Fault, bufVars
  <1>2. ReceiveTypes
    BY DEF ReceiveInv
  <1>3. Handed' = Handed /\ Held' = Held
    BY <1>1 DEF Handed, Held
  <1> DEFINE n == TotalOf(Held, wire)
             F == FramesOf(Held, wire)
             I == IndexesOf(Held, wire)
             G == FramesOf(Held, wire')
             J == IndexesOf(Held, wire')
             m == TotalOf(Held, wire')
             d == Len(Held) + i
             x == F[d]
  <1>4. /\ wire \in Seq(Int \X Int) /\ Held \in Seq(Int \X Int) /\ Len(Held) \in Nat /\ Len(wire) \in Nat
        /\ n \in Nat /\ n = Len(Held) + Len(wire) /\ x = wire[i][1] /\ sent \in 0 .. NumPackets
    <2>1. F[Len(Held) + i] = wire[i][1]
      BY <1>2, HeldAre
    <2> QED
      BY <1>2, <2>1, HeldAre DEF ReceiveTypes
  <1>5. d \in 1 .. n
    BY <1>4
  <1>6. WireInv(F, I, n, hit, Handed, split, sent)
    BY DEF ReceiveInv, OnTheWire
  <1>7. \A k \in hit : k \in 0 .. sent /\ k \in Nat /\ k \in hit'
    <2>1. \A k \in hit : k \in 0 .. sent
      BY <1>2 DEF ReceiveTypes
    <2> QED
      BY <1>1, <2>1
  <1> HIDE DEF n, F, I, G, J, m
  <1>8. x \in Int /\ (x = -1 \/ x \in 0 .. sent)
    BY <1>5, <1>6 DEF WireInv, InOrder, BytesAre
  <1>9. x >= 0 => x \in hit'
    <2>1. 0 .. sent \subseteq Numbers
      BY <1>4, LengthsAre
    <2> QED
      BY <1>1, <1>4, <1>8, <2>1
  <1>10. hit' \subseteq 0 .. sent
    <2>1. \A k \in hit' : k \in hit \/ (k = x /\ k \in Nat)
      <3>1. \A k \in Numbers : k \in Nat
        BY LengthsAre
      <3> QED
        BY <1>1, <1>4, <3>1
    <2>2. x \in Nat => x \in 0 .. sent
      BY <1>8
    <2> QED
      BY <1>7, <2>1, <2>2
  <1> HIDE DEF x
  <1>11. SizesAre(Lengths, sent) /\ sent \in Nat
    BY <1>4, LengthsAre
  <1>12. /\ wire' \in Seq(Int \X Int) /\ m \in Nat /\ InOrder(Lengths, G, J, m, hit', sent)
         /\ \A p \in 1 .. m : G[p] = -1 \/ \E q \in 1 .. n : G[p] = F[q] /\ J[p] = I[q]
         /\ \A k \in Nat : Begins(F, I, n, k) /\ k # x => Begins(G, J, m, k)
    <2>1. CASE wire' = SubSeq(wire, 1, i - 1) \o After(i)
      <3>1. wire' \in Seq(Int \X Int) /\ Without(wire, i, wire')
        <4>1. wire' = SubSeq(wire, 1, i - 1) \o From(wire, i + 1)
          BY <2>1 DEF After, From
        <4> QED
          BY <1>4, <4>1, CutOutIs
      <3>2. m = n - 1 /\ LostAt(F, I, n, d, G, J)
        BY <1>4, <3>1, LossBytes DEF F, I, G, J, n, m
      <3>3. m \in Nat
        BY <1>4, <1>5, <3>2
      <3>4. InOrder(Lengths, G, J, n - 1, hit', sent)
        BY <1>4, <1>5, <1>6, <1>7, <1>9, <1>11, <3>2, LossInOrder DEF WireInv, x
      <3>5. \A p \in 1 .. m : \E q \in 1 .. n : G[p] = F[q] /\ J[p] = I[q]
        <4> TAKE p \in 1 .. m
        <4>1. p \in 1 .. n /\ p + 1 \in 1 .. n /\ (p \in 1 .. d - 1 \/ p \in d .. n - 1)
          BY <1>4, <1>5, <3>2
        <4> QED
          BY <3>2, <4>1 DEF LostAt
      <3>6. ASSUME NEW k \in Nat, Begins(F, I, n, k), k # x
            PROVE  Begins(G, J, m, k)
        <4>1. PICK q \in 1 .. n : F[q] = k /\ I[q] = 1
          BY <3>6 DEF Begins
        <4>2. q # d
          BY <3>6, <4>1 DEF x
        <4>3. CASE q < d
          <5>1. q \in 1 .. d - 1 /\ q \in 1 .. m
            BY <1>4, <1>5, <3>2, <4>3
          <5> QED
            BY <3>2, <4>1, <5>1 DEF LostAt, Begins
        <4>4. CASE q > d
          <5>1. q - 1 \in d .. n - 1 /\ q - 1 \in 1 .. m /\ (q - 1) + 1 = q
            BY <1>4, <1>5, <3>2, <4>4
          <5>2. G[q - 1] = k /\ J[q - 1] = 1
            BY <3>2, <4>1, <5>1 DEF LostAt
          <5> QED
            BY <5>1, <5>2 DEF Begins
        <4> QED
          BY <1>5, <4>2, <4>3, <4>4
      <3> QED
        BY <3>1, <3>2, <3>3, <3>4, <3>5, <3>6
    <2>2. CASE \E b \in {Noise, NoiseSof} : wire' = [wire EXCEPT ![i] = b]
      <3>1. PICK b \in {Noise, NoiseSof} : wire' = [wire EXCEPT ![i] = b]
        BY <2>2
      <3>2. b \in Int \X Int /\ b[1] = -1 /\ b[2] \in Int
        BY DEF Noise, NoiseSof
      <3>3. /\ wire' \in Seq(Int \X Int) /\ Len(wire') = Len(wire) /\ wire'[i] = b
            /\ \A p \in 1 .. Len(wire) : p # i => wire'[p] = wire[p]
        BY <1>4, <3>1, <3>2, ExceptSeq
      <3>4. Changed(wire, i, wire')
        BY <3>2, <3>3 DEF Changed
      <3>5. m = n /\ NoiseAt(F, I, n, d, G, J)
        BY <1>4, <3>4, NoiseBytes DEF F, I, G, J, n, m
      <3>6. InOrder(Lengths, G, J, n, hit', sent)
        BY <1>4, <1>5, <1>6, <1>7, <1>9, <1>11, <3>5, NoiseInOrder DEF WireInv, x
      <3>7. \A p \in 1 .. n : G[p] = -1 \/ (G[p] = F[p] /\ J[p] = I[p])
        BY <3>5 DEF NoiseAt
      <3>8. ASSUME NEW k \in Nat, Begins(F, I, n, k), k # x
            PROVE  Begins(G, J, n, k)
        BY <3>5, <3>8 DEF Begins, NoiseAt, x
      <3> QED
        BY <1>4, <3>3, <3>5, <3>6, <3>7, <3>8
    <2> QED
      BY <2>1, <2>2 DEF Fault
  <1>13. WireInv(G, J, m, hit', Handed, split, sent)
    <2>1. x \in 1 .. sent => x \in hit'
      BY <1>9
    <2>2. \A k \in hit : k \in Nat /\ k \in hit'
      BY <1>7
    <2>3. n \in Nat /\ m \in Nat /\ sent \in 0 .. NumPackets
      BY <1>4, <1>12
    <2>4. InOrder(Lengths, G, J, m, hit', sent)
      BY <1>12
    <2>5. \A p \in 1 .. m : G[p] = -1 \/ \E q \in 1 .. n : G[p] = F[q] /\ J[p] = I[q]
      BY <1>12
    <2>6. \A k \in Nat : Begins(F, I, n, k) /\ k # x => Begins(G, J, m, k)
      BY <1>12
    <2> QED
      BY <1>6, <2>1, <2>2, <2>3, <2>4, <2>5, <2>6, WireHit
  <1>14. OnTheWire'
    BY <1>1, <1>3, <1>13 DEF OnTheWire, G, J, m
  <1>15. ReceiveTypes'
    BY <1>1, <1>2, <1>3, <1>10, <1>12 DEF ReceiveTypes
  <1>16. SofRead' /\ DataRead'
    BY <1>1 DEF ReceiveInv, SofRead, DataRead, DataOf
  <1> QED
    BY <1>14, <1>15, <1>16 DEF ReceiveInv

(* What a packet in data_buf is made of.                                   *)
LEMMA ParseReads ==
  ASSUME ReceiveInv, step = "parse", NEW k \in Numbers, DataOf(k)
  PROVE  /\ Held = taken /\ Len(Held) = FrameLen(k) /\ FrameLen(k) \in Nat /\ FrameLen(k) >= 7
         /\ FrameLen(k) <= TotalOf(Held, wire)
         /\ \A i \in 1 .. FrameLen(k) :
              taken[i] = <<FramesOf(Held, wire)[i], IndexesOf(Held, wire)[i]>>
         /\ \A i \in 1 .. 4 : FramesOf(Held, wire)[i] = k /\ IndexesOf(Held, wire)[i] = i
  <1>1. ReceiveTypes /\ Held = taken
    BY DEF ReceiveInv, Held
  <1>2. Len(Held) = FrameLen(k) /\ FrameLen(k) \in Nat /\ FrameLen(k) >= 7
    BY <1>1, PacketIs, LengthsAre
  <1>3. /\ TotalOf(Held, wire) = Len(Held) + Len(wire) /\ Len(wire) \in Nat /\ Held \in Seq(Int \X Int)
        /\ \A p \in 1 .. Len(Held) :
              FramesOf(Held, wire)[p] = Held[p][1] /\ IndexesOf(Held, wire)[p] = Held[p][2]
    BY <1>1, HeldAre
  <1>4. ASSUME NEW i \in 1 .. FrameLen(k)
        PROVE  taken[i] = <<FramesOf(Held, wire)[i], IndexesOf(Held, wire)[i]>>
    <2>1. i \in 1 .. Len(Held)
      BY <1>2
    <2>2. Held[i] \in Int \X Int
      BY <1>3, <2>1, ElementOfSeq
    <2> QED
      BY <1>1, <1>3, <2>1, <2>2
  <1>5. ASSUME NEW i \in 1 .. 4
        PROVE  FramesOf(Held, wire)[i] = k /\ IndexesOf(Held, wire)[i] = i
    <2>1. taken[i] = <<k, i>>
      BY DEF DataOf
    <2>2. i \in 1 .. Len(Held)
      BY <1>2
    <2> QED
      BY <1>1, <1>3, <2>1, <2>2
  <1>6. FrameLen(k) <= TotalOf(Held, wire)
    BY <1>2, <1>3
  <1> QED
    BY <1>1, <1>2, <1>4, <1>5, <1>6

(* What is published is the packet that was read, and it is newer than all *)
(* that were published.                                                    *)
LEMMA ParsePublishes ==
  ASSUME ReceiveInv, step = "parse", NEW k \in Numbers, DataOf(k), Crc16Ok(Packet)
  PROVE  /\ Contents = k /\ k \in 1 .. sent /\ \A j \in Handed : j < k
         /\ \A p \in 1 .. FrameLen(k) : FramesOf(Held, wire)[p] = k /\ IndexesOf(Held, wire)[p] = p
         /\ \A p \in FrameLen(k) + 1 .. TotalOf(Held, wire) :
              FramesOf(Held, wire)[p] >= 0 => k < FramesOf(Held, wire)[p]
  <1> DEFINE n == TotalOf(Held, wire)
             F == FramesOf(Held, wire)
             I == IndexesOf(Held, wire)
             size == FrameLen(k)
  <1>1. /\ size \in Nat /\ size >= 7 /\ size <= n /\ F[1] = k /\ I[1] = 1 /\ n \in Nat
        /\ \A i \in 1 .. size : taken[i] = <<F[i], I[i]>>
    <2>1. ReceiveTypes
      BY DEF ReceiveInv
    <2>2. 1 \in 1 .. 4
      OBVIOUS
    <2> QED
      BY <2>1, <2>2, ParseReads, HeldAre
  <1>2. Contents = k /\ \A i \in 1 .. size : taken[i] = <<k, i>>
    BY WholeIfPasses DEF ReceiveInv
  <1>3. WireInv(F, I, n, hit, Handed, split, sent) /\ Lengths[k] = size /\ k \in Nat
    BY LengthsAre DEF ReceiveInv, OnTheWire
  <1> HIDE DEF n, F, I, size
  <1>4. \A p \in 1 .. size : F[p] = k /\ I[p] = p
    <2> TAKE p \in 1 .. size
    <2>1. <<F[p], I[p]>> = <<k, p>>
      BY <1>1, <1>2
    <2> QED
      BY <2>1
  <1>5. 1 \in 1 .. n /\ size \in 1 .. size /\ size \in 1 .. n
    BY <1>1
  <1>6. k \in 1 .. sent
    <2>1. F[1] = -1 \/ (F[1] \in 0 .. sent /\ (F[1] = 0 => I[1] # 1))
      BY <1>3, <1>5 DEF WireInv, InOrder, BytesAre
    <2> QED
      BY <1>1, <1>3, <2>1
  <1>7. \A j \in Handed : j < k
    BY <1>1, <1>3, <1>5 DEF WireInv, Earlier
  <1>8. ASSUME NEW p \in size + 1 .. n, F[p] >= 0
        PROVE  k < F[p]
    <2>1. p \in 1 .. n /\ size < p
      BY <1>1
    <2>2. F[size] = k /\ I[size] = size
      BY <1>4, <1>5
    <2>3. k < F[p] \/ (k = F[p] /\ size < I[p])
      <3>1. F[size] >= 0
        BY <1>3, <2>2
      <3>2. F[size] < F[p] \/ (F[size] = F[p] /\ I[size] < I[p])
        BY <1>3, <1>5, <1>8, <2>1, <3>1 DEF WireInv, InOrder, Sorted
      <3> QED
        BY <2>2, <3>2
    <2>4. F[p] \in Int /\ I[p] \in 1 .. Lengths[F[p]]
      BY <1>3, <1>8, <2>1 DEF WireInv, InOrder, BytesAre
    <2> QED
      BY <1>1, <1>3, <2>3, <2>4
  <1> QED
    BY <1>2, <1>4, <1>6, <1>7, <1>8 DEF n, F, I, size

LEMMA ParseKeeps ==
  ASSUME ReceiveInv, Parse
  PROVE  ReceiveInv'
  <1>1. /\ step = "parse" /\ step' = "sof"
        /\ UNCHANGED <<wire, sent, header_frame_buf, data_buf, remain_len, received_len_sum, taken, hit, split>>
    BY DEF Parse, bufVars, history
  <1>2. ReceiveTypes
    BY DEF ReceiveInv
  <1>3. PICK k \in Numbers : DataOf(k)
    BY <1>1 DEF ReceiveInv, DataRead
  <1> DEFINE n == TotalOf(Held, wire)
             F == FramesOf(Held, wire)
             I == IndexesOf(Held, wire)
             G == FramesOf(<<>>, After(0))
             J == IndexesOf(<<>>, After(0))
             c == Len(Held) + 0
             then == Handed'
  <1>4. /\ n \in Nat /\ n = Len(Held) + Len(wire) /\ Len(wire) \in Nat /\ wire \in Seq(Int \X Int)
        /\ sent \in 0 .. NumPackets /\ 0 \in 0 .. Len(wire)
    BY <1>2, HeldAre DEF ReceiveTypes
  <1>5. /\ Len(After(0)) = Len(wire) - 0 /\ After(0) \in Seq(Int \X Int)
        /\ \A p \in 1 .. Len(wire) - 0 : After(0)[p] = wire[p + 0]
    BY <1>4, PortIs
  <1>6. wire' = After(0)
    <2>1. \A p \in 1 .. Len(After(0)) : After(0)[p] = wire[p]
      <3> TAKE p \in 1 .. Len(After(0))
      <3>1. p \in 1 .. Len(wire) - 0 /\ p + 0 = p
        BY <1>4, <1>5
      <3> QED
        BY <1>5, <3>1
    <2>2. Len(After(0)) = Len(wire)
      BY <1>4, <1>5
    <2>3. After(0) = wire
      BY <1>4, <1>5, <2>1, <2>2, SeqEqual
    <2> QED
      BY <1>1, <2>3
  <1>7. /\ c = FrameLen(k) /\ c \in Nat /\ c >= 7 /\ c <= n /\ Held = taken
        /\ \A i \in 1 .. FrameLen(k) : taken[i] = <<F[i], I[i]>>
        /\ \A i \in 1 .. 4 : F[i] = k /\ I[i] = i
    BY <1>1, <1>3, ParseReads
  <1>8. DroppedFrom(F, I, n, c, G, J)
    BY <1>4, <1>5, <1>7, SkipBytes
  <1>9. WireInv(F, I, n, hit, Handed, split, sent)
    BY DEF ReceiveInv, OnTheWire
  <1>10. k \in Nat /\ Lengths[k] = FrameLen(k) /\ NumberOf(header_frame_buf) = k
    BY <1>3, LengthsAre, NumberOfHeader DEF DataOf
  <1>11. \A j \in Handed : j \in Nat /\ j \in 1 .. sent
    <2>1. \A j \in Handed : j \in 1 .. sent
      BY <1>2 DEF ReceiveTypes
    <2> QED
      BY <2>1
  <1>12. \A p \in c + 1 .. n : F[p] >= 0 => \A j \in Handed : j < F[p]
    <2>1. \A p \in 1 .. n : F[p] >= 0 => \A j \in Handed : j < F[p]
      BY <1>9 DEF WireInv, Earlier
    <2>2. \A p \in c + 1 .. n : p \in 1 .. n
      BY <1>4, <1>7
    <2> QED
      BY <2>1, <2>2
  <1> HIDE DEF n, F, I, G, J, c, then
  <1>13. CASE k \notin DebugPackets /\ Crc16Ok(Packet)
    <2>1. /\ Contents = k /\ k \in 1 .. sent /\ \A j \in Handed : j < k
          /\ \A p \in 1 .. c : F[p] = k /\ I[p] = p
          /\ \A p \in c + 1 .. n : F[p] >= 0 => k < F[p]
      BY <1>1, <1>3, <1>7, <1>13, ParsePublishes DEF n, F, I
    <2>2. published' = Append(published, k)
      BY <1>10, <1>13, <2>1 DEF Parse, Publish
    <2>3. published' \in Seq(Nat) /\ then = Handed \cup {k}
      <3>1. published \in Seq(Nat)
        BY <1>2 DEF ReceiveTypes
      <3> QED
        BY <1>10, <2>2, <3>1, ElementsAppend DEF Handed, then
    <2>4. Begins(F, I, n, k)
      <3>1. 1 \in 1 .. c /\ 1 \in 1 .. n
        BY <1>4, <1>7
      <3>2. F[1] = k /\ I[1] = 1
        BY <2>1, <3>1
      <3> QED
        BY <3>1, <3>2 DEF Begins
    <2>5. \A p \in c + 1 .. n : F[p] >= 0 => \A j \in then : j < F[p]
      BY <1>12, <2>1, <2>3
    <2>6. \A p \in 1 .. c : F[p] \in 1 .. sent /\ I[p] = 1 => Explained(G, J, n - c, hit, then, split, F[p])
      BY <2>1, <2>3 DEF Explained
    <2>7. \A j \in then : j \in Handed \/ Begins(F, I, n, j)
      BY <2>3, <2>4
    <2>8. \A j \in Handed : j \in then
      BY <2>3
    <2>9. OnTheWire'
      <3>1. hit' = hit /\ split' = split /\ sent' = sent /\ Handed' = then
        BY <1>1 DEF then
      <3> QED
        BY <1>1, <1>4, <1>6, <2>5, <2>6, <2>7, <2>8, <3>1, SkipKeeps DEF n, F, I, G, J, c
    <2>10. Handed' \subseteq 1 .. sent
      BY <1>11, <2>1, <2>3 DEF then
    <2>11. ReceiveTypes'
      BY <1>1, <1>2, <2>3, <2>10 DEF ReceiveTypes
    <2> QED
      BY <1>1, <2>9, <2>11 DEF ReceiveInv, SofRead, DataRead
  <1>14. CASE ~(k \notin DebugPackets /\ Crc16Ok(Packet))
    <2>1. published' = published
      BY <1>10, <1>14 DEF Parse
    <2>2. then = Handed
      BY <2>1 DEF Handed, then
    <2>3. ASSUME NEW p \in 1 .. c, F[p] \in 1 .. sent, I[p] = 1
          PROVE  Explained(G, J, n - c, hit, Handed, split, F[p])
      <3>1. CASE F[p] # k
        <4>1. c \in 0 .. n /\ c = FrameLen(k) /\ \A i \in 1 .. 4 : F[i] = k /\ I[i] = i
          BY <1>4, <1>7
        <4>2. \A j \in Handed : j \in Nat
          BY <1>11
        <4> QED
          BY <1>4, <1>8, <1>9, <2>3, <3>1, <4>1, <4>2, BeginsInData
      <3>2. CASE F[p] = k /\ k \notin hit /\ k \notin DebugPackets
        <4>1. ~Crc16Ok(Packet)
          BY <1>14, <3>2
        <4>2. ASSUME NEW i \in 1 .. FrameLen(k)
              PROVE  taken[i] = <<k, i>>
          <5>1. F[1] = k /\ I[1] = 1 /\ 1 \in 1 .. n /\ k >= 0
            BY <1>4, <1>7, <1>10
          <5>2. i - 1 \in 0 .. Lengths[F[1]] - I[1] /\ 1 + (i - 1) = i
            BY <1>7, <1>10, <5>1
          <5>3. F[1 + (i - 1)] = F[1] /\ I[1 + (i - 1)] = I[1] + (i - 1)
            BY <1>9, <3>2, <5>1, <5>2 DEF WireInv, InOrder, Together
          <5>4. F[i] = k /\ I[i] = i
            BY <5>1, <5>2, <5>3
          <5> QED
            BY <1>7, <5>4
        <4> QED
          BY <1>1, <1>2, <1>3, <4>1, <4>2, PassesIfWhole
      <3>3. CASE F[p] \in hit \cup DebugPackets
        BY <3>3 DEF Explained
      <3> QED
        BY <3>1, <3>2, <3>3
    <2>4. OnTheWire'
      <3>1. hit' = hit /\ split' = split /\ sent' = sent /\ Handed' = Handed
        BY <1>1, <2>2 DEF then
      <3> QED
        BY <1>1, <1>4, <1>6, <1>12, <2>3, <3>1, SkipKeeps DEF n, F, I, G, J, c
    <2>5. ReceiveTypes'
      BY <1>1, <1>2, <2>1, <2>2 DEF ReceiveTypes, then
    <2> QED
      BY <1>1, <2>4, <2>5 DEF ReceiveInv, SofRead, DataRead
  <1> QED
    BY <1>13, <1>14

(* The packets of bytes that were read or wait.                            *)
LEMMA NumbersAre ==
  ASSUME ReceiveInv, NEW s \in Seq(Int \X Int),
         NEW a \in Nat, a + Len(s) <= TotalOf(Held, wire),
         \A p \in 1 .. Len(s) : s[p][1] = FramesOf(Held, wire)[a + p]
  PROVE  /\ NumbersIn(s) \subseteq 0 .. sent
         /\ \A p \in 1 .. Len(s) :
              FramesOf(Held, wire)[a + p] \in 1 .. sent => FramesOf(Held, wire)[a + p] \in NumbersIn(s)
  <1> DEFINE n == TotalOf(Held, wire)
             F == FramesOf(Held, wire)
             I == IndexesOf(Held, wire)
  <1>1. n \in Nat /\ sent \in 0 .. NumPackets
    BY HeldAre DEF ReceiveInv, ReceiveTypes
  <1>2. DOMAIN s = 1 .. Len(s) /\ Len(s) \in Nat
    OBVIOUS
  <1>3. WireInv(F, I, n, hit, Handed, split, sent)
    BY DEF ReceiveInv, OnTheWire
  <1> HIDE DEF n, F, I
  <1>4. ASSUME NEW k \in NumbersIn(s)
        PROVE  k \in 0 .. sent
    <2>1. PICK p \in 1 .. Len(s) : k = s[p][1]
      BY <1>2 DEF NumbersIn
    <2>2. a + p \in 1 .. n /\ k = F[a + p]
      BY <1>1, <1>2, <2>1 DEF n, F
    <2>3. k \in Nat
      BY LengthsAre DEF NumbersIn
    <2>4. F[a + p] = -1 \/ F[a + p] \in 0 .. sent
      BY <1>3, <2>2 DEF WireInv, InOrder, BytesAre
    <2> QED
      BY <2>2, <2>3, <2>4
  <1>5. ASSUME NEW p \in 1 .. Len(s), F[a + p] \in 1 .. sent
        PROVE  F[a + p] \in NumbersIn(s)
    <2>1. s[p][1] = F[a + p]
      BY DEF F
    <2>2. F[a + p] \in Numbers
      <3>1. 1 .. sent \subseteq Numbers
        BY <1>1, LengthsAre
      <3> QED
        BY <1>5, <3>1
    <2> QED
      BY <1>2, <2>1, <2>2 DEF NumbersIn
  <1> QED
    BY <1>4, <1>5 DEF F

LEMMA FailKeeps ==
  ASSUME ReceiveInv, Fail
  PROVE  ReceiveInv'
  <1>1. PICK i \in 0 .. Len(wire) :
          /\ wire' = After(i)
          /\ hit' = hit \cup NumbersIn(First(i)) \cup (IF step = "sof" THEN {} ELSE NumbersIn(taken))
    BY DEF Fail
  <1>2. /\ step' = "sof"
        /\ UNCHANGED <<sent, header_frame_buf, data_buf, remain_len, received_len_sum, taken, published, split>>
    BY DEF Fail, bufVars
  <1>3. ReceiveTypes
    BY DEF ReceiveInv
  <1>4. Handed' = Handed
    BY <1>2 DEF Handed
  <1> DEFINE n == TotalOf(Held, wire)
             F == FramesOf(Held, wire)
             I == IndexesOf(Held, wire)
             G == FramesOf(<<>>, After(i))
             J == IndexesOf(<<>>, After(i))
             c == Len(Held) + i
  <1>5. /\ n \in Nat /\ n = Len(Held) + Len(wire) /\ Len(wire) \in Nat /\ Len(Held) \in Nat
        /\ wire \in Seq(Int \X Int) /\ Held \in Seq(Int \X Int)
        /\ \A p \in 1 .. Len(Held) : F[p] = Held[p][1]
        /\ \A p \in 1 .. Len(wire) : F[Len(Held) + p] = wire[p][1]
    BY <1>3, HeldAre
  <1>6. /\ First(i) \in Seq(Int \X Int) /\ Len(First(i)) = i /\ After(i) \in Seq(Int \X Int)
        /\ \A p \in 1 .. i : First(i)[p] = wire[p]
    BY <1>5, PortIs
  <1>7. /\ NumbersIn(First(i)) \subseteq 0 .. sent
        /\ \A p \in 1 .. i : F[Len(Held) + p] \in 1 .. sent => F[Len(Held) + p] \in NumbersIn(First(i))
    <2> DEFINE s == First(i)
               a == Len(Held)
    <2>1. s \in Seq(Int \X Int) /\ a \in Nat
      BY <1>5, <1>6
    <2>2. Len(s) = i /\ a + Len(s) <= n
      BY <1>5, <1>6
    <2>3. \A p \in 1 .. Len(s) : s[p][1] = F[a + p]
      <3> TAKE p \in 1 .. Len(s)
      <3>1. p \in 1 .. i /\ p \in 1 .. Len(wire)
        BY <1>5, <2>2
      <3>2. F[Len(Held) + p] = wire[p][1]
        BY <1>5, <3>1
      <3> QED
        BY <1>6, <3>1, <3>2
    <2> HIDE DEF s, a
    <2>4. /\ NumbersIn(s) \subseteq 0 .. sent
          /\ \A p \in 1 .. Len(s) : F[a + p] \in 1 .. sent => F[a + p] \in NumbersIn(s)
      BY <2>1, <2>2, <2>3, NumbersAre
    <2> QED
      BY <2>2, <2>4 DEF s, a
  <1>8. ASSUME step # "sof"
        PROVE  /\ NumbersIn(taken) \subseteq 0 .. sent /\ Held = taken
               /\ \A p \in 1 .. Len(Held) : F[p] \in 1 .. sent => F[p] \in NumbersIn(taken)
    <2>1. Held = taken
      BY <1>8 DEF Held
    <2> DEFINE s == Held
    <2>2. s \in Seq(Int \X Int) /\ 0 \in Nat /\ 0 + Len(s) <= n
      BY <1>5
    <2>3. \A p \in 1 .. Len(s) : s[p][1] = F[0 + p]
      <3> TAKE p \in 1 .. Len(s)
      <3>1. 0 + p = p /\ p \in 1 .. Len(Held)
        BY <1>5
      <3> QED
        BY <1>5, <3>1
    <2> HIDE DEF s
    <2>4. /\ NumbersIn(s) \subseteq 0 .. sent
          /\ \A p \in 1 .. Len(s) : F[0 + p] \in 1 .. sent => F[0 + p] \in NumbersIn(s)
      BY <2>2, <2>3, NumbersAre
    <2>5. \A p \in 1 .. Len(s) : F[p] \in 1 .. sent => F[p] \in NumbersIn(s)
      <3> TAKE p \in 1 .. Len(s)
      <3>1. 0 + p = p
        OBVIOUS
      <3> QED
        BY <2>4, <3>1
    <2> QED
      BY <2>1, <2>4, <2>5 DEF s
  <1> HIDE DEF n, F, I, G, J, c
  <1>9. hit' \subseteq 0 .. sent /\ \A k \in hit : k \in hit'
    BY <1>1, <1>3, <1>7, <1>8 DEF ReceiveTypes
  <1>10. \A p \in c + 1 .. n : F[p] >= 0 => \A k \in Handed : k < F[p]
    <2>1. \A p \in 1 .. n : F[p] >= 0 => \A k \in Handed : k < F[p]
      BY DEF ReceiveInv, OnTheWire, WireInv, Earlier, n, F, I
    <2>2. \A p \in c + 1 .. n : p \in 1 .. n
      BY <1>5 DEF c
    <2> QED
      BY <2>1, <2>2
  <1>11. ASSUME NEW p \in 1 .. c, F[p] \in 1 .. sent
         PROVE  F[p] \in hit'
    <2>1. CASE p <= Len(Held)
      <3>1. p \in 1 .. Len(Held)
        BY <1>5, <2>1
      <3>2. step # "sof"
        BY <3>1 DEF Held
      <3> QED
        BY <1>1, <1>8, <1>11, <3>1, <3>2
    <2>2. CASE p > Len(Held)
      <3>1. p - Len(Held) \in 1 .. i /\ Len(Held) + (p - Len(Held)) = p
        BY <1>5, <2>2 DEF c
      <3> QED
        BY <1>1, <1>7, <1>11, <3>1
    <2> QED
      BY <1>5, <2>1, <2>2
  <1>12. OnTheWire'
    <2>1. \A p \in 1 .. c : F[p] \in 1 .. sent /\ I[p] = 1 => Explained(G, J, n - c, hit', Handed, split, F[p])
      BY <1>11 DEF Explained
    <2>2. sent' = sent /\ split' = split
      BY <1>2
    <2> QED
      BY <1>1, <1>2, <1>4, <1>9, <1>10, <2>1, <2>2, SkipKeeps DEF n, F, I, G, J, c
  <1>13. ReceiveTypes'
    <2>1. hit' \subseteq 0 .. sent
      BY <1>9
    <2> QED
      BY <1>1, <1>2, <1>3, <1>4, <1>6, <2>1 DEF ReceiveTypes
  <1> QED
    BY <1>2, <1>12, <1>13 DEF ReceiveInv, SofRead, DataRead

LEMMA ReceiveStep == ReceiveInv /\ [ReceiveNext]_receiveVars => ReceiveInv'
  <1> SUFFICES ASSUME ReceiveInv, [ReceiveNext]_receiveVars
               PROVE  ReceiveInv'
    OBVIOUS
  <1>1. CASE BoardSends
    BY <1>1, BoardSendsKeeps
  <1>2. CASE \E i \in 1 .. Len(wire) : Fault(i)
    BY <1>2, FaultKeeps
  <1>3. CASE ReceiveData
    BY <1>3, ReadSofKeeps, ParseKeeps, ReadHeaderKeeps, ReadDataKeeps DEF ReceiveData
  <1>4. CASE Fail
    BY <1>4, FailKeeps
  <1>5. CASE UNCHANGED receiveVars
    <2>1. /\ UNCHANGED <<wire, sent, step, header_frame_buf, data_buf, remain_len, received_len_sum, taken>>
          /\ UNCHANGED <<published, strikes, hit, split>>
      BY <1>5 DEF receiveVars, bufVars, history
    <2>2. Held' = Held /\ Handed' = Handed
      BY <2>1 DEF Held, Handed
    <2>3. ReceiveTypes' /\ SofRead' /\ DataRead'
      BY <2>1, <2>2 DEF ReceiveInv, ReceiveTypes, SofRead, DataRead, DataOf
    <2>4. OnTheWire'
      BY <2>1, <2>2 DEF ReceiveInv, OnTheWire
    <2> QED
      BY <2>3, <2>4 DEF ReceiveInv
  <1> QED
    BY <1>1, <1>2, <1>3, <1>4, <1>5 DEF ReceiveNext

(* What the bytes on their way, those that receiveData holds and the       *)
(* packets published have to do with each other, in every behaviour.       *)
THEOREM ReceiveInvariant == ReceiveSpec => []ReceiveInv
  BY ReceiveBegins, ReceiveStep, PTL DEF ReceiveSpec

LEMMA NothingOnTheWire == ReceiveInv => LostForAReason
  <1> SUFFICES ASSUME ReceiveInv, step = "sof", wire = <<>>, NEW k \in 1 .. sent
               PROVE  Published(k) \/ Excused(k)
    BY DEF LostForAReason
  <1>1. Held = <<>> /\ Len(Held) = 0 /\ Len(wire) = 0
    BY DEF Held
  <1> DEFINE F == FramesOf(Held, wire)
             I == IndexesOf(Held, wire)
             n == TotalOf(Held, wire)
  <1>2. n = 0
    BY <1>1 DEF TotalOf
  <1>3. Begins(F, I, n, k) \/ Explained(F, I, n, hit, Handed, split, k)
    BY DEF ReceiveInv, OnTheWire, WireInv, AllExplained
  <1> HIDE DEF F, I, n
  <1>4. ~Begins(F, I, n, k)
    BY <1>2 DEF Begins
  <1>5. \A j : j \in Handed <=> Published(j)
    BY DEF Handed, ElementsOf, Published
  <1>6. \A m : (\A j \in m .. k - 1 : Missed(F, I, n, Handed, j)) => \A j \in m .. k - 1 : ~Published(j)
    BY <1>5 DEF Missed
  <1>7. \A m \in hit : (m < k - 1 /\ FrameLen(k - 1) + HeaderLen < FrameLen(m)
                        /\ \A j \in m .. k - 1 : Missed(F, I, n, Handed, j)) => Swallows(m, k)
    BY <1>6, Zenon DEF Swallows
  <1>8. Missed(F, I, n, Handed, k - 1) => ~Published(k - 1)
    BY <1>5 DEF Missed
  <1> QED
    BY <1>3, <1>4, <1>5, <1>7, <1>8 DEF Explained, Excused

(* Whatever the packets' lengths, the data that look like a sof, and the   *)
(* bytes and calls that fail.                                              *)
THEOREM ReceiverLosesForAReason == ReceiveSpec => []LostForAReason
  BY ReceiveInvariant, NothingOnTheWire, PTL

LEMMA ReceiverSteps ==
  ASSUME ReceiveInv, [ReceiveNext]_receiveVars
  PROVE  [Stream!Next]_Stream!vars
  <1> SUFFICES ASSUME ReceiveInv, ReceiveNext
               PROVE  Stream!Next \/ UNCHANGED Stream!vars
    BY DEF receiveVars, Stream!vars
  <1>1. CASE BoardSends
    BY <1>1 DEF BoardSends, Stream!Next, Stream!Send
  <1>2. CASE (\E i \in 1 .. Len(wire) : Fault(i)) \/ Fail
    BY <1>2 DEF Fault, Fail, Stream!vars
  <1>3. CASE ReadSof \/ \E n \in 1 .. Len(wire) : ReadHeader(n) \/ ReadData(n)
    BY <1>3 DEF ReadSof, ReadHeader, ReadData, Stream!vars
  <1>4. CASE Parse
    <2>1. step = "parse" /\ sent' = sent
      BY <1>4 DEF Parse
    <2>2. PICK k \in Numbers : DataOf(k)
      BY <2>1 DEF ReceiveInv, DataRead
    <2>3. CASE NumberOf(header_frame_buf) \notin DebugPackets /\ Crc16Ok(Packet)
      <3>1. Contents = k /\ k \in 1 .. sent /\ \A j \in Handed : j < k
        BY <2>1, <2>2, <2>3, ParsePublishes
      <3>2. published' = Append(published, k)
        BY <1>4, <2>3, <3>1 DEF Parse, Publish
      <3>3. \A i \in DOMAIN published : published[i] < k
        BY <3>1 DEF Handed, ElementsOf
      <3>4. Stream!Publish(k)
        BY <2>1, <3>1, <3>2, <3>3 DEF Stream!Publish
      <3> QED
        BY <3>1, <3>4 DEF Stream!Next
    <2>4. CASE ~(NumberOf(header_frame_buf) \notin DebugPackets /\ Crc16Ok(Packet))
      BY <1>4, <2>1, <2>4 DEF Parse, Stream!vars
    <2> QED
      BY <2>3, <2>4
  <1> QED
    BY <1>1, <1>2, <1>3, <1>4 DEF ReceiveNext, ReceiveData

(***************************************************************************)
(* What is published was sent, and comes once and in order, whatever is    *)
(* lost or changed on the way.                                             *)
(***************************************************************************)
THEOREM ReceiverIsStream == ReceiveSpec => ImplementsStream
  <1>1. ReceiveInit => Stream!Init
    BY DEF ReceiveInit, Stream!Init
  <1>2. ReceiveInv /\ [ReceiveNext]_receiveVars => [Stream!Next]_Stream!vars
    BY ReceiverSteps
  <1> QED
    BY <1>1, <1>2, ReceiveInvariant, PTL DEF ReceiveSpec, ImplementsStream, Stream!Spec
=============================================================================
