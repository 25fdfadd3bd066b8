------------------------------ MODULE BoundedFifo ------------------------------
(***************************************************************************)
(* What a packet queue promises to the thread that fills it and the thread *)
(* that empties it: every packet taken in is handed out once, whole and in *)
(* order, and no more than size packets wait.                              *)
(***************************************************************************)
EXTENDS Naturals, Sequences

CONSTANTS Packets, size, Nothing

VARIABLES
  queue,      \* the packets that wait
  delivered   \* the packet handed out last

vars == <<queue, delivered>>

Init == queue = <<>> /\ delivered = Nothing

Put(p) ==
  /\ Len(queue) < size
  /\ queue' = Append(queue, p)
  /\ UNCHANGED delivered

Get ==
  /\ queue # <<>>
  /\ delivered' = Head(queue)
  /\ queue' = Tail(queue)

Next == Get \/ \E p \in Packets : Put(p)

Spec == Init /\ [][Next]_vars
==============================================================================
