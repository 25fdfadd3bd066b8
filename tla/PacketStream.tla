----------------------------- MODULE PacketStream -----------------------------
(***************************************************************************)
(* What a receiver of packets promises, whatever happens to the bytes in   *)
(* between: a packet it hands on is one that was sent, handed on once and  *)
(* in the order of sending.  Packets may be lost.                          *)
(***************************************************************************)
EXTENDS Naturals, Sequences

VARIABLES
  sent,       \* how many packets have been sent: they are 1 .. sent
  published   \* the packets handed on so far, in order

vars == <<sent, published>>

Init == sent = 0 /\ published = <<>>

Send ==
  /\ sent' = sent + 1
  /\ UNCHANGED published

Publish(k) ==
  /\ k \in 1 .. sent
  /\ \A i \in DOMAIN published : published[i] < k
  /\ published' = Append(published, k)
  /\ UNCHANGED sent

Next == Send \/ \E k \in 1 .. sent : Publish(k)

Spec == Init /\ [][Next]_vars
==============================================================================
