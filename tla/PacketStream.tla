---------------------------- MODULE PacketStream ----------------------------
(***************************************************************************)
(* What the reassembly of a byte stream promises: packets arrive as bytes  *)
(* in pieces of any length, and each packet is handed on whole, once and   *)
(* in order, as soon as its last byte is there.  The first byte of a       *)
(* packet is its length.                                                   *)
(*                                                                         *)
(* A byte received is represented by its place in the stream, so that the  *)
(* packet handed on shows where each of its bytes comes from.              *)
(***************************************************************************)
EXTENDS Naturals, Sequences

CONSTANTS
    Streams,    \* the byte streams a peer may send
    StreamLen,  \* their length; they end at a packet boundary
    MaxPacket   \* the longest packet, at most what a byte can say

\* S holds every place of stream b at which a packet starts, and its end.
FramedBy(b, S) ==
    /\ 0 \in S
    /\ \A p \in S : p < StreamLen => b[p] \in 1 .. MaxPacket /\ p + b[p] \in S

\* What is assumed of the peer: it sends whole packets.
WellFramed ==
    /\ StreamLen \in Nat
    /\ MaxPacket \in Nat
    /\ \A b \in Streams :
        /\ b \in [0 .. StreamLen - 1 -> Nat]
        /\ \E S \in SUBSET (0 .. StreamLen) : FramedBy(b, S)

VARIABLES
    stream,     \* what the peer sends
    arrived,    \* bytes received so far
    done,       \* bytes of packets handed on so far
    packet      \* the packet handed on last, the places of its bytes

psVars == <<stream, arrived, done, packet>>

PSInit ==
    /\ stream \in Streams
    /\ arrived = 0
    /\ done = 0
    /\ packet = <<>>

\* A piece of n bytes arrives.
Arrive(n) ==
    /\ arrived + n <= StreamLen
    /\ arrived' = arrived + n
    /\ UNCHANGED <<stream, done, packet>>

Complete == done < arrived /\ done + stream[done] <= arrived

\* The next packet is handed on.
Hand ==
    /\ Complete
    /\ packet' = [k \in 1 .. stream[done] |-> done + k - 1]
    /\ done' = done + stream[done]
    /\ UNCHANGED <<stream, arrived>>

PSNext == Hand \/ \E n \in 1 .. StreamLen : Arrive(n)

PSSpec == PSInit /\ [][PSNext]_psVars

\* A complete packet does not wait for ever.
PSFairSpec == PSSpec /\ WF_psVars(Hand)
=============================================================================
