------------------------------ MODULE Assembler ------------------------------
(***************************************************************************)
(* Server::Do_Assemble_packet: the server reads the stream of a client     *)
(* into the buffer of its Player, hands the packets on from where they     *)
(* lie, moves the rest to the front when the buffer runs out, and posts    *)
(* the next receive behind it.  One handler at a time works on a Player.   *)
(***************************************************************************)
EXTENDS Integers, Sequences

CONSTANTS Streams, StreamLen, MaxPacket,
    MaxBuffer,  \* MAX_BUFFER, the length of IObuf
    MinBuffer   \* MIN_BUFFER, the least room a receive is posted with

\* 1024 and 256 bytes, and a length byte that says 255 at most.
ASSUME BufferAssumption ==
    /\ MaxBuffer \in Nat
    /\ MinBuffer \in Nat \ {0}
    /\ MinBuffer <= MaxBuffer
    /\ 2 * MaxPacket <= MaxBuffer - MinBuffer + 2

VARIABLES stream, arrived,
    IObuf,          \* player_exover.IObuf: the place in the stream of each byte
    packetStart,    \* Player::packet_start, as an offset into IObuf
    recvStart,      \* Player::recv_start, as an offset into IObuf
    recvLen,        \* wsabuf.len of the posted receive
    nextRecv,       \* next_recv_ptr
    packetSize,     \* packet_size
    packet,         \* what Process__Packet was given last
    pc              \* "receive": the receive is posted; "loop", "post": in the
                    \* handler of its completion

vars == <<stream, arrived, IObuf, packetStart, recvStart, recvLen, nextRecv,
          packetSize, packet, pc>>

\* No byte of the stream lies there.
Junk == -1

Left == nextRecv - packetStart

PS == INSTANCE PacketStream WITH done <- arrived - Left

\* The peer sends whole packets, none longer than MaxPacket.
ASSUME StreamAssumption == PS!WellFramed

\* The byte itself.
Value(place) == IF place = Junk THEN 0 ELSE stream[place]

Init ==
    /\ stream \in Streams
    /\ arrived = 0
    /\ IObuf = [j \in 0 .. MaxBuffer - 1 |-> Junk]
    /\ packetStart = 0
    /\ recvStart = 0
    /\ recvLen = MaxBuffer
    /\ nextRecv = 0
    /\ packetSize = 0
    /\ packet = <<>>
    /\ pc = "receive"

\* The receive completes with n bytes; the handler reads the length byte of
\* the packet that starts the unprocessed data.
Receive(n) ==
    /\ pc = "receive"
    /\ n <= recvLen
    /\ arrived + n <= StreamLen
    /\ arrived' = arrived + n
    /\ IObuf' = [j \in DOMAIN IObuf |->
                    IF j \in recvStart .. recvStart + n - 1
                        THEN arrived + (j - recvStart) ELSE IObuf[j]]
    /\ nextRecv' = recvStart + n
    /\ packetSize' = Value(IObuf'[packetStart])
    /\ pc' = "loop"
    /\ UNCHANGED <<stream, packetStart, recvStart, recvLen, packet>>

\* Bug variant: the next length byte is read even where no byte is left.
ProcessPacketBlind ==
    /\ pc = "loop"
    /\ packetSize <= Left
    /\ packet' = [k \in 1 .. packetSize |-> IObuf[packetStart + k - 1]]
    /\ packetStart' = packetStart + packetSize
    /\ packetSize' = Value(IObuf[packetStart'])
    /\ UNCHANGED <<stream, arrived, IObuf, recvStart, recvLen, nextRecv, pc>>

\* Process__Packet is given the packet; the next one starts behind it.
ProcessPacket ==
    /\ pc = "loop"
    /\ packetSize <= Left
    /\ packet' = [k \in 1 .. packetSize |-> IObuf[packetStart + k - 1]]
    /\ packetStart' = packetStart + packetSize
    /\ IF packetStart' < nextRecv
           THEN packetSize' = Value(IObuf[packetStart']) /\ pc' = "loop"
           ELSE pc' = "post" /\ UNCHANGED packetSize
    /\ UNCHANGED <<stream, arrived, IObuf, recvStart, recvLen, nextRecv>>

\* The loop is over.
Emptied == pc = "post" \/ (pc = "loop" /\ packetSize > Left)

\* Bug variant: the rest is moved after every receive.
CrowdedAlways == TRUE

\* Too little room behind the data for the next receive.
Crowded == MaxBuffer - nextRecv < MinBuffer

\* Bug variant: the data is moved, next_recv_ptr is not set back with it.
PostReceiveBehind ==
    /\ Emptied
    /\ IF Crowded
           THEN /\ IObuf' = [j \in DOMAIN IObuf |->
                        IF j < Left THEN IObuf[packetStart + j] ELSE IObuf[j]]
                /\ packetStart' = 0
                /\ UNCHANGED nextRecv
           ELSE UNCHANGED <<IObuf, packetStart, nextRecv>>
    /\ recvStart' = nextRecv'
    /\ recvLen' = MaxBuffer - nextRecv'
    /\ pc' = "receive"
    /\ UNCHANGED <<stream, arrived, packetSize, packet>>

\* Bug variant: the rest is moved to the front only when the buffer is full.
PostReceiveFull ==
    /\ Emptied
    /\ IF MaxBuffer - nextRecv < 0
           THEN /\ IObuf' = [j \in DOMAIN IObuf |->
                        IF j < Left THEN IObuf[packetStart + j] ELSE IObuf[j]]
                /\ packetStart' = 0
                /\ nextRecv' = Left
           ELSE UNCHANGED <<IObuf, packetStart, nextRecv>>
    /\ recvStart' = nextRecv'
    /\ recvLen' = MaxBuffer - nextRecv'
    /\ pc' = "receive"
    /\ UNCHANGED <<stream, arrived, packetSize, packet>>

\* Bug variant: the receive is posted with the length of the whole buffer.
PostReceiveWhole ==
    /\ Emptied
    /\ recvStart' = nextRecv
    /\ recvLen' = MaxBuffer
    /\ pc' = "receive"
    /\ UNCHANGED <<stream, arrived, IObuf, packetStart, nextRecv, packetSize, packet>>

\* The rest is moved to the front if need be, and the next receive is posted.
PostReceive ==
    /\ Emptied
    /\ IF Crowded
           THEN /\ IObuf' = [j \in DOMAIN IObuf |->
                        IF j < Left THEN IObuf[packetStart + j] ELSE IObuf[j]]
                /\ packetStart' = 0
                /\ nextRecv' = Left
           ELSE UNCHANGED <<IObuf, packetStart, nextRecv>>
    /\ recvStart' = nextRecv'
    /\ recvLen' = MaxBuffer - nextRecv'
    /\ pc' = "receive"
    /\ UNCHANGED <<stream, arrived, packetSize, packet>>

Next == ProcessPacket \/ PostReceive \/ \E n \in 1 .. StreamLen : Receive(n)

Spec == Init /\ [][Next]_vars

\* The handler runs to its end.
FairSpec == Spec /\ WF_vars(ProcessPacket \/ PostReceive)

-----------------------------------------------------------------------------
(* Properties *)

\* The pointers of Do_Assemble_packet stay inside IObuf.
TypeOK ==
    /\ stream \in Streams
    /\ arrived \in 0 .. StreamLen
    /\ IObuf \in [0 .. MaxBuffer - 1 -> {Junk} \cup 0 .. StreamLen - 1]
    /\ packetStart \in 0 .. MaxBuffer
    /\ recvStart \in 0 .. MaxBuffer
    /\ recvLen \in 0 .. MaxBuffer
    /\ nextRecv \in 0 .. MaxBuffer
    /\ packetSize \in 0 .. MaxPacket
    /\ pc \in {"receive", "loop", "post"}

\* A receive is never posted with a zero length, whose completion with zero
\* bytes Process_Receive would take for the end of the connection: it always
\* has MIN_BUFFER bytes of room, all inside the buffer.
ReceiveHasRoom ==
    pc = "receive" => recvLen >= MinBuffer /\ recvStart + recvLen = MaxBuffer

\* memcpy moves the rest to the front; source and target never overlap, for
\* which memcpy would be undefined.
MoveIsDisjoint == Emptied /\ Crowded => Left <= packetStart

\* Where the handler looks for a length byte there is one: a received byte
\* that starts a packet, so packet_size is never zero and the loop ends.
LengthIsRead ==
    pc = "loop" => packetStart < nextRecv /\ IObuf[packetStart] # Junk /\ packetSize > 0

\* The packets go to Process__Packet whole, once, in order, and every packet
\* that has arrived completely gets there, wherever the stream is cut.
HandsEveryPacket == PS!PSFairSpec
=============================================================================
