--------------------------- MODULE ClientAssembler ---------------------------
(***************************************************************************)
(* process_data of the game client: what a receive of the frame brought is *)
(* gathered into packet_buffer, across receives, until a packet is whole.  *)
(* (The load tester's Worker_Thread has the same loop over the fields of   *)
(* its CLIENT and the variables psize and pr_size.)                        *)
(***************************************************************************)
EXTENDS Integers, Sequences

CONSTANTS Streams, StreamLen, MaxPacket,
    BufSize,    \* BUF_SIZE, the length of net_buf and of packet_buffer
    CharMax     \* a length byte beyond it is negative where it is read

VARIABLES stream, arrived,
    ptr,                \* place in the stream of the next byte of net_buf
    ioByte,             \* io_byte: how many bytes net_buf still holds
    inPacketSize,       \* in_packet_size, 0 if no packet has begun
    savedPacketSize,    \* saved_packet_size
    packetBuffer,       \* packet_buffer: the place in the stream of each byte
    packet              \* what ProcessPacket was given last

clientVars ==
    <<stream, arrived, ptr, ioByte, inPacketSize, savedPacketSize,
      packetBuffer, packet>>

Junk == -1

PS == INSTANCE PacketStream WITH done <- arrived - (ioByte + savedPacketSize)

\* The server sends whole packets.
ASSUME StreamAssumption == PS!WellFramed

\* 200 bytes and 127; the longest packet of protocol.h has fewer than 50.
ASSUME PacketFitsAssumption ==
    BufSize \in Nat /\ CharMax \in Nat /\ MaxPacket <= BufSize /\ MaxPacket <= CharMax

ClientInit ==
    /\ stream \in Streams
    /\ arrived = 0
    /\ ptr = 0
    /\ ioByte = 0
    /\ inPacketSize = 0
    /\ savedPacketSize = 0
    /\ packetBuffer = [j \in 0 .. BufSize - 1 |-> Junk]
    /\ packet = <<>>

\* client_main: the receive of a frame brings n bytes.
Receive(n) ==
    /\ ioByte = 0
    /\ n <= BufSize
    /\ arrived + n <= StreamLen
    /\ arrived' = arrived + n
    /\ ptr' = arrived
    /\ ioByte' = n
    /\ UNCHANGED <<stream, inPacketSize, savedPacketSize, packetBuffer, packet>>

\* The length of the packet that is being gathered.
Size == IF inPacketSize = 0 THEN stream[ptr] ELSE inPacketSize

\* memcpy of n bytes behind what is saved.
Copied(n) ==
    [j \in DOMAIN packetBuffer |->
        IF j \in savedPacketSize .. savedPacketSize + n - 1
            THEN ptr + (j - savedPacketSize) ELSE packetBuffer[j]]

\* Bug variant: saved_packet_size is not set back for the next packet.
CompletePacketStale ==
    LET rest == Size - savedPacketSize IN
    /\ ioByte # 0
    /\ ioByte + savedPacketSize >= Size
    /\ packetBuffer' = Copied(rest)
    /\ packet' = [k \in 1 .. Size |-> packetBuffer'[k - 1]]
    /\ ptr' = ptr + rest
    /\ ioByte' = ioByte - rest
    /\ inPacketSize' = 0
    /\ UNCHANGED <<stream, arrived, savedPacketSize>>

\* Bug variant: the bytes saved before are not counted as taken already.
CompletePacketWhole ==
    /\ ioByte # 0
    /\ ioByte + savedPacketSize >= Size
    /\ packetBuffer' = Copied(Size)
    /\ packet' = [k \in 1 .. Size |-> packetBuffer'[k - 1]]
    /\ ptr' = ptr + Size
    /\ ioByte' = IF Size > ioByte THEN 0 ELSE ioByte - Size
    /\ inPacketSize' = 0
    /\ savedPacketSize' = 0
    /\ UNCHANGED <<stream, arrived>>

\* The bytes complete the packet; ProcessPacket is given packet_buffer.
CompletePacket ==
    LET rest == Size - savedPacketSize IN
    /\ ioByte # 0
    /\ ioByte + savedPacketSize >= Size
    /\ packetBuffer' = Copied(rest)
    /\ packet' = [k \in 1 .. Size |-> packetBuffer'[k - 1]]
    /\ ptr' = ptr + rest
    /\ ioByte' = ioByte - rest
    /\ inPacketSize' = 0
    /\ savedPacketSize' = 0
    /\ UNCHANGED <<stream, arrived>>

\* Bug variant: a second part of a packet replaces the first one's count.
SavePartAnew ==
    /\ ioByte # 0
    /\ ioByte + savedPacketSize < Size
    /\ packetBuffer' = Copied(ioByte)
    /\ savedPacketSize' = ioByte
    /\ inPacketSize' = Size
    /\ ioByte' = 0
    /\ UNCHANGED <<stream, arrived, ptr, packet>>

\* The packet goes on in the next receive; its bytes are kept.
SavePart ==
    /\ ioByte # 0
    /\ ioByte + savedPacketSize < Size
    /\ packetBuffer' = Copied(ioByte)
    /\ savedPacketSize' = savedPacketSize + ioByte
    /\ inPacketSize' = Size
    /\ ioByte' = 0
    /\ UNCHANGED <<stream, arrived, ptr, packet>>

ClientNext == CompletePacket \/ SavePart \/ \E n \in 1 .. StreamLen : Receive(n)

ClientSpec == ClientInit /\ [][ClientNext]_clientVars

\* process_data runs to its end.
FairSpec == ClientSpec /\ WF_clientVars(CompletePacket \/ SavePart)

-----------------------------------------------------------------------------
(* Properties *)

\* The counts of process_data stay within the two buffers.
TypeOK ==
    /\ stream \in Streams
    /\ arrived \in 0 .. StreamLen
    /\ ptr \in 0 .. StreamLen
    /\ ioByte \in 0 .. BufSize
    /\ inPacketSize \in 0 .. MaxPacket
    /\ savedPacketSize \in 0 .. BufSize
    /\ packetBuffer \in [0 .. BufSize - 1 -> {Junk} \cup 0 .. StreamLen - 1]

\* The two static variables describe one packet between receives: they are
\* both zero, or bytes are saved of a packet that has more to come.
\* (in_packet_size - saved_packet_size is unsigned: below zero it would be
\* huge, and so would be the memcpy.)
StaticsAgree ==
    \/ inPacketSize = 0 /\ savedPacketSize = 0
    \/ 0 < savedPacketSize /\ savedPacketSize < inPacketSize

\* The packets go to ProcessPacket whole, once, in order, and every packet
\* that has arrived completely gets there, wherever the stream is cut.
HandsEveryPacket == PS!PSFairSpec
=============================================================================
