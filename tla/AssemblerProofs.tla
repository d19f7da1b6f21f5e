--------------------------- MODULE AssemblerProofs ---------------------------
(* The buffer arithmetic of Do_Assemble_packet and the packets it hands on,  *)
(* for every stream, buffer size and packet length that satisfy the          *)
(* assumptions.                                                              *)
EXTENDS Assembler, TLAPS

\* The places of stream b at which its packets start.
StartsOf(b) == CHOOSE S \in SUBSET (0 .. StreamLen) : PS!FramedBy(b, S)

\* Bytes of packets handed on so far.
Done == arrived - Left

\* The unprocessed bytes lie in order between packet_start and next_recv_ptr
\* and start with a packet.
Content ==
    /\ packetStart <= nextRecv
    /\ Done \in StartsOf(stream)
    /\ \A j \in packetStart .. nextRecv - 1 : IObuf[j] = Done + (j - packetStart)

\* What holds at each place of the handler.
Places ==
    /\ pc = "receive" =>
        /\ recvStart = nextRecv
        /\ recvLen = MaxBuffer - nextRecv
        /\ recvLen >= MinBuffer
        /\ Left > 0 => Left < stream[Done]
    /\ pc = "loop" => Left > 0 /\ packetSize = stream[Done]
    /\ pc = "post" => Left = 0

IInv == TypeOK /\ Content /\ Places

\* The packets of a stream, one after the other.
LEMMA Framing ==
    ASSUME NEW b \in Streams
    PROVE  /\ 0 \in StartsOf(b)
           /\ StartsOf(b) \subseteq 0 .. StreamLen
           /\ \A p \in StartsOf(b) :
                p < StreamLen => b[p] \in 1 .. MaxPacket /\ p + b[p] \in StartsOf(b)
<1>1. PICK S \in SUBSET (0 .. StreamLen) : PS!FramedBy(b, S)
    BY StreamAssumption DEF PS!WellFramed
<1>2. StartsOf(b) \in SUBSET (0 .. StreamLen) /\ PS!FramedBy(b, StartsOf(b))
    BY <1>1 DEF StartsOf
<1> QED
    BY <1>2 DEF PS!FramedBy

-----------------------------------------------------------------------------
(* The initial state and each step *)

\* Nothing has been received and the receive spans the whole buffer.
LEMMA InitIInv == Init => IInv
<1> SUFFICES ASSUME Init PROVE IInv
    OBVIOUS
<1>1. stream \in Streams /\ 0 \in StartsOf(stream)
    BY Framing DEF Init
<1>2. TypeOK
    BY StreamAssumption, BufferAssumption DEF Init, TypeOK, Junk, PS!WellFramed
<1>3. Left = 0 /\ Done = 0
    BY DEF Init, Left, Done
<1>4. Content
    BY <1>1, <1>3 DEF Init, Content
<1>5. Places
    BY <1>3, BufferAssumption DEF Init, Places
<1> QED
    BY <1>2, <1>4, <1>5 DEF IInv

\* What the invariant says in terms of numbers, with the packet that starts
\* the unprocessed bytes.
Numbers ==
    /\ StreamLen \in Nat /\ MaxPacket \in Nat
    /\ stream \in Streams /\ stream \in [0 .. StreamLen - 1 -> Nat]
    /\ arrived \in 0 .. StreamLen
    /\ packetStart \in 0 .. MaxBuffer
    /\ nextRecv \in 0 .. MaxBuffer
    /\ packetStart <= nextRecv
    /\ Left \in Nat /\ Left = nextRecv - packetStart
    /\ Done \in 0 .. StreamLen /\ Done \in StartsOf(stream)
    /\ Done + Left = arrived
    /\ Done < StreamLen => /\ stream[Done] \in 1 .. MaxPacket
                           /\ Done + stream[Done] \in StartsOf(stream)

\* They follow from the invariant.
LEMMA Facts == IInv => Numbers
<1> SUFFICES ASSUME IInv PROVE Numbers
    OBVIOUS
<1>1. TypeOK /\ Content
    BY DEF IInv
<1>2. StreamLen \in Nat /\ MaxPacket \in Nat
      /\ stream \in Streams /\ stream \in [0 .. StreamLen - 1 -> Nat]
    BY <1>1, StreamAssumption DEF TypeOK, PS!WellFramed
<1>3. /\ arrived \in 0 .. StreamLen /\ packetStart \in 0 .. MaxBuffer
      /\ nextRecv \in 0 .. MaxBuffer /\ packetStart <= nextRecv
    BY <1>1 DEF TypeOK, Content
<1>4. Left \in Nat /\ Left = nextRecv - packetStart /\ Done + Left = arrived
    BY <1>2, <1>3, BufferAssumption DEF Left, Done
<1>5. Done \in StartsOf(stream)
    BY <1>1 DEF Content
<1> QED
    BY <1>2, <1>3, <1>4, <1>5, Framing DEF Numbers

\* The received bytes go behind the ones that are there already.
LEMMA ReceiveIInv ==
    ASSUME IInv, NEW n \in 1 .. StreamLen, Receive(n)
    PROVE  IInv'
<1>. Numbers
    BY Facts
<1> USE DEF Numbers
<1>1. /\ recvStart = nextRecv /\ recvLen = MaxBuffer - nextRecv
      /\ n <= recvLen /\ arrived + n <= StreamLen
      /\ arrived' = arrived + n /\ nextRecv' = nextRecv + n
      /\ packetStart' = packetStart /\ stream' = stream
    BY DEF Receive, IInv, Places
<1>2. Left' = Left + n /\ Done' = Done /\ n \in Nat /\ n > 0
    BY <1>1, BufferAssumption DEF Left, Done
<1>3. IObuf \in [0 .. MaxBuffer - 1 -> {Junk} \cup 0 .. StreamLen - 1]
    BY DEF IInv, TypeOK
<1>4. \A j \in packetStart .. nextRecv' - 1 : IObuf'[j] = Done + (j - packetStart)
    <2> SUFFICES ASSUME NEW j \in packetStart .. nextRecv' - 1
                 PROVE  IObuf'[j] = Done + (j - packetStart)
        OBVIOUS
    <2>1. j \in 0 .. MaxBuffer - 1 /\ j \in Nat
        BY <1>1, <1>2, BufferAssumption
    <2>2. IObuf'[j] = IF j \in recvStart .. recvStart + n - 1
                         THEN arrived + (j - recvStart) ELSE IObuf[j]
        BY <1>3, <2>1 DEF Receive
    <2>3. CASE j < nextRecv
        <3>1. IObuf'[j] = IObuf[j]
            BY <1>1, <2>1, <2>2, <2>3
        <3>2. j \in packetStart .. nextRecv - 1
            BY <2>1, <2>3
        <3> QED
            BY <3>1, <3>2 DEF IInv, Content
    <2>4. CASE j >= nextRecv
        BY <1>1, <1>2, <2>1, <2>2, <2>4
    <2> QED
        BY <2>1, <2>3, <2>4
<1>5. IObuf'[packetStart] = Done /\ Done < StreamLen
    <2>1. packetStart \in packetStart .. nextRecv' - 1
        BY <1>1, <1>2
    <2> QED
        BY <1>1, <1>2, <1>4, <2>1
<1>6. packetSize' = stream[Done] /\ packetSize' \in 1 .. MaxPacket
    <2>1. Value(Done) = stream[Done]
        BY DEF Value, Junk
    <2>2. packetSize' = Value(IObuf'[packetStart])
        BY <1>1 DEF Receive
    <2> QED
        BY <1>5, <2>1, <2>2
<1>7. IObuf' \in [0 .. MaxBuffer - 1 -> {Junk} \cup 0 .. StreamLen - 1]
    <2>1. ASSUME NEW j \in recvStart .. recvStart + n - 1
          PROVE  arrived + (j - recvStart) \in 0 .. StreamLen - 1
        BY <1>1, <1>2, <2>1
    <2> QED
        BY <1>3, <2>1 DEF Receive
<1>8. TypeOK'
    BY <1>1, <1>2, <1>6, <1>7, BufferAssumption DEF Receive, TypeOK, IInv
<1>9. Content'
    BY <1>1, <1>2, <1>4 DEF Content
<1>10. Places'
    BY <1>1, <1>2, <1>6 DEF Receive, Places
<1> QED
    BY <1>8, <1>9, <1>10 DEF IInv

\* A packet handed on makes way for the next one.
LEMMA ProcessPacketIInv ==
    ASSUME IInv, ProcessPacket
    PROVE  IInv'
<1>1. Numbers
    BY Facts
<1>2. /\ Left > 0 /\ packetSize = stream[Done] /\ packetSize <= Left
      /\ packetStart' = packetStart + packetSize
      /\ UNCHANGED <<stream, arrived, IObuf, recvStart, recvLen, nextRecv>>
    BY DEF ProcessPacket, IInv, Places
<1>3. Done < StreamLen
    BY <1>1, <1>2 DEF Numbers
<1>4. /\ packetStart \in Nat /\ packetSize \in Nat /\ packetSize \in 1 .. MaxPacket
      /\ nextRecv \in Nat /\ nextRecv <= MaxBuffer /\ MaxBuffer \in Nat
      /\ Left \in Nat /\ packetStart + Left = nextRecv
      /\ Done \in Nat /\ Done + Left = arrived /\ arrived <= StreamLen
      /\ StreamLen \in Nat
    BY <1>1, <1>2, <1>3, BufferAssumption DEF Numbers
<1>5. packetStart' \in Nat /\ Left' \in Nat /\ Done' \in Nat
    <2>1. Left' = nextRecv - (packetStart + packetSize)
        BY <1>2 DEF Left
    <2>2. Done' = arrived - (nextRecv - (packetStart + packetSize))
        BY <1>2 DEF Done, Left
    <2> QED
        BY <1>2, <1>4, <2>1, <2>2
<1>6. Done' = Done + packetSize
    <2>1. Done' = arrived - (nextRecv - (packetStart + packetSize))
        BY <1>2 DEF Done, Left
    <2> QED
        BY <1>2, <1>4, <2>1
<1>7. /\ packetStart' \in 0 .. MaxBuffer /\ packetStart' <= nextRecv
      /\ packetStart' < nextRecv => Left' > 0 /\ Done' < StreamLen
      /\ packetStart' >= nextRecv => Left' = 0
    <2>1. Left' = nextRecv - (packetStart + packetSize)
        BY <1>2 DEF Left
    <2> QED
        BY <1>2, <1>4, <1>6, <2>1
<1>8. \A j \in packetStart' .. nextRecv - 1 : IObuf[j] = Done' + (j - packetStart')
    <2> SUFFICES ASSUME NEW j \in packetStart' .. nextRecv - 1
                 PROVE  IObuf[j] = Done' + (j - packetStart')
        OBVIOUS
    <2>1. j \in packetStart .. nextRecv - 1 /\ j \in Int
        BY <1>2, <1>4, <1>7
    <2>2. IObuf[j] = Done + (j - packetStart)
        BY <2>1 DEF IInv, Content
    <2>3. Done + (j - packetStart) = Done' + (j - packetStart')
        BY <1>2, <1>4, <1>6, <2>1
    <2> QED
        BY <2>2, <2>3
<1>9. Content'
    <2>1. Done' \in StartsOf(stream)
        BY <1>1, <1>2, <1>3, <1>6 DEF Numbers
    <2> QED
        BY <1>2, <1>7, <1>8, <2>1 DEF Content
<1>10. CASE packetStart' < nextRecv
    <2>1. packetSize' = Value(IObuf[packetStart']) /\ pc' = "loop"
        BY <1>10 DEF ProcessPacket
    <2>2. IObuf[packetStart'] = Done' + (packetStart' - packetStart')
        <3>1. packetStart' \in packetStart' .. nextRecv - 1
            BY <1>4, <1>7, <1>10
        <3> QED
            BY <1>8, <3>1
    <2>3. IObuf[packetStart'] = Done'
        BY <1>6, <1>7, <2>2
    <2>4. Left' > 0 /\ Done' < StreamLen
        BY <1>7, <1>10
    <2>5. packetSize' = stream[Done'] /\ packetSize' \in 1 .. MaxPacket
        <3>1. packetSize' = Value(Done')
            BY <2>1, <2>3
        <3>2. Value(Done') = stream[Done']
            BY <1>5 DEF Value, Junk
        <3>3. Done' \in StartsOf(stream) /\ stream \in Streams
            BY <1>1, <1>2, <1>3, <1>6 DEF Numbers
        <3> QED
            BY <2>4, <3>1, <3>2, <3>3, Framing
    <2>6. TypeOK'
        <3>1. packetSize' \in 0 .. MaxPacket
            BY <1>1, <2>5 DEF Numbers
        <3> QED
            BY <1>2, <1>7, <2>1, <3>1 DEF IInv, TypeOK
    <2>7. Places'
        BY <1>2, <2>1, <2>4, <2>5 DEF Places
    <2> QED
        BY <1>9, <2>6, <2>7 DEF IInv
<1>11. CASE ~(packetStart' < nextRecv)
    <2>1. pc' = "post" /\ packetSize' = packetSize
        BY <1>11 DEF ProcessPacket
    <2>2. TypeOK'
        BY <1>2, <1>7, <2>1 DEF IInv, TypeOK
    <2>3. Left' = 0
        BY <1>4, <1>5, <1>7, <1>11
    <2>4. Places'
        BY <2>1, <2>3 DEF Places
    <2> QED
        BY <1>9, <2>2, <2>4 DEF IInv
<1> QED
    BY <1>10, <1>11

\* The rest of a packet that is not complete is shorter than a packet.
LEMMA RestIsShort ==
    ASSUME IInv, Emptied
    PROVE  /\ Left > 0 => Left < stream[Done] /\ stream[Done] \in 1 .. MaxPacket
           /\ MaxPacket > 0 => Left <= MaxPacket - 1
           /\ MaxPacket = 0 => Left = 0
<1>. Numbers
    BY Facts
<1> USE DEF Numbers
<1>1. CASE pc = "post"
    BY <1>1 DEF IInv, Places
<1>2. CASE pc = "loop" /\ packetSize > Left
    <2>1. Left > 0 /\ packetSize = stream[Done] /\ packetSize > Left
        BY <1>2 DEF IInv, Places
    <2>2. Done < StreamLen
        BY <2>1
    <2> QED
        BY <2>1, <2>2
<1> QED
    BY <1>1, <1>2 DEF Emptied

\* The buffer has room for the rest and for the next receive.
LEMMA PostReceiveIInv ==
    ASSUME IInv, PostReceive
    PROVE  IInv'
<1>. Numbers
    BY Facts
<1> USE DEF Numbers
<1>0. /\ Emptied /\ recvStart' = nextRecv' /\ recvLen' = MaxBuffer - nextRecv'
      /\ pc' = "receive" /\ UNCHANGED <<stream, arrived, packetSize, packet>>
    BY DEF PostReceive
<1>1. /\ Left > 0 => Left < stream[Done]
      /\ MaxBuffer - Left >= MinBuffer
    BY <1>0, RestIsShort, BufferAssumption
<1>2. CASE Crowded
    <2>1. /\ IObuf' = [j \in DOMAIN IObuf |->
                        IF j < Left THEN IObuf[packetStart + j] ELSE IObuf[j]]
          /\ packetStart' = 0 /\ nextRecv' = Left
        BY <1>2 DEF PostReceive
    <2>2. Left' = Left /\ Done' = Done
        BY <1>0, <2>1 DEF Left, Done
    <2>3. IObuf \in [0 .. MaxBuffer - 1 -> {Junk} \cup 0 .. StreamLen - 1]
        BY DEF IInv, TypeOK
    <2>4. \A j \in 0 .. MaxBuffer - 1 : j < Left =>
              packetStart + j \in packetStart .. nextRecv - 1
              /\ packetStart + j \in 0 .. MaxBuffer - 1
        BY BufferAssumption
    <2>5. IObuf' \in [0 .. MaxBuffer - 1 -> {Junk} \cup 0 .. StreamLen - 1]
        BY <2>1, <2>3, <2>4
    <2>6. \A j \in packetStart' .. nextRecv' - 1 :
              IObuf'[j] = Done' + (j - packetStart')
        <3> SUFFICES ASSUME NEW j \in 0 .. Left - 1
                     PROVE  IObuf'[j] = Done + j
            <4> SUFFICES ASSUME NEW j \in packetStart' .. nextRecv' - 1
                         PROVE  IObuf'[j] = Done' + (j - packetStart')
                OBVIOUS
            <4>1. j \in 0 .. Left - 1 /\ j - 0 = j
                BY <2>1
            <4> QED
                BY <2>1, <2>2, <4>1
        <3>1. j \in 0 .. MaxBuffer - 1 /\ j < Left
            BY BufferAssumption
        <3>2. IObuf'[j] = IObuf[packetStart + j]
            BY <2>1, <2>3, <3>1
        <3>3. packetStart + j \in packetStart .. nextRecv - 1
            BY <2>4, <3>1
        <3>4. IObuf[packetStart + j] = Done + ((packetStart + j) - packetStart)
            BY <3>3 DEF IInv, Content
        <3> QED
            BY <3>2, <3>4
    <2>7. TypeOK'
        BY <1>0, <1>1, <2>1, <2>5, BufferAssumption DEF IInv, TypeOK
    <2>8. Content'
        <3>1. packetStart' <= nextRecv' /\ Done' \in StartsOf(stream')
            BY <1>0, <2>1, <2>2
        <3> QED
            BY <2>6, <3>1 DEF Content
    <2>9. Places'
        BY <1>0, <1>1, <2>1, <2>2, BufferAssumption DEF Places
    <2> QED
        BY <2>7, <2>8, <2>9 DEF IInv
<1>3. CASE ~Crowded
    <2>1. UNCHANGED <<IObuf, packetStart, nextRecv>>
        BY <1>3 DEF PostReceive
    <2>2. Left' = Left /\ Done' = Done
        BY <1>0, <2>1 DEF Left, Done
    <2>3. TypeOK'
        BY <1>0, <2>1, BufferAssumption DEF IInv, TypeOK
    <2>4. Content'
        BY <1>0, <2>1, <2>2 DEF IInv, Content
    <2>5. Places'
        BY <1>0, <1>1, <1>3, <2>1, <2>2, BufferAssumption DEF Places, Crowded
    <2> QED
        BY <2>3, <2>4, <2>5 DEF IInv
<1> QED
    BY <1>2, <1>3

\* Every step preserves the invariant.
LEMMA NextIInv == IInv /\ [Next]_vars => IInv'
<1> SUFFICES ASSUME IInv, [Next]_vars PROVE IInv'
    OBVIOUS
<1>1. CASE ProcessPacket
    BY <1>1, ProcessPacketIInv
<1>2. CASE PostReceive
    BY <1>2, PostReceiveIInv
<1>3. CASE \E n \in 1 .. StreamLen : Receive(n)
    BY <1>3, ReceiveIInv
<1>4. CASE UNCHANGED vars
    BY <1>4 DEF vars, IInv, TypeOK, Content, Places, Left, Done
<1> QED
    BY <1>1, <1>2, <1>3, <1>4 DEF Next

\* The buffer of every player satisfies the invariant all the time.
THEOREM Inductive == Spec => []IInv
<1> QED
    BY InitIInv, NextIInv, PTL DEF Spec

-----------------------------------------------------------------------------
(* The properties *)

\* The pointers of Do_Assemble_packet stay inside IObuf.
THEOREM TypeCorrect == Spec => []TypeOK
<1>1. IInv => TypeOK
    BY DEF IInv
<1> QED
    BY <1>1, Inductive, PTL

\* No receive is posted with less than MIN_BUFFER bytes of room, let alone
\* with none, or reaching behind the buffer.
THEOREM ReceivesHaveRoom == Spec => []ReceiveHasRoom
<1>1. IInv => ReceiveHasRoom
    BY Facts, BufferAssumption DEF Numbers, IInv, Places, ReceiveHasRoom
<1> QED
    BY <1>1, Inductive, PTL

\* memcpy never gets overlapping regions, given that the buffer is as long as
\* two packets and the room of a receive.
THEOREM MovesAreDisjoint == Spec => []MoveIsDisjoint
<1>1. ASSUME IInv PROVE MoveIsDisjoint
    <2> SUFFICES ASSUME Emptied, Crowded PROVE Left <= packetStart
        BY DEF MoveIsDisjoint
    <2>1. /\ nextRecv \in Nat /\ packetStart \in Nat /\ MaxPacket \in Nat
          /\ MaxBuffer \in Nat /\ MinBuffer \in Nat
        BY <1>1, Facts, BufferAssumption DEF Numbers
    <2>2. Left <= MaxPacket - 1 \/ Left = 0
        BY <1>1, <2>1, RestIsShort
    <2>3. nextRecv > MaxBuffer - MinBuffer
        BY <2>1 DEF Crowded
    <2>4. 2 * MaxPacket <= MaxBuffer - MinBuffer + 2
        BY BufferAssumption
    <2> QED
        BY <2>1, <2>2, <2>3, <2>4 DEF Left
<1> QED
    BY <1>1, Inductive, PTL

\* packet_size is always the length byte of a packet that has begun to
\* arrive, never a byte left over from earlier use of the buffer.
THEOREM LengthsAreRead == Spec => []LengthIsRead
<1>1. ASSUME IInv PROVE LengthIsRead
    <2> SUFFICES ASSUME pc = "loop"
                 PROVE  packetStart < nextRecv /\ IObuf[packetStart] # Junk
                        /\ packetSize > 0
        BY DEF LengthIsRead
    <2>. Numbers
        BY <1>1, Facts
    <2> USE DEF Numbers
    <2>1. Left > 0 /\ packetSize = stream[Done]
        BY <1>1 DEF IInv, Places
    <2>2. packetStart < nextRecv /\ Done < StreamLen
        BY <1>1, <2>1
    <2>3. IObuf[packetStart] = Done
        BY <1>1, <2>2 DEF IInv, Content
    <2> QED
        BY <1>1, <2>1, <2>2, <2>3 DEF Junk
<1> QED
    BY <1>1, Inductive, PTL

-----------------------------------------------------------------------------
(* The assembler implements the packet stream *)

\* A step of the assembler is a step of the stream or changes nothing of it.
LEMMA StepRefines == IInv /\ [Next]_vars => [PS!PSNext]_(PS!psVars)
<1> SUFFICES ASSUME IInv, [Next]_vars PROVE [PS!PSNext]_(PS!psVars)
    OBVIOUS
<1>. Numbers
    BY Facts
<1> USE DEF Numbers
<1>1. CASE ProcessPacket
    <2>1. /\ Left > 0 /\ packetSize = stream[Done] /\ packetSize <= Left
          /\ packetStart' = packetStart + packetSize
          /\ UNCHANGED <<stream, arrived, nextRecv>>
        BY <1>1 DEF ProcessPacket, IInv, Places
    <2>2. Done < StreamLen /\ packetSize \in 1 .. MaxPacket
        BY <2>1
    <2>3. Done' = Done + stream[Done]
        BY <2>1, <2>2, BufferAssumption DEF Done, Left
    <2>4. packet' = [k \in 1 .. stream[Done] |-> Done + k - 1]
        <3>1. \A k \in 1 .. packetSize :
                  IObuf[packetStart + k - 1] = Done + k - 1
            BY <2>1, <2>2, BufferAssumption DEF IInv, Content
        <3> QED
            BY <1>1, <2>1, <3>1 DEF ProcessPacket
    <2>5. PS!Complete
        BY <2>1, <2>2 DEF PS!Complete, Done
    <2> QED
        BY <2>1, <2>3, <2>4, <2>5 DEF PS!PSNext, PS!Hand, Done
<1>2. CASE PostReceive
    <2>1. UNCHANGED <<stream, arrived, packet>> /\ Left' = Left
        BY <1>2 DEF PostReceive, Left
    <2> QED
        BY <2>1 DEF PS!psVars
<1>3. ASSUME NEW n \in 1 .. StreamLen, Receive(n)
      PROVE  PS!PSNext
    <2>1. /\ arrived + n <= StreamLen /\ arrived' = arrived + n
          /\ nextRecv' = nextRecv + n /\ packetStart' = packetStart
          /\ UNCHANGED <<stream, packet>>
        BY <1>3 DEF Receive, IInv, Places
    <2>2. arrived' - Left' = arrived - Left
        BY <1>3, <2>1, BufferAssumption DEF Left
    <2> QED
        BY <1>3, <2>1, <2>2 DEF PS!PSNext, PS!Arrive
<1>4. CASE UNCHANGED vars
    BY <1>4 DEF vars, PS!psVars, Left
<1> QED
    BY <1>1, <1>2, <1>3, <1>4 DEF Next

\* Whatever pieces the stream arrives in, Process__Packet is given its packets
\* whole, each once and in order.
THEOREM HandsPacketsInOrder == Spec => PS!PSSpec
<1>1. Init => PS!PSInit
    BY DEF Init, PS!PSInit, Left
<1> QED
    BY <1>1, Inductive, StepRefines, PTL DEF Spec, PS!PSSpec
=============================================================================
