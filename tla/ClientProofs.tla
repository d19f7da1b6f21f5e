---------------------------- MODULE ClientProofs ----------------------------
(* What a game client is given.  process_data gathers the packets of every   *)
(* stream, for every buffer that holds the longest packet.  And, for any     *)
(* number of players and any map, the server keeps track of whom it made     *)
(* every client show: in a near set, or in a packet still to be sent.        *)
EXTENDS ClientAssembler, NearSet, FiniteSetTheorems, TLAPS

\* The places of stream b at which its packets start.
StartsOf(b) == CHOOSE S \in SUBSET (0 .. StreamLen) : PS!FramedBy(b, S)

\* Bytes of packets handed on so far.
Done == arrived - (ioByte + savedPacketSize)

\* What is saved is the beginning of the next packet, net_buf goes on from
\* there, and in_packet_size is the length of that packet.
Content ==
    /\ Done \in StartsOf(stream)
    /\ ioByte > 0 => ptr + ioByte = arrived
    /\ \A j \in 0 .. savedPacketSize - 1 : packetBuffer[j] = Done + j
    /\ inPacketSize # 0 => inPacketSize = stream[Done]

IInv == TypeOK /\ StaticsAgree /\ Content

\* The packets of a stream, one after the other.
LEMMA Framing ==
    ASSUME NEW b \in Streams
    PROVE  /\ 0 \in StartsOf(b)
           /\ StartsOf(b) \subseteq 0 .. StreamLen
           /\ \A p \in StartsOf(b) :
                p < StreamLen => b[p] \in 1 .. MaxPacket /\ p + b[p] \in StartsOf(b)
<1>1. PICK S \in SUBSET (0 .. StreamLen) : PS!FramedBy(b, S)
    BY StreamAssumption DEF PS!WellFramed
<1>2. StartsOf(b) \in SUBSET (0 .. StreamLen) /\ PS!FramedBy(b, StartsOf(b))
    BY <1>1 DEF StartsOf
<1> QED
    BY <1>2 DEF PS!FramedBy

\* The constants of an instance, in one place.
LEMMA Constants ==
    /\ StreamLen \in Nat /\ MaxPacket \in Nat /\ BufSize \in Nat
    /\ MaxPacket <= BufSize
    /\ \A b \in Streams : b \in [0 .. StreamLen - 1 -> Nat]
    BY StreamAssumption, PacketFitsAssumption DEF PS!WellFramed

-----------------------------------------------------------------------------
(* The initial state and each step *)

\* No packet has begun.
LEMMA InitIInv == ClientInit => IInv
<1> SUFFICES ASSUME ClientInit PROVE IInv
    OBVIOUS
<1>1. TypeOK
    BY Constants DEF ClientInit, TypeOK, Junk
<1>2. Done = 0
    BY DEF ClientInit, Done
<1>3. Content
    BY <1>2, Framing DEF ClientInit, Content
<1> QED
    BY <1>1, <1>3 DEF ClientInit, IInv, StaticsAgree

\* What the invariant says in terms of numbers.
Numbers ==
    /\ stream \in Streams /\ stream \in [0 .. StreamLen - 1 -> Nat]
    /\ arrived \in 0 .. StreamLen /\ ptr \in Nat /\ ioByte \in 0 .. BufSize
    /\ inPacketSize \in 0 .. MaxPacket /\ savedPacketSize \in 0 .. BufSize
    /\ Done \in 0 .. StreamLen /\ Done \in StartsOf(stream)
    /\ Done + (ioByte + savedPacketSize) = arrived
    /\ Done < StreamLen => /\ stream[Done] \in 1 .. MaxPacket
                           /\ Done + stream[Done] \in StartsOf(stream)

\* They follow from the invariant.
LEMMA Facts == IInv => Numbers
<1> SUFFICES ASSUME IInv PROVE Numbers
    OBVIOUS
<1>1. TypeOK /\ Done \in StartsOf(stream)
    BY DEF IInv, Content
<1>2. Done + (ioByte + savedPacketSize) = arrived
    BY <1>1, Constants DEF TypeOK, Done
<1> QED
    BY <1>1, <1>2, Constants, Framing DEF Numbers, TypeOK

\* While bytes are left in net_buf, process_data knows the length of the
\* packet they belong to and where they go.
LEMMA Gathering ==
    ASSUME IInv, ioByte # 0
    PROVE  /\ Done < StreamLen /\ Done + savedPacketSize = ptr
           /\ Size = stream[Done] /\ Size \in 1 .. MaxPacket
           /\ savedPacketSize < Size
<1>1. Numbers
    BY Facts
<1>2. Done < StreamLen /\ Done + savedPacketSize = ptr
    BY <1>1, Constants DEF Numbers, IInv, Content
<1>3. stream[Done] \in 1 .. MaxPacket
    BY <1>1, <1>2 DEF Numbers
<1>4. CASE inPacketSize = 0 /\ savedPacketSize = 0
    <2>1. Done = ptr
        BY <1>1, <1>2, <1>4, Constants DEF Numbers
    <2> QED
        BY <1>1, <1>2, <1>3, <1>4, <2>1, Constants DEF Size
<1>5. CASE 0 < savedPacketSize /\ savedPacketSize < inPacketSize
    <2>1. inPacketSize # 0 /\ inPacketSize = stream[Done]
        BY <1>1, <1>5, Constants DEF Numbers, IInv, Content
    <2> QED
        BY <1>2, <1>3, <1>5, <2>1 DEF Size
<1> QED
    BY <1>4, <1>5 DEF IInv, StaticsAgree

\* The bytes memcpy appends follow those that are there.
LEMMA CopyAppends ==
    ASSUME IInv, ioByte # 0, NEW n \in 0 .. ioByte, savedPacketSize + n <= Size
    PROVE  /\ Copied(n) \in [0 .. BufSize - 1 -> {Junk} \cup 0 .. StreamLen - 1]
           /\ \A j \in 0 .. savedPacketSize + n - 1 : Copied(n)[j] = Done + j
<1>1. Numbers
    BY Facts
<1>2. Done + savedPacketSize = ptr /\ Size \in 1 .. MaxPacket
    BY Gathering
<1>3. packetBuffer \in [0 .. BufSize - 1 -> {Junk} \cup 0 .. StreamLen - 1]
    BY DEF IInv, TypeOK
<1>4. ASSUME NEW j \in savedPacketSize .. savedPacketSize + n - 1
      PROVE  /\ ptr + (j - savedPacketSize) = Done + j
             /\ ptr + (j - savedPacketSize) \in 0 .. StreamLen - 1
    BY <1>1, <1>2, <1>4, Constants DEF Numbers
<1>5. Copied(n) \in [0 .. BufSize - 1 -> {Junk} \cup 0 .. StreamLen - 1]
    BY <1>3, <1>4 DEF Copied
<1>6. ASSUME NEW j \in 0 .. savedPacketSize + n - 1
      PROVE  Copied(n)[j] = Done + j
    <2>1. j \in 0 .. BufSize - 1 /\ j \in Nat
        BY <1>1, <1>2, Constants DEF Numbers
    <2>2. Copied(n)[j] = IF j \in savedPacketSize .. savedPacketSize + n - 1
                            THEN ptr + (j - savedPacketSize) ELSE packetBuffer[j]
        BY <1>3, <2>1 DEF Copied
    <2>3. CASE j \in savedPacketSize .. savedPacketSize + n - 1
        BY <1>4, <2>2, <2>3
    <2>4. CASE j \in 0 .. savedPacketSize - 1
        <3>1. j \notin savedPacketSize .. savedPacketSize + n - 1
            BY <1>1, <2>4, Constants DEF Numbers
        <3> QED
            BY <2>2, <2>4, <3>1 DEF IInv, Content
    <2> QED
        BY <1>1, <1>6, <2>1, <2>3, <2>4, Constants DEF Numbers
<1> QED
    BY <1>5, <1>6

\* The next receive does not disturb what is saved.
LEMMA ReceiveIInv ==
    ASSUME IInv, NEW n \in 1 .. StreamLen, Receive(n)
    PROVE  IInv'
<1>1. Numbers
    BY Facts
<1>2. /\ ioByte = 0 /\ n <= BufSize /\ arrived + n <= StreamLen
      /\ arrived' = arrived + n /\ ptr' = arrived /\ ioByte' = n
      /\ UNCHANGED <<stream, inPacketSize, savedPacketSize, packetBuffer>>
    BY DEF Receive
<1>3. Done' = Done
    <2>1. Done' = (arrived + n) - (n + savedPacketSize)
        BY <1>2 DEF Done
    <2>2. Done = arrived - (0 + savedPacketSize)
        BY <1>2 DEF Done
    <2> QED
        BY <1>1, <2>1, <2>2, Constants DEF Numbers
<1>4. TypeOK'
    BY <1>1, <1>2, Constants DEF Numbers, IInv, TypeOK
<1>5. Content'
    BY <1>2, <1>3 DEF IInv, Content
<1> QED
    BY <1>2, <1>4, <1>5 DEF IInv, StaticsAgree

\* What a completed packet does to the numbers.
LEMMA CompletePacketStep ==
    ASSUME IInv, CompletePacket
    PROVE  /\ ioByte # 0 /\ Size - savedPacketSize \in 0 .. ioByte
           /\ Done' = Done + Size
           /\ ioByte' \in 0 .. BufSize /\ ptr' \in 0 .. StreamLen
           /\ ptr' + ioByte' = arrived
<1>1. Numbers
    BY Facts
<1>2. /\ ioByte # 0 /\ ioByte + savedPacketSize >= Size
      /\ ptr' = ptr + (Size - savedPacketSize)
      /\ ioByte' = ioByte - (Size - savedPacketSize)
      /\ savedPacketSize' = 0 /\ arrived' = arrived
    BY DEF CompletePacket
<1>3. /\ Done + savedPacketSize = ptr /\ Size \in 1 .. MaxPacket
      /\ savedPacketSize < Size
    BY <1>2, Gathering
<1>4. Done' = arrived - ((ioByte - (Size - savedPacketSize)) + 0)
    BY <1>2 DEF Done
<1> QED
    BY <1>1, <1>2, <1>3, <1>4, Constants DEF Numbers

\* After a whole packet the next one begins.
LEMMA CompletePacketIInv ==
    ASSUME IInv, CompletePacket
    PROVE  IInv'
<1>1. Numbers
    BY Facts
<1>2. /\ ioByte # 0 /\ Size - savedPacketSize \in 0 .. ioByte
      /\ Done' = Done + Size
      /\ ioByte' \in 0 .. BufSize /\ ptr' \in 0 .. StreamLen
      /\ ptr' + ioByte' = arrived
    BY CompletePacketStep
<1>3. /\ inPacketSize' = 0 /\ savedPacketSize' = 0
      /\ packetBuffer' = Copied(Size - savedPacketSize)
      /\ UNCHANGED <<stream, arrived>>
    BY DEF CompletePacket
<1>4. Done < StreamLen /\ Size = stream[Done] /\ Size \in Nat
    BY <1>2, Gathering
<1>5. packetBuffer' \in [0 .. BufSize - 1 -> {Junk} \cup 0 .. StreamLen - 1]
    <2>1. savedPacketSize + (Size - savedPacketSize) <= Size
        BY <1>1, <1>4, Constants DEF Numbers
    <2> QED
        BY <1>2, <1>3, <2>1, CopyAppends
<1>6. TypeOK'
    BY <1>1, <1>2, <1>3, <1>5, Constants DEF Numbers, IInv, TypeOK
<1>7. Content'
    <2>1. Done' \in StartsOf(stream)
        BY <1>1, <1>2, <1>4 DEF Numbers
    <2>2. ptr' + ioByte' = arrived'
        BY <1>2, <1>3
    <2>3. 0 .. savedPacketSize' - 1 = {}
        BY <1>3
    <2> QED
        BY <1>3, <2>1, <2>2, <2>3 DEF Content
<1> QED
    BY <1>3, <1>6, <1>7 DEF IInv, StaticsAgree

\* A part of a packet is saved behind the parts saved before.
LEMMA SavePartIInv ==
    ASSUME IInv, SavePart
    PROVE  IInv'
<1>1. Numbers
    BY Facts
<1>2. /\ ioByte # 0 /\ ioByte + savedPacketSize < Size
      /\ packetBuffer' = Copied(ioByte)
      /\ savedPacketSize' = savedPacketSize + ioByte
      /\ inPacketSize' = Size /\ ioByte' = 0
      /\ UNCHANGED <<stream, arrived, ptr>>
    BY DEF SavePart
<1>3. Size = stream[Done] /\ Size \in 1 .. MaxPacket
    BY <1>2, Gathering
<1>4. ioByte \in 0 .. ioByte /\ savedPacketSize + ioByte <= Size
    BY <1>1, <1>2, <1>3, Constants DEF Numbers
<1>5. /\ Copied(ioByte) \in [0 .. BufSize - 1 -> {Junk} \cup 0 .. StreamLen - 1]
      /\ \A j \in 0 .. savedPacketSize + ioByte - 1 : Copied(ioByte)[j] = Done + j
    BY <1>2, <1>4, CopyAppends
<1>6. Done' = Done
    <2>1. Done' = arrived - (0 + (savedPacketSize + ioByte))
        BY <1>2 DEF Done
    <2> QED
        BY <1>1, <2>1, Constants DEF Numbers, Done
<1>7. savedPacketSize' \in 0 .. BufSize /\ 0 < savedPacketSize' /\ savedPacketSize' < Size
    BY <1>1, <1>2, <1>3, Constants DEF Numbers
<1>8. TypeOK'
    BY <1>1, <1>2, <1>3, <1>5, <1>7, Constants DEF Numbers, IInv, TypeOK
<1>9. Content'
    BY <1>1, <1>2, <1>3, <1>5, <1>6 DEF Numbers, Content
<1> QED
    BY <1>2, <1>7, <1>8, <1>9 DEF IInv, StaticsAgree

\* Every step preserves the invariant.
LEMMA NextIInv == IInv /\ [ClientNext]_clientVars => IInv'
<1> SUFFICES ASSUME IInv, [ClientNext]_clientVars PROVE IInv'
    OBVIOUS
<1>1. CASE CompletePacket
    BY <1>1, CompletePacketIInv
<1>2. CASE SavePart
    BY <1>2, SavePartIInv
<1>3. CASE \E n \in 1 .. StreamLen : Receive(n)
    BY <1>3, ReceiveIInv
<1>4. CASE UNCHANGED clientVars
    BY <1>4 DEF clientVars, IInv, TypeOK, StaticsAgree, Content, Done
<1> QED
    BY <1>1, <1>2, <1>3, <1>4 DEF ClientNext

\* The buffer of the client satisfies the invariant all the time.
THEOREM Inductive == ClientSpec => []IInv
<1> QED
    BY InitIInv, NextIInv, PTL DEF ClientSpec

-----------------------------------------------------------------------------
(* The properties *)

\* packet_buffer and the counts of process_data stay within BUF_SIZE.
THEOREM TypeCorrect == ClientSpec => []TypeOK
<1>1. IInv => TypeOK
    BY DEF IInv
<1> QED
    BY <1>1, Inductive, PTL

\* in_packet_size - saved_packet_size, the length of a memcpy, is never
\* negative.
THEOREM StaticsAlwaysAgree == ClientSpec => []StaticsAgree
<1>1. IInv => StaticsAgree
    BY DEF IInv
<1> QED
    BY <1>1, Inductive, PTL

\* A step of process_data is a step of the stream or changes nothing of it.
LEMMA StepRefines == IInv /\ [ClientNext]_clientVars => [PS!PSNext]_(PS!psVars)
<1> SUFFICES ASSUME IInv, [ClientNext]_clientVars PROVE [PS!PSNext]_(PS!psVars)
    OBVIOUS
<1>0. Numbers
    BY Facts
<1>1. CASE CompletePacket
    <2>1. /\ ioByte # 0 /\ Size - savedPacketSize \in 0 .. ioByte
          /\ Done' = Done + Size
        BY <1>1, CompletePacketStep
    <2>2. /\ Size = stream[Done] /\ Size \in 1 .. MaxPacket
        BY <2>1, Gathering
    <2>3. packet' = [k \in 1 .. stream[Done] |-> Done + k - 1]
        <3>1. savedPacketSize + (Size - savedPacketSize) = Size
              /\ savedPacketSize + (Size - savedPacketSize) <= Size
            BY <1>0, <2>2, Constants DEF Numbers
        <3>2. packetBuffer' = Copied(Size - savedPacketSize)
            BY <1>1 DEF CompletePacket
        <3>3. \A j \in 0 .. savedPacketSize + (Size - savedPacketSize) - 1 :
                  packetBuffer'[j] = Done + j
            BY <2>1, <3>1, <3>2, CopyAppends
        <3>4. ASSUME NEW k \in 1 .. Size
              PROVE  packetBuffer'[k - 1] = Done + k - 1
            <4>1. Size \in Nat /\ Done \in Int /\ k \in Nat /\ k >= 1 /\ k <= Size
                BY <1>0, <2>2, Constants DEF Numbers
            <4>2. 0 .. savedPacketSize + (Size - savedPacketSize) - 1 = 0 .. Size - 1
                <5>1. savedPacketSize \in Nat /\ Size \in Nat
                    BY <1>0, <2>2, Constants DEF Numbers
                <5> QED
                    BY <5>1
            <4>3. k - 1 \in 0 .. Size - 1
                BY <4>1
            <4>4. packetBuffer'[k - 1] = Done + (k - 1)
                BY Zenon, <3>3, <4>2, <4>3
            <4> QED
                BY <4>1, <4>4
        <3> QED
            BY <1>1, <2>2, <3>4 DEF CompletePacket
    <2>4. PS!Complete
        BY <1>0, <2>1, <2>2, Constants DEF PS!Complete, Done, Numbers
    <2>5. UNCHANGED <<stream, arrived>>
        BY <1>1 DEF CompletePacket
    <2> QED
        BY <2>1, <2>2, <2>3, <2>4, <2>5 DEF PS!PSNext, PS!Hand, Done
<1>2. CASE SavePart
    <2>1. Done' = Done
        <3>1. Done' = arrived - (0 + (savedPacketSize + ioByte))
            BY <1>2 DEF SavePart, Done
        <3> QED
            BY <1>0, <3>1, Constants DEF Numbers, Done
    <2> QED
        BY <1>2, <2>1 DEF SavePart, PS!psVars, Done
<1>3. ASSUME NEW n \in 1 .. StreamLen, Receive(n)
      PROVE  PS!PSNext
    <2>1. Done' = Done
        <3>1. Done' = (arrived + n) - (n + savedPacketSize)
            BY <1>3 DEF Receive, Done
        <3>2. Done = arrived - (0 + savedPacketSize)
            BY <1>3 DEF Receive, Done
        <3> QED
            BY <1>0, <3>1, <3>2, Constants DEF Numbers
    <2>2. /\ arrived + n <= StreamLen /\ arrived' = arrived + n
          /\ UNCHANGED <<stream, packet>>
        BY <1>3 DEF Receive
    <2> QED
        BY <1>3, <2>1, <2>2 DEF PS!PSNext, PS!Arrive, Done
<1>4. CASE UNCHANGED clientVars
    BY <1>4 DEF clientVars, PS!psVars
<1> QED
    BY <1>1, <1>2, <1>3, <1>4 DEF ClientNext

\* However the stream is cut into receives, ProcessPacket is given its packets
\* whole, each once and in order.
THEOREM HandsPacketsInOrder == ClientSpec => PS!PSSpec
<1>1. ClientInit => PS!PSInit
    BY DEF ClientInit, PS!PSInit
<1> QED
    BY <1>1, Inductive, StepRefines, PTL DEF ClientSpec, PS!PSSpec

-----------------------------------------------------------------------------
(* Who sees whom: sequences of elements, as sets of elements *)

Kinds    == {"in", "near", "out", "unexist"}
Elements == Players \X Kinds

\* A walk over a finite set meets elements of it only.
LEMMA WalkOfSet ==
    ASSUME NEW S, IsFiniteSet(S)
    PROVE  SetToSeq(S) \in Seq(S)
<1>1. Cardinality(S) \in Nat /\ ExistsBijection(1 .. Cardinality(S), S)
    BY FS_CardinalityType
<1>2. PICK f \in [1 .. Cardinality(S) -> S] : IsInjective(f)
    BY <1>1 DEF ExistsBijection, Bijection, Injection
<1>3. SetToSeq(S) \in [1 .. Cardinality(S) -> S]
    BY <1>2 DEF SetToSeq
<1> QED
    BY <1>1, <1>3

\* The first element and the others.
LEMMA HeadAndTail ==
    ASSUME NEW S, NEW s \in Seq(S), s # <<>>
    PROVE  /\ Tail(s) \in Seq(S)
           /\ Head(s) \in Range(s)
           /\ Head(s) \in S
           /\ Range(Tail(s)) \subseteq Range(s)
           /\ \A e \in Range(s) : e = Head(s) \/ e \in Range(Tail(s))
<1>1. /\ Tail(s) \in Seq(S) /\ Len(s) \in Nat \ {0} /\ Len(Tail(s)) = Len(s) - 1
      /\ \A i \in 1 .. Len(s) - 1 : Tail(s)[i] = s[i + 1]
      /\ DOMAIN s = 1 .. Len(s) /\ DOMAIN Tail(s) = 1 .. Len(s) - 1
    OBVIOUS
<1>2. Head(s) = s[1] /\ 1 \in DOMAIN s /\ s[1] \in S
    BY <1>1
<1>3. \A e \in Range(s) : e = Head(s) \/ e \in Range(Tail(s))
    <2> SUFFICES ASSUME NEW i \in DOMAIN s, i # 1 PROVE s[i] \in Range(Tail(s))
        BY <1>2 DEF Range
    <2>1. i - 1 \in DOMAIN Tail(s) /\ Tail(s)[i - 1] = s[i]
        BY <1>1
    <2> QED
        BY <2>1 DEF Range
<1>4. Range(Tail(s)) \subseteq Range(s)
    <2> SUFFICES ASSUME NEW i \in DOMAIN Tail(s) PROVE Tail(s)[i] \in Range(s)
        BY DEF Range
    <2>1. i + 1 \in DOMAIN s /\ Tail(s)[i] = s[i + 1]
        BY <1>1
    <2> QED
        BY <2>1 DEF Range
<1> QED
    BY <1>1, <1>2, <1>3, <1>4 DEF Range

\* Two sequences in a row.
LEMMA Joined ==
    ASSUME NEW S, NEW s \in Seq(S), NEW r \in Seq(S)
    PROVE  /\ s \o r \in Seq(S)
           /\ Range(s \o r) \subseteq Range(s) \cup Range(r)
<1>1. /\ s \o r \in Seq(S) /\ DOMAIN (s \o r) = 1 .. Len(s) + Len(r)
      /\ DOMAIN s = 1 .. Len(s) /\ DOMAIN r = 1 .. Len(r)
      /\ \A i \in 1 .. Len(s) + Len(r) :
            (s \o r)[i] = IF i <= Len(s) THEN s[i] ELSE r[i - Len(s)]
    OBVIOUS
<1>2. ASSUME NEW i \in DOMAIN (s \o r)
      PROVE  (s \o r)[i] \in Range(s) \cup Range(r)
    <2>1. CASE i <= Len(s)
        BY <1>1, <2>1 DEF Range
    <2>2. CASE i > Len(s)
        <3>1. i - Len(s) \in DOMAIN r /\ (s \o r)[i] = r[i - Len(s)]
            BY <1>1, <2>2
        <3> QED
            BY <3>1 DEF Range
    <2> QED
        BY <1>1, <2>1, <2>2
<1> QED
    BY <1>1, <1>2 DEF Range

\* What follows place i.
LEMMA Behind ==
    ASSUME NEW S, NEW s \in Seq(S), NEW i \in DOMAIN s
    PROVE  /\ SubSeq(s, i + 1, Len(s)) \in Seq(S)
           /\ Range(SubSeq(s, i + 1, Len(s))) \subseteq Range(s)
<1> DEFINE r == SubSeq(s, i + 1, Len(s))
<1>1. /\ r \in Seq(S) /\ Len(r) = Len(s) - i /\ DOMAIN r = 1 .. Len(s) - i
      /\ \A j \in 1 .. Len(s) - i : r[j] = s[i + j]
      /\ DOMAIN s = 1 .. Len(s) /\ i \in 1 .. Len(s)
    OBVIOUS
<1>2. ASSUME NEW j \in DOMAIN r PROVE r[j] \in Range(s)
    <2>1. i + j \in DOMAIN s /\ r[j] = s[i + j]
        BY <1>1
    <2> QED
        BY <2>1 DEF Range
<1> QED
    BY <1>1, <1>2 DEF Range

\* What the scan of one sector adds.
LEMMA SightedElements ==
    ASSUME NEW ids \in SUBSET Players
    PROVE  /\ Sighted(ids) \in Seq(Elements)
           /\ \A e \in Range(Sighted(ids)) : e[1] \in ids /\ e[2] = "in"
<1> DEFINE s == SetToSeq(ids)
<1>1. s \in Seq(ids)
    BY WalkOfSet, PlayersAssumption, FS_Subset
<1> HIDE DEF s
<1>2. Sighted(ids) = [i \in 1 .. Len(s) |-> <<s[i], "in">>]
    BY <1>1 DEF Sighted, s
<1>3. \A i \in 1 .. Len(s) : s[i] \in ids
    BY <1>1
<1>4. Sighted(ids) \in Seq(Elements)
    BY <1>1, <1>2, <1>3 DEF Elements, Kinds
<1>5. \A e \in Range(Sighted(ids)) : e[1] \in ids /\ e[2] = "in"
    BY <1>2, <1>3 DEF Range
<1> QED
    BY <1>4, <1>5

\* What the walk over a near set makes of the elements of a scan: those stay,
\* or become "near"; those it adds have ids that are not among them or gone.
LEMMA ComparedElements ==
    ASSUME NEW s \in Seq(Elements), NEW known \in SUBSET Players, NEW exist
    PROVE  /\ Compared(s, known, exist) \in Seq(Elements)
           /\ \A e \in Range(Compared(s, known, exist)) :
                \/ e \in Range(s)
                \/ e[2] = "near" /\ e[1] \in exist /\ e[1] \in Ids(s)
                \/ e[2] = "out" /\ e[1] \in known /\ e[1] \in exist /\ e[1] \notin Ids(s)
                \/ e[2] = "unexist" /\ e[1] \in known /\ e[1] \notin exist
<1> DEFINE rest  == SetToSeq(known \ (Ids(s) \cap exist))
           added == [i \in DOMAIN rest |->
                        <<rest[i], IF rest[i] \in exist THEN "out" ELSE "unexist">>]
           first == Marked(s, known \cap exist)
<1>1. rest \in Seq(known \ (Ids(s) \cap exist))
    BY WalkOfSet, PlayersAssumption, FS_Subset
<1>2. Compared(s, known, exist) = first \o added
    BY DEF Compared
<1> HIDE DEF rest
<1>3. /\ added \in Seq(Elements)
      /\ \A e \in Range(added) :
            \/ e[2] = "out" /\ e[1] \in known /\ e[1] \in exist /\ e[1] \notin Ids(s)
            \/ e[2] = "unexist" /\ e[1] \in known /\ e[1] \notin exist
    <2>1. DOMAIN rest = 1 .. Len(rest) /\ Len(rest) \in Nat
          /\ \A i \in 1 .. Len(rest) : rest[i] \in known \ (Ids(s) \cap exist)
        BY <1>1
    <2>2. \A i \in 1 .. Len(rest) : added[i] \in Elements
        BY <2>1 DEF Elements, Kinds
    <2>3. added \in Seq(Elements)
        BY <2>1, <2>2
    <2> QED
        BY <2>1, <2>3 DEF Range
<1>4. /\ first \in Seq(Elements)
      /\ \A e \in Range(first) :
            \/ e \in Range(s)
            \/ e[2] = "near" /\ e[1] \in exist /\ e[1] \in Ids(s)
    <2>1. DOMAIN s = 1 .. Len(s) /\ Len(s) \in Nat /\ \A i \in 1 .. Len(s) : s[i] \in Elements
        OBVIOUS
    <2>2. /\ DOMAIN first = DOMAIN s
          /\ \A i \in DOMAIN s :
                \/ first[i] = s[i]
                \/ first[i] = <<s[i][1], "near">> /\ s[i][1] \in exist
        BY DEF Marked
    <2> HIDE DEF first
    <2>3. \A i \in 1 .. Len(s) : s[i][1] \in Players /\ <<s[i][1], "near">> \in Elements
        BY <2>1 DEF Elements, Kinds
    <2>4. \A i \in 1 .. Len(s) : first[i] \in Elements
        BY <2>1, <2>2, <2>3
    <2>5. first = [i \in 1 .. Len(s) |-> first[i]]
        BY <2>1 DEF first, Marked
    <2>6. first \in Seq(Elements)
        BY <2>1, <2>4, <2>5
    <2>7. ASSUME NEW i \in DOMAIN s, first[i] # s[i]
          PROVE  first[i][2] = "near" /\ first[i][1] \in exist /\ first[i][1] \in Ids(s)
        BY <2>2, <2>7 DEF Ids
    <2> QED
        BY <2>2, <2>6, <2>7 DEF Range
<1> HIDE DEF first, added
<1>5. /\ first \o added \in Seq(Elements)
      /\ Range(first \o added) \subseteq Range(first) \cup Range(added)
    BY <1>3, <1>4, Joined
<1> QED
    BY <1>2, <1>3, <1>4, <1>5

\* The packets about what a login has found.
LEMMA WelcomeElements ==
    ASSUME NEW p \in Players, NEW s \in Seq(Elements)
    PROVE  /\ Welcome(p, s) \in Seq(Players \X Players)
           /\ \A g \in Range(Welcome(p, s)) :
                \E q \in Ids(s) : g \in {<<p, q>>, <<q, p>>}
<1>1. DOMAIN s = 1 .. Len(s) /\ Len(s) \in Nat /\ \A i \in 1 .. Len(s) : s[i] \in Elements
    OBVIOUS
<1>2. ASSUME NEW k \in 1 .. 2 * Len(s)
      PROVE  \E q \in Ids(s) : Welcome(p, s)[k] \in {<<p, q>>, <<q, p>>}
    <2>1. (k + 1) \div 2 \in DOMAIN s
        BY <1>1
    <2>2. s[(k + 1) \div 2][1] \in Ids(s)
        BY <2>1 DEF Ids
    <2> QED
        BY <2>2 DEF Welcome
<1>3. Ids(s) \subseteq Players
    BY <1>1 DEF Ids, Elements
<1>4. \A k \in 1 .. 2 * Len(s) : Welcome(p, s)[k] \in Players \X Players
    BY <1>2, <1>3
<1>5. Welcome(p, s) = [k \in 1 .. 2 * Len(s) |-> Welcome(p, s)[k]]
    BY DEF Welcome
<1>6. Welcome(p, s) \in Seq(Players \X Players)
    BY <1>1, <1>4, <1>5
<1>7. DOMAIN Welcome(p, s) = 1 .. 2 * Len(s)
    BY DEF Welcome
<1> QED
    BY <1>2, <1>6, <1>7 DEF Range

-----------------------------------------------------------------------------
(* Who sees whom: the inductive invariant *)

Stages == {"new", "login", "enter", "sector", "idle", "moved", "leave", "scan",
           "classify", "introduce", "tell", "tell_self", "unslot", "quit",
           "out", "crashed"}

\* todo holds elements here, and sectors or leftovers elsewhere.
Walking(p) == pc[p] \in {"enter", "introduce", "tell", "tell_self"}

ViewTypes ==
    /\ players \subseteq Players /\ objects \subseteq Players
    /\ pc \in [Players -> Stages]
    /\ near \in [Players -> SUBSET Players]
    /\ table \in [Players -> SUBSET Players]
    /\ res \in [Players -> Seq(Elements)]
    /\ greet \in [Players -> Seq(Players \X Players)]
    /\ DOMAIN todo = Players
    /\ \A p \in Players : Walking(p) => todo[p] \in Seq(Elements)

\* The two tables say where the handler of a player stands.
Listed(p) ==
    /\ p \in objects <=> pc[p] \notin {"new", "unslot", "quit", "out"}
    /\ p \in players <=> pc[p] \notin {"new", "quit", "out"}

\* What the vectors of a handler hold at each stage: nobody that came into
\* sight is out of sight as well.
Shaped(p) ==
    /\ pc[p] \in {"new", "idle", "moved", "leave", "tell", "tell_self"} => res[p] = <<>>
    /\ pc[p] \in {"login", "enter", "sector", "scan", "classify"} =>
        \A e \in Range(res[p]) : e[2] = "in"
    /\ pc[p] = "introduce" =>
        \A e, f \in Range(res[p]) : e[2] = "out" /\ f[2] = "in" => e[1] # f[1]
    /\ pc[p] = "tell_self" => todo[p] # <<>>

\* Nobody knows an id before its login.
Acquainted(p) ==
    /\ \A q \in near[p] : pc[q] # "new"
    /\ \A e \in Range(res[p]) : pc[e[1]] # "new"
    /\ Walking(p) => \A e \in Range(todo[p]) : pc[e[1]] # "new"

\* An element that will be looked up by id is of somebody in objects, unless a
\* logout has overtaken the handler.
Safe(p) ==
    /\ pc[p] \in {"scan", "classify", "introduce"} =>
        \A e \in Range(res[p]) :
            e[2] = "unexist" \/ e[1] \in objects \/ p \in overtaken
    /\ pc[p] \in {"introduce", "tell", "tell_self"} =>
        \A e \in Range(todo[p]) :
            e[2] = "unexist" \/ e[1] \in objects \/ p \in overtaken
    /\ pc[p] = "crashed" => p \in overtaken

\* Somebody who does not exist has left, and who came into sight is in the near
\* set when the packets are sent.
Updating(p) ==
    /\ pc[p] = "introduce" =>
        \A e \in Range(res[p]) : e[2] = "unexist" => Leaving(e[1])
    /\ pc[p] \in {"tell", "tell_self"} =>
        \A e \in Range(todo[p]) :
            /\ e[2] = "unexist" => Leaving(e[1])
            /\ e[2] = "in" => e[1] \in near[p] \/ Leaving(e[1])

\* The packets of a welcome are about p and somebody in its near set, as long
\* as p has not moved.
Greeting(p) ==
    /\ pc[p] = "sector" => Ids(res[p]) \subseteq near[p]
    /\ greet[p] # <<>> /\ p \notin hasty => pc[p] \in {"idle", "unslot", "quit", "out"}
    /\ \A g \in Range(greet[p]) :
        \E e \in Players : g \in {<<p, e>>, <<e, p>>} /\ (p \in hasty \/ e \in near[p])

HandlerInv(p) ==
    /\ Listed(p) /\ Shaped(p) /\ Acquainted(p) /\ Safe(p) /\ Updating(p)
    /\ Greeting(p)

\* p's side of EntryTracked, and the pairs it does not speak of.
Covered(p, q) == q \in near[p] \/ Recalls(p, q)
Exempt(p, q) == p \in hasty \/ q \in hasty \/ Leaving(p) \/ Leaving(q)

Tracked(p, q) == q \in table[p] => Exempt(p, q) \/ Covered(p, q) \/ Covered(q, p)

\* Between the two packets of a SIGHT_OUT, the one that p recalls does not count
\* for what the other's client shows.
Hiding(p, q) ==
    pc[p] = "tell_self" /\ Head(todo[p]) = <<q, "out">> /\ p \in table[q] =>
        Exempt(p, q) \/ q \in near[p] \/ Covered(q, p)

PairInv == Up => \A p, q \in Players : Tracked(p, q) /\ Hiding(p, q)

ViewInv ==
    /\ ViewTypes
    /\ \A p \in Players : HandlerInv(p)
    /\ PairInv

-----------------------------------------------------------------------------
(* Who sees whom: what a step of one handler is to the others *)

\* A step of t as the others see it: t may enter near sets, and leave the
\* tables.
Beside(t) ==
    /\ \A u \in Players \ {t} :
        /\ pc'[u] = pc[u] /\ res'[u] = res[u] /\ todo'[u] = todo[u]
        /\ greet'[u] = greet[u] /\ near[u] \subseteq near'[u]
        /\ \A q \in near'[u] : q \in near[u] \/ (q = t /\ pc'[t] # "new")
        /\ u \in objects' <=> u \in objects
        /\ u \in players' <=> u \in players
    /\ hasty \subseteq hasty' /\ overtaken \subseteq overtaken'
    /\ pc[t] # "new" => pc'[t] # "new"
    /\ Leaving(t) => Leaving(t)'
    /\ t \in objects /\ t \notin objects' =>
        \A u \in Players \ {t} : Holds(u, t) => u \in overtaken'

\* What t answered for, t answers for afterwards; and what t makes a client
\* show, t answers for.
Answers(t) ==
    /\ \A q \in Players : Covered(t, q) => Covered(t, q)' \/ Exempt(t, q)'
    /\ \A p \in Players : \A q \in table'[p] :
        \/ q \in table[p]
        \/ \E e \in Players :
            <<p, q>> \in {<<t, e>>, <<e, t>>} /\ (e \in near'[t] \/ Exempt(t, e)')
    /\ \A q \in Players : Hiding(t, q)'

\* The others lose nothing by a step of t.
LEMMA OthersKeep ==
    ASSUME ViewInv, NEW t \in Players, Beside(t), NEW u \in Players \ {t}
    PROVE  HandlerInv(u)'
<1>1. /\ pc'[u] = pc[u] /\ res'[u] = res[u] /\ todo'[u] = todo[u]
      /\ greet'[u] = greet[u] /\ near[u] \subseteq near'[u]
      /\ \A q \in near'[u] : q \in near[u] \/ (q = t /\ pc'[t] # "new")
      /\ u \in objects' <=> u \in objects
      /\ u \in players' <=> u \in players
      /\ hasty \subseteq hasty' /\ overtaken \subseteq overtaken'
    BY DEF Beside
<1>2. \A q \in Players : pc[q] # "new" => pc'[q] # "new"
    BY DEF Beside
<1>3. \A q \in Players : Leaving(q) => Leaving(q)'
    BY DEF Beside, Leaving
<1>4. HandlerInv(u) /\ pc[u] \in Stages /\ res[u] \in Seq(Elements)
      /\ near[u] \in SUBSET Players
      /\ (Walking(u) => todo[u] \in Seq(Elements))
    BY DEF ViewInv, ViewTypes
<1>5. /\ \A e \in Range(res[u]) : e[1] \in Players
      /\ Walking(u) => \A e \in Range(todo[u]) : e[1] \in Players
    BY <1>4 DEF Range, Elements
<1>6. Listed(u)' /\ Shaped(u)'
    BY <1>1, <1>4 DEF HandlerInv, Listed, Shaped
<1>7. Acquainted(u)'
    BY <1>1, <1>2, <1>4, <1>5 DEF HandlerInv, Acquainted, Walking
<1>8. Safe(u)'
    <2>1. ASSUME NEW q \in Players, q \in objects, Holds(u, q)
          PROVE  q \in objects' \/ u \in overtaken'
        BY <2>1 DEF Beside
    <2>2. \A e \in Range(res[u]) : Holds(u, e[1])
        BY DEF Holds, Range
    <2>3. pc[u] \in {"introduce", "tell", "tell_self"} =>
            \A e \in Range(todo[u]) : Holds(u, e[1])
        BY DEF Holds, Range
    <2> QED
        BY <1>1, <1>4, <1>5, <2>1, <2>2, <2>3 DEF HandlerInv, Safe, Walking
<1>9. Updating(u)'
    BY <1>1, <1>3, <1>4, <1>5 DEF HandlerInv, Updating, Walking
<1>10. Greeting(u)'
    BY <1>1, <1>4 DEF HandlerInv, Greeting
<1> QED
    BY <1>6, <1>7, <1>8, <1>9, <1>10 DEF HandlerInv

\* A step whose handler answers for what it did keeps the invariant.
LEMMA StepKeeps ==
    ASSUME ViewInv, NEW t \in Players, Up, ViewTypes', Beside(t),
           HandlerInv(t)', Up' => Answers(t)
    PROVE  ViewInv'
<1>1. \A p \in Players : HandlerInv(p)'
    BY OthersKeep
<1>2. ASSUME Up', NEW p \in Players, NEW q \in Players
      PROVE  Exempt(p, q) => Exempt(p, q)'
    BY DEF Beside, Exempt, Leaving
<1>3. ASSUME Up', NEW p \in Players, NEW q \in Players
      PROVE  Covered(p, q) => Covered(p, q)' \/ Exempt(p, q)'
    <2>1. CASE p = t
        BY <1>3, <2>1 DEF Answers
    <2>2. CASE p # t
        BY <2>2 DEF Beside, Covered, Recalls
    <2> QED
        BY <2>1, <2>2
<1>4. ASSUME NEW p \in Players, NEW q \in Players
      PROVE  Exempt(p, q)' <=> Exempt(q, p)'
    BY DEF Exempt
<1>5. ASSUME NEW p \in Players, NEW q \in Players, q \in near'[p]
      PROVE  Covered(p, q)'
    BY <1>5 DEF Covered
<1>6. ASSUME Up', NEW p \in Players, NEW q \in Players
      PROVE  Tracked(p, q)'
    <2>1. SUFFICES ASSUME q \in table'[p]
                   PROVE  Exempt(p, q)' \/ Covered(p, q)' \/ Covered(q, p)'
        BY DEF Tracked
    <2>2. CASE q \in table[p]
        <3>1. Tracked(p, q)
            BY DEF ViewInv, PairInv
        <3> QED
            BY <1>2, <1>3, <1>4, <1>6, <2>2, <3>1 DEF Tracked
    <2>3. CASE q \notin table[p]
        <3>1. PICK e \in Players : <<p, q>> \in {<<t, e>>, <<e, t>>}
                                   /\ (e \in near'[t] \/ Exempt(t, e)')
            BY <1>6, <2>1, <2>3 DEF Answers
        <3> QED
            BY <1>4, <1>5, <3>1
    <2> QED
        BY <2>2, <2>3
<1>7. ASSUME Up', NEW p \in Players, NEW q \in Players
      PROVE  Hiding(p, q)'
    <2>1. CASE p = t
        BY <1>7, <2>1 DEF Answers
    <2>2. CASE p # t
        <3>1. pc'[p] = pc[p] /\ todo'[p] = todo[p] /\ near[p] \subseteq near'[p]
            BY <2>2 DEF Beside
        <3>2. SUFFICES ASSUME pc[p] = "tell_self", Head(todo[p]) = <<q, "out">>,
                              p \in table'[q]
                       PROVE  Exempt(p, q)' \/ q \in near'[p] \/ Covered(q, p)'
            BY <3>1 DEF Hiding
        <3>3. CASE p \in table[q]
            <4>1. Hiding(p, q)
                BY DEF ViewInv, PairInv
            <4> QED
                BY <1>2, <1>3, <1>4, <1>7, <3>1, <3>2, <3>3, <4>1 DEF Hiding
        <3>4. CASE p \notin table[q]
            <4>1. PICK e \in Players : <<q, p>> \in {<<t, e>>, <<e, t>>}
                                       /\ (e \in near'[t] \/ Exempt(t, e)')
                BY <1>7, <3>2, <3>4 DEF Answers
            <4> QED
                BY <1>4, <1>5, <2>2, <4>1
        <3> QED
            BY <3>3, <3>4
    <2> QED
        BY <2>1, <2>2
<1> QED
    BY <1>1, <1>6, <1>7 DEF ViewInv, PairInv

-----------------------------------------------------------------------------
(* Who sees whom: the steps of Process_Accept *)

\* A step outside the Notify functions that takes nobody from the near set of t
\* and shows nobody leaves nothing to answer for.
LEMMA QuietAnswers ==
    ASSUME ViewInv, NEW t \in Players,
           pc[t] \notin {"tell", "tell_self"}, pc'[t] # "tell_self",
           near[t] \subseteq near'[t],
           \A p \in Players : table'[p] \subseteq table[p]
    PROVE  Answers(t)
<1>1. \A q \in Players : Covered(t, q) => Covered(t, q)'
    BY DEF Covered, Recalls
<1>2. \A q \in Players : Hiding(t, q)'
    BY DEF Hiding
<1> QED
    BY <1>1, <1>2 DEF Answers

\* What the invariant says of the types of one player.
LEMMA TypesOf ==
    ASSUME ViewInv, NEW t \in Players
    PROVE  /\ pc[t] \in Stages /\ near[t] \in SUBSET Players
           /\ table[t] \in SUBSET Players /\ res[t] \in Seq(Elements)
           /\ greet[t] \in Seq(Players \X Players)
           /\ Walking(t) => todo[t] \in Seq(Elements)
           /\ \A e \in Range(res[t]) : e \in Elements /\ e[1] \in Players
           /\ Walking(t) => \A e \in Range(todo[t]) : e \in Elements /\ e[1] \in Players
           /\ \A g \in Range(greet[t]) : g \in Players \X Players
<1>1. /\ pc[t] \in Stages /\ near[t] \in SUBSET Players
      /\ table[t] \in SUBSET Players /\ res[t] \in Seq(Elements)
      /\ greet[t] \in Seq(Players \X Players)
      /\ Walking(t) => todo[t] \in Seq(Elements)
    BY DEF ViewInv, ViewTypes
<1>2. /\ \A e \in Range(res[t]) : e \in Elements
      /\ Walking(t) => \A e \in Range(todo[t]) : e \in Elements
      /\ \A g \in Range(greet[t]) : g \in Players \X Players
    BY <1>1 DEF Range
<1> QED
    BY <1>1, <1>2 DEF Elements

\* The player appears in both tables.
LEMMA LoginKeeps ==
    ASSUME ViewInv, NEW t \in Players, Login(t)
    PROVE  ViewInv'
<1>1. /\ pc[t] = "new" /\ Up
      /\ pc' = [pc EXCEPT ![t] = "login"]
      /\ players' = players \cup {t} /\ objects' = objects \cup {t}
      /\ UNCHANGED <<near, table, res, greet, overtaken, hasty>>
      /\ DOMAIN todo' = DOMAIN todo
      /\ \A u \in Players \ {t} : todo'[u] = todo[u]
    BY DEF Login, At, Goto, hist, ViewInv, ViewTypes
<1>2. /\ pc' \in [Players -> Stages] /\ pc'[t] = "login"
      /\ \A u \in Players \ {t} : pc'[u] = pc[u]
    BY <1>1 DEF ViewInv, ViewTypes, Stages
<1>3. HandlerInv(t)
    BY DEF ViewInv
<1>4. ViewTypes'
    BY <1>1, <1>2 DEF ViewInv, ViewTypes, Walking
<1>5. Beside(t)
    BY <1>1, <1>2 DEF Beside, Leaving
<1>6. HandlerInv(t)'
    <2>1. Listed(t)' /\ Safe(t)' /\ Updating(t)'
        BY <1>1, <1>2 DEF Listed, Safe, Updating
    <2>2. res[t] = <<>>
        BY <1>1, <1>3 DEF HandlerInv, Shaped
    <2>3. Shaped(t)'
        BY <1>1, <1>2, <2>2 DEF Shaped, Range
    <2>4. Acquainted(t)'
        BY <1>1, <1>2, <1>3, TypesOf DEF HandlerInv, Acquainted, Walking
    <2>5. Greeting(t)'
        BY <1>1, <1>2, <1>3 DEF HandlerInv, Greeting
    <2> QED
        BY <2>1, <2>3, <2>4, <2>5 DEF HandlerInv
<1>7. Answers(t)
    BY <1>1, <1>2, QuietAnswers
<1> QED
    BY <1>1, <1>4, <1>5, <1>6, <1>7, StepKeeps

\* What one scan adds to res, whichever handler it is of.
LEMMA ScanAdds ==
    ASSUME ViewInv, NEW t \in Players, NEW next, pc[t] \in Stages, next \in Stages,
           Scan(t, next), next # "new", ~Walking(t)
    PROVE  /\ res' \in [Players -> Seq(Elements)]
           /\ \A u \in Players \ {t} :
                res'[u] = res[u] /\ pc'[u] = pc[u] /\ todo'[u] = todo[u]
           /\ pc' \in [Players -> Stages] /\ pc'[t] \in {pc[t], next}
           /\ DOMAIN todo' = Players
           /\ pc'[t] = pc[t] \/ (pc'[t] = next /\ todo'[t] = res'[t])
           /\ \A e \in Range(res'[t]) :
                e \in Range(res[t]) \/ (e[1] \in players /\ e[2] = "in")
<1> DEFINE ids == Found(t, Head(todo[t]))
<1>1. ids \subseteq players /\ ids \in SUBSET Players
    BY DEF Found, ViewInv, ViewTypes
<1> HIDE DEF ids
<1>2. /\ Sighted(ids) \in Seq(Elements)
      /\ \A e \in Range(Sighted(ids)) : e[1] \in ids /\ e[2] = "in"
    BY <1>1, SightedElements
<1>3. /\ pc \in [Players -> Stages] /\ res \in [Players -> Seq(Elements)]
      /\ DOMAIN todo = Players
    BY DEF ViewInv, ViewTypes
<1>4. /\ res[t] \o Sighted(ids) \in Seq(Elements)
      /\ Range(res[t] \o Sighted(ids)) \subseteq Range(res[t]) \cup Range(Sighted(ids))
    BY <1>2, <1>3, Joined
<1>5. res' = [res EXCEPT ![t] = res[t] \o Sighted(ids)]
    BY DEF Scan, ids
<1>6. \/ \E s : todo' = [todo EXCEPT ![t] = s] /\ pc' = pc
      \/ todo' = [todo EXCEPT ![t] = res'[t]] /\ pc' = [pc EXCEPT ![t] = next]
    BY DEF Scan, Goto
<1>7. /\ res' \in [Players -> Seq(Elements)] /\ res'[t] = res[t] \o Sighted(ids)
      /\ \A u \in Players \ {t} : res'[u] = res[u]
    BY <1>3, <1>4, <1>5
<1>8. /\ \A u \in Players \ {t} : pc'[u] = pc[u] /\ todo'[u] = todo[u]
      /\ pc' \in [Players -> Stages] /\ DOMAIN todo' = Players
      /\ pc'[t] = pc[t] \/ (pc'[t] = next /\ todo'[t] = res'[t])
    BY <1>3, <1>6
<1>9. \A e \in Range(res'[t]) :
        e \in Range(res[t]) \/ (e[1] \in players /\ e[2] = "in")
    BY <1>1, <1>2, <1>4, <1>7
<1> QED
    BY <1>7, <1>8, <1>9

\* The scan of a login: it finds players that have logged in.
LEMMA LoginScanKeeps ==
    ASSUME ViewInv, NEW t \in Players, LoginScan(t)
    PROVE  ViewInv'
<1>1. /\ pc[t] = "login" /\ Up
      /\ UNCHANGED <<players, objects, near, table, greet, overtaken, hasty>>
    BY DEF LoginScan, At, hist, places
<1>2. /\ res' \in [Players -> Seq(Elements)]
      /\ \A u \in Players \ {t} :
            res'[u] = res[u] /\ pc'[u] = pc[u] /\ todo'[u] = todo[u]
      /\ pc' \in [Players -> Stages]
      /\ DOMAIN todo' = Players
      /\ pc'[t] = pc[t] \/ (pc'[t] = "enter" /\ todo'[t] = res'[t])
      /\ \A e \in Range(res'[t]) :
            e \in Range(res[t]) \/ (e[1] \in players /\ e[2] = "in")
    BY <1>1, ScanAdds DEF LoginScan, Stages, Walking
<1>3. HandlerInv(t) /\ \A q \in players : pc[q] # "new" /\ q \in Players
    BY DEF ViewInv, ViewTypes, HandlerInv, Listed
<1>4. pc'[t] \in {"login", "enter"} /\ pc'[t] # "new" /\ \A q \in Players : pc[q] # "new" => pc'[q] # "new"
    BY <1>1, <1>2
<1>5. ViewTypes'
    BY <1>1, <1>2, <1>4 DEF ViewInv, ViewTypes, Walking
<1>6. Beside(t)
    BY <1>1, <1>2, <1>4 DEF Beside, Leaving
<1>7. HandlerInv(t)'
    <2>1. Listed(t)' /\ Safe(t)' /\ Updating(t)'
        BY <1>1, <1>3, <1>4 DEF HandlerInv, Listed, Safe, Updating
    <2>2. Shaped(t)'
        BY <1>1, <1>2, <1>3, <1>4 DEF HandlerInv, Shaped
    <2>3. Acquainted(t)'
        BY <1>1, <1>2, <1>3, <1>4, TypesOf DEF HandlerInv, Acquainted, Walking
    <2>4. Greeting(t)'
        BY <1>1, <1>3, <1>4 DEF HandlerInv, Greeting
    <2> QED
        BY <2>1, <2>2, <2>3, <2>4 DEF HandlerInv
<1>8. Answers(t)
    BY <1>1, <1>4, QuietAnswers
<1> QED
    BY <1>1, <1>5, <1>6, <1>7, <1>8, StepKeeps

\* The new player enters the near set of one of those it has found.
LEMMA LoginIntroduceKeeps ==
    ASSUME ViewInv, NEW t \in Players, LoginIntroduce(t)
    PROVE  ViewInv'
<1>1. /\ pc[t] = "enter" /\ Up /\ todo[t] # <<>>
      /\ near' = [near EXCEPT ![Head(todo[t])[1]] = @ \cup {t}]
      /\ todo' = [todo EXCEPT ![t] = Tail(@)]
      /\ UNCHANGED <<players, objects, table, pc, res, greet, overtaken, hasty>>
    BY DEF LoginIntroduce, At, hist, places
<1>2. HandlerInv(t) /\ Walking(t) /\ todo[t] \in Seq(Elements) /\ DOMAIN todo = Players
    BY <1>1 DEF Walking, ViewInv, ViewTypes
<1>3. /\ todo'[t] \in Seq(Elements) /\ Range(todo'[t]) \subseteq Range(todo[t])
      /\ Head(todo[t])[1] \in Players
      /\ DOMAIN todo' = Players /\ \A u \in Players \ {t} : todo'[u] = todo[u]
    BY <1>1, <1>2, HeadAndTail DEF Elements
<1>4. /\ near' \in [Players -> SUBSET Players]
      /\ \A u \in Players : near[u] \subseteq near'[u] /\ near'[u] \subseteq near[u] \cup {t}
    BY <1>1, <1>3 DEF ViewInv, ViewTypes
<1>5. ViewTypes'
    BY <1>1, <1>3, <1>4 DEF ViewInv, ViewTypes, Walking
<1>6. Beside(t)
    BY <1>1, <1>3, <1>4 DEF Beside, Leaving
<1>7. HandlerInv(t)'
    <2>1. Listed(t)' /\ Safe(t)' /\ Updating(t)' /\ Shaped(t)'
        BY <1>1, <1>2 DEF HandlerInv, Listed, Safe, Updating, Shaped
    <2>2. Acquainted(t)'
        BY <1>1, <1>2, <1>3, <1>4 DEF HandlerInv, Acquainted
    <2>3. Greeting(t)'
        BY <1>1, <1>2, <1>4 DEF HandlerInv, Greeting
    <2> QED
        BY <2>1, <2>2, <2>3 DEF HandlerInv
<1>8. Answers(t)
    BY <1>1, <1>4, QuietAnswers
<1> QED
    BY <1>1, <1>5, <1>6, <1>7, <1>8, StepKeeps

\* It takes those it has found into its own near set.
LEMMA LoginInsertKeeps ==
    ASSUME ViewInv, NEW t \in Players, LoginInsert(t)
    PROVE  ViewInv'
<1>1. /\ pc[t] = "enter" /\ Up
      /\ near' = [near EXCEPT ![t] = @ \cup Ids(res[t])]
      /\ pc' = [pc EXCEPT ![t] = "sector"]
      /\ UNCHANGED <<players, objects, table, todo, res, greet, overtaken, hasty>>
    BY DEF LoginInsert, At, Goto, hist, places, regs
<1>2. HandlerInv(t)
    BY DEF ViewInv
<1>3. Ids(res[t]) \subseteq Players /\ \A q \in Ids(res[t]) : pc[q] # "new"
    BY <1>2, TypesOf DEF Ids, Range, HandlerInv, Acquainted
<1>4. /\ near' \in [Players -> SUBSET Players] /\ near'[t] = near[t] \cup Ids(res[t])
      /\ \A u \in Players \ {t} : near'[u] = near[u]
    BY <1>1, <1>3 DEF ViewInv, ViewTypes
<1>5. /\ pc' \in [Players -> Stages] /\ pc'[t] = "sector"
      /\ \A u \in Players \ {t} : pc'[u] = pc[u]
    BY <1>1 DEF ViewInv, ViewTypes, Stages
<1>6. ViewTypes'
    BY <1>1, <1>4, <1>5 DEF ViewInv, ViewTypes, Walking
<1>7. Beside(t)
    BY <1>1, <1>4, <1>5 DEF Beside, Leaving
<1>8. HandlerInv(t)'
    <2>1. Listed(t)' /\ Safe(t)' /\ Updating(t)' /\ Shaped(t)'
        BY <1>1, <1>2, <1>5 DEF HandlerInv, Listed, Safe, Updating, Shaped
    <2>2. Acquainted(t)'
        BY <1>1, <1>2, <1>3, <1>4, <1>5, TypesOf DEF HandlerInv, Acquainted, Walking
    <2>3. Greeting(t)'
        BY <1>1, <1>2, <1>4, <1>5 DEF HandlerInv, Greeting
    <2> QED
        BY <2>1, <2>2, <2>3 DEF HandlerInv
<1>9. Answers(t)
    BY <1>1, <1>4, <1>5, QuietAnswers
<1> QED
    BY <1>1, <1>6, <1>7, <1>8, <1>9, StepKeeps

\* It is entered in its sector; the packets of its welcome are about players in
\* its near set.
LEMMA LoginDoneKeeps ==
    ASSUME ViewInv, NEW t \in Players, LoginDone(t)
    PROVE  ViewInv'
<1>1. /\ pc[t] = "sector" /\ Up
      /\ greet' = [greet EXCEPT ![t] = Welcome(t, res[t])]
      /\ res' = [res EXCEPT ![t] = <<>>]
      /\ pc' = [pc EXCEPT ![t] = "idle"]
      /\ UNCHANGED <<players, objects, near, table, todo, overtaken, hasty>>
    BY DEF LoginDone, At, Goto, hist
<1>2. HandlerInv(t)
    BY DEF ViewInv
<1>3. /\ pc' \in [Players -> Stages] /\ pc'[t] = "idle"
      /\ res' \in [Players -> Seq(Elements)] /\ res'[t] = <<>>
      /\ \A u \in Players \ {t} : pc'[u] = pc[u] /\ res'[u] = res[u] /\ greet'[u] = greet[u]
    BY <1>1 DEF ViewInv, ViewTypes, Stages
<1>4. /\ Welcome(t, res[t]) \in Seq(Players \X Players)
      /\ \A g \in Range(Welcome(t, res[t])) :
            \E q \in Ids(res[t]) : g \in {<<t, q>>, <<q, t>>}
    BY WelcomeElements, TypesOf
<1>5. greet' \in [Players -> Seq(Players \X Players)] /\ greet'[t] = Welcome(t, res[t])
    BY <1>1, <1>4 DEF ViewInv, ViewTypes
<1>6. ViewTypes'
    BY <1>1, <1>3, <1>5 DEF ViewInv, ViewTypes, Walking
<1>7. Beside(t)
    BY <1>1, <1>3 DEF Beside, Leaving
<1>8. HandlerInv(t)'
    <2>1. Listed(t)' /\ Safe(t)' /\ Updating(t)' /\ Shaped(t)'
        BY <1>1, <1>2, <1>3 DEF HandlerInv, Listed, Safe, Updating, Shaped
    <2>2. Acquainted(t)'
        BY <1>1, <1>2, <1>3, TypesOf DEF HandlerInv, Acquainted, Walking, Range
    <2>3. Ids(res[t]) \subseteq near[t] /\ near[t] \subseteq Players
        BY <1>1, <1>2, TypesOf DEF HandlerInv, Greeting
    <2>4. Greeting(t)'
        BY <1>1, <1>3, <1>4, <1>5, <2>3 DEF Greeting
    <2> QED
        BY <2>1, <2>2, <2>4 DEF HandlerInv
<1>9. Answers(t)
    BY <1>1, <1>3, QuietAnswers
<1> QED
    BY <1>1, <1>6, <1>7, <1>8, <1>9, StepKeeps

\* A packet of the welcome.  A player that is told of more than it greets has
\* moved before.
LEMMA GreetKeeps ==
    ASSUME ViewInv, NEW t \in Players, Greet(t)
    PROVE  ViewInv'
<1> DEFINE x == Head(greet[t])[1]
           y == Head(greet[t])[2]
<1>1. /\ greet[t] # <<>> /\ Up /\ Show(x, y)
      /\ greet' = [greet EXCEPT ![t] = Tail(@)]
      /\ UNCHANGED <<players, objects, near, pc, todo, res, overtaken, hasty>>
    BY DEF Greet, hist, regs, places
<1>2. HandlerInv(t)
    BY DEF ViewInv
<1>3. /\ Tail(greet[t]) \in Seq(Players \X Players)
      /\ Range(Tail(greet[t])) \subseteq Range(greet[t])
      /\ Head(greet[t]) \in Range(greet[t]) /\ Head(greet[t]) \in Players \X Players
    BY <1>1, TypesOf, HeadAndTail
<1>4. PICK e \in Players : /\ <<x, y>> \in {<<t, e>>, <<e, t>>}
                           /\ t \in hasty \/ e \in near[t]
    BY <1>2, <1>3 DEF HandlerInv, Greeting
<1>5. x \in Players /\ y \in Players
    BY <1>3
<1> HIDE DEF x, y
<1>6. /\ table' \in [Players -> SUBSET Players]
      /\ \A p \in Players : \A q \in table'[p] : q \in table[p] \/ (p = x /\ q = y)
    BY <1>1, <1>5 DEF Show, ViewInv, ViewTypes
<1>7. /\ greet' \in [Players -> Seq(Players \X Players)] /\ greet'[t] = Tail(greet[t])
      /\ \A u \in Players \ {t} : greet'[u] = greet[u]
    BY <1>1, <1>3 DEF ViewInv, ViewTypes
<1>8. ViewTypes'
    BY <1>1, <1>6, <1>7 DEF ViewInv, ViewTypes, Walking
<1>9. Beside(t)
    BY <1>1, <1>7 DEF Beside, Leaving
<1>10. HandlerInv(t)'
    <2>1. Listed(t)' /\ Safe(t)' /\ Updating(t)' /\ Shaped(t)' /\ Acquainted(t)'
        BY <1>1, <1>2 DEF HandlerInv, Listed, Safe, Updating, Shaped, Acquainted, Walking, Leaving
    <2>2. Greeting(t)'
        BY <1>1, <1>2, <1>3, <1>7 DEF HandlerInv, Greeting
    <2> QED
        BY <2>1, <2>2 DEF HandlerInv
<1>11. Answers(t)
    <2>1. \A q \in Players : Covered(t, q) => Covered(t, q)'
        BY <1>1 DEF Covered, Recalls
    <2>2. \A p \in Players : \A q \in table'[p] :
            q \in table[p] \/ (<<p, q>> \in {<<t, e>>, <<e, t>>}
                               /\ (e \in near'[t] \/ Exempt(t, e)'))
        BY <1>1, <1>4, <1>6 DEF Exempt
    <2>3. \A q \in Players : Hiding(t, q)'
        BY <1>1, <1>2 DEF HandlerInv, Greeting, Hiding, Exempt
    <2> QED
        BY <2>1, <2>2, <2>3 DEF Answers
<1> QED
    BY <1>1, <1>8, <1>9, <1>10, <1>11, StepKeeps

-----------------------------------------------------------------------------
(* Who sees whom: the steps of a move *)

\* The steps of a move that neither look for others nor tell them anything.
LEMMA PlainStep ==
    ASSUME ViewInv, NEW t \in Players, NEW stage, Up,
           pc[t] \in {"idle", "moved", "leave", "tell"},
           pc[t] = "tell" => todo[t] = <<>>,
           stage \in {"idle", "moved", "leave", "scan"},
           pc' = [pc EXCEPT ![t] = stage],
           UNCHANGED <<players, objects, near, table, res, greet, overtaken>>,
           hasty' = hasty \/ hasty' = hasty \cup {t},
           pc[t] = "idle" /\ greet[t] # <<>> => t \in hasty',
           DOMAIN todo' = Players,
           \A u \in Players \ {t} : todo'[u] = todo[u]
    PROVE  ViewInv'
<1>1. /\ pc' \in [Players -> Stages] /\ pc'[t] = stage
      /\ \A u \in Players \ {t} : pc'[u] = pc[u]
    BY DEF ViewInv, ViewTypes, Stages
<1>2. HandlerInv(t) /\ res[t] = <<>>
    BY DEF ViewInv, HandlerInv, Shaped
<1>3. ViewTypes'
    BY <1>1 DEF ViewInv, ViewTypes, Walking
<1>4. Beside(t)
    BY <1>1 DEF Beside, Leaving
<1>5. HandlerInv(t)'
    <2>1. Listed(t)' /\ Safe(t)' /\ Updating(t)' /\ Shaped(t)'
        BY <1>1, <1>2 DEF HandlerInv, Listed, Safe, Updating, Shaped, Range
    <2>2. Acquainted(t)'
        BY <1>1, <1>2, TypesOf DEF HandlerInv, Acquainted, Walking
    <2>3. Greeting(t)'
        BY <1>1, <1>2 DEF HandlerInv, Greeting
    <2> QED
        BY <2>1, <2>2, <2>3 DEF HandlerInv
<1>6. Answers(t)
    <2>1. \A q \in Players : Covered(t, q) => Covered(t, q)'
        BY DEF Covered, Recalls
    <2>2. \A q \in Players : Hiding(t, q)'
        BY <1>1 DEF Hiding
    <2> QED
        BY <2>1, <2>2 DEF Answers
<1> QED
    BY <1>3, <1>4, <1>5, <1>6, StepKeeps

\* A player that moves before it was greeted is hasty from then on.
LEMMA MoveKeeps ==
    ASSUME ViewInv, NEW t \in Players, Move(t)
    PROVE  ViewInv'
<1>1. /\ pc[t] = "idle" /\ Up /\ pc' = [pc EXCEPT ![t] = "moved"]
      /\ UNCHANGED <<players, objects, near, table, todo, res, greet, overtaken>>
      /\ hasty' = IF greet[t] # <<>> THEN hasty \cup {t} ELSE hasty
    BY DEF Move, At, Goto
<1>2. DOMAIN todo' = Players
    BY <1>1 DEF ViewInv, ViewTypes
<1> QED
    BY <1>1, <1>2, PlainStep

\* A place that is refused.
LEMMA RefuseKeeps ==
    ASSUME ViewInv, NEW t \in Players, Refuse(t)
    PROVE  ViewInv'
<1>1. /\ pc[t] = "moved" /\ Up /\ pc' = [pc EXCEPT ![t] = "idle"]
      /\ UNCHANGED <<players, objects, near, table, todo, res, greet, overtaken, hasty>>
    BY DEF Refuse, At, Goto, regs, hist
<1>2. DOMAIN todo' = Players
    BY <1>1 DEF ViewInv, ViewTypes
<1> QED
    BY <1>1, <1>2, PlainStep

\* Into the new sector.
LEMMA EnterSectorKeeps ==
    ASSUME ViewInv, NEW t \in Players, EnterSector(t)
    PROVE  ViewInv'
<1>1. PICK stage \in {"scan", "leave"} : pc' = [pc EXCEPT ![t] = stage]
    BY DEF EnterSector, Goto
<1>2. /\ pc[t] = "moved" /\ Up
      /\ UNCHANGED <<players, objects, near, table, res, greet, overtaken, hasty>>
      /\ todo' = [todo EXCEPT ![t] = Scans[pos[t]]]
    BY DEF EnterSector, At, hist
<1>3. DOMAIN todo' = Players /\ \A u \in Players \ {t} : todo'[u] = todo[u]
    BY <1>2 DEF ViewInv, ViewTypes
<1> QED
    BY <1>1, <1>2, <1>3, PlainStep

\* Out of the old one.
LEMMA LeaveSectorKeeps ==
    ASSUME ViewInv, NEW t \in Players, LeaveSector(t)
    PROVE  ViewInv'
<1>1. /\ pc[t] = "leave" /\ Up /\ pc' = [pc EXCEPT ![t] = "scan"]
      /\ UNCHANGED <<players, objects, near, table, todo, res, greet, overtaken, hasty>>
    BY DEF LeaveSector, At, Goto, regs, hist
<1>2. DOMAIN todo' = Players
    BY <1>1 DEF ViewInv, ViewTypes
<1> QED
    BY <1>1, <1>2, PlainStep

\* Everybody was told.
LEMMA ToldKeeps ==
    ASSUME ViewInv, NEW t \in Players, Told(t)
    PROVE  ViewInv'
<1>1. /\ pc[t] = "tell" /\ todo[t] = <<>> /\ Up /\ pc' = [pc EXCEPT ![t] = "idle"]
      /\ UNCHANGED <<players, objects, near, table, todo, res, greet, overtaken, hasty>>
    BY DEF Told, At, Goto, hist, places
<1>2. DOMAIN todo' = Players
    BY <1>1 DEF ViewInv, ViewTypes
<1> QED
    BY <1>1, <1>2, PlainStep

\* The scan of a move.  Who is in players and not in objects is logging out, and
\* has overtaken the handler.
LEMMA MoveScanKeeps ==
    ASSUME ViewInv, NEW t \in Players, MoveScan(t)
    PROVE  ViewInv'
<1>1. /\ pc[t] = "scan" /\ Up
      /\ UNCHANGED <<players, objects, near, table, greet, hasty>>
    BY DEF MoveScan, At, places
<1>2. /\ res' \in [Players -> Seq(Elements)]
      /\ \A u \in Players \ {t} :
            res'[u] = res[u] /\ pc'[u] = pc[u] /\ todo'[u] = todo[u]
      /\ pc' \in [Players -> Stages]
      /\ DOMAIN todo' = Players
      /\ pc'[t] = pc[t] \/ (pc'[t] = "classify" /\ todo'[t] = res'[t])
      /\ \A e \in Range(res'[t]) :
            e \in Range(res[t]) \/ (e[1] \in players /\ e[2] = "in")
    BY <1>1, ScanAdds DEF MoveScan, Stages, Walking
<1>3. HandlerInv(t) /\ \A q \in players : pc[q] # "new" /\ q \in Players
    BY DEF ViewInv, ViewTypes, HandlerInv, Listed
<1>4. pc'[t] \in {"scan", "classify"} /\ \A q \in Players : pc[q] # "new" => pc'[q] # "new"
    BY <1>1, <1>2
<1>5. /\ overtaken \subseteq overtaken'
      /\ \A e \in Range(res'[t]) : e[1] \in players => e[1] \in objects \/ t \in overtaken'
    BY DEF MoveScan, Overtake, Range
<1>6. ViewTypes'
    BY <1>1, <1>2, <1>4 DEF ViewInv, ViewTypes, Walking
<1>7. Beside(t)
    BY <1>1, <1>2, <1>4, <1>5 DEF Beside, Leaving
<1>8. HandlerInv(t)'
    <2>1. Listed(t)' /\ Updating(t)'
        BY <1>1, <1>3, <1>4 DEF HandlerInv, Listed, Updating
    <2>2. Shaped(t)'
        BY <1>1, <1>2, <1>3, <1>4 DEF HandlerInv, Shaped
    <2>3. Acquainted(t)'
        BY <1>1, <1>2, <1>3, <1>4, TypesOf DEF HandlerInv, Acquainted, Walking
    <2>4. Safe(t)'
        BY <1>1, <1>2, <1>3, <1>4, <1>5 DEF HandlerInv, Safe
    <2>5. Greeting(t)'
        BY <1>1, <1>3, <1>4 DEF HandlerInv, Greeting
    <2> QED
        BY <2>1, <2>2, <2>3, <2>4, <2>5 DEF HandlerInv
<1>9. Answers(t)
    BY <1>1, <1>4, QuietAnswers
<1> QED
    BY <1>1, <1>6, <1>7, <1>8, <1>9, StepKeeps

\* The walk over the near set: who is out of sight is still a player, and who
\* does not exist has left.
LEMMA ClassifyKeeps ==
    ASSUME ViewInv, NEW t \in Players, Classify(t)
    PROVE  ViewInv'
<1> DEFINE found == Compared(res[t], near[t], players)
<1>1. /\ pc[t] = "classify" /\ Up
      /\ res' = [res EXCEPT ![t] = found]
      /\ todo' = [todo EXCEPT ![t] = res'[t]]
      /\ pc' = [pc EXCEPT ![t] = "introduce"]
      /\ UNCHANGED <<players, objects, near, table, greet, hasty>>
    BY DEF Classify, At, Goto, places
<1>2. HandlerInv(t) /\ \A q \in Players : HandlerInv(q)
    BY DEF ViewInv
<1>3. /\ found \in Seq(Elements)
      /\ \A e \in Range(found) :
            \/ e \in Range(res[t])
            \/ e[2] = "near" /\ e[1] \in players /\ e[1] \in Ids(res[t])
            \/ e[2] = "out" /\ e[1] \in near[t] /\ e[1] \in players /\ e[1] \notin Ids(res[t])
            \/ e[2] = "unexist" /\ e[1] \in near[t] /\ e[1] \notin players
    <2>1. res[t] \in Seq(Elements) /\ near[t] \in SUBSET Players
        BY TypesOf
    <2> QED
        BY <2>1, ComparedElements
<1> HIDE DEF found
<1>4. /\ pc' \in [Players -> Stages] /\ pc'[t] = "introduce"
      /\ res' \in [Players -> Seq(Elements)] /\ res'[t] = found
      /\ DOMAIN todo' = Players /\ todo'[t] = found
      /\ \A u \in Players \ {t} :
            res'[u] = res[u] /\ pc'[u] = pc[u] /\ todo'[u] = todo[u]
    BY <1>1, <1>3 DEF ViewInv, ViewTypes, Stages
<1>5. /\ overtaken \subseteq overtaken'
      /\ \A e \in Range(found) : e[1] \in players => e[1] \in objects \/ t \in overtaken'
    BY <1>4 DEF Classify, Overtake, Range
<1>6. /\ \A e \in Range(res[t]) : e[2] = "in" /\ e[1] \in Ids(res[t])
      /\ \A e \in Range(found) : e[1] \in Players
    BY <1>1, <1>2, <1>3 DEF HandlerInv, Shaped, Ids, Range, Elements
<1>7. /\ \A q \in near[t] : q \in Players /\ pc[q] # "new" /\ (q \notin players => Leaving(q))
      /\ \A q \in Ids(res[t]) : q \in Players /\ pc[q] # "new"
    <2>1. \A q \in near[t] : q \in Players /\ pc[q] # "new"
        BY <1>2, TypesOf DEF HandlerInv, Acquainted
    <2>2. \A q \in Players : pc[q] # "new" /\ q \notin players => Leaving(q)
        BY <1>2 DEF HandlerInv, Listed, Leaving
    <2>3. \A q \in Ids(res[t]) : q \in Players /\ pc[q] # "new"
        BY <1>2, TypesOf DEF HandlerInv, Acquainted, Ids, Range
    <2> QED
        BY <2>1, <2>2, <2>3
<1>8. /\ \A q \in Players : Leaving(q) => Leaving(q)'
      /\ \A q \in Players : pc[q] # "new" => pc'[q] # "new"
    BY <1>1, <1>4 DEF Leaving
<1>9. ViewTypes'
    BY <1>1, <1>3, <1>4 DEF ViewInv, ViewTypes, Walking
<1>10. Beside(t)
    BY <1>1, <1>4, <1>5, <1>8 DEF Beside
<1>11. HandlerInv(t)'
    <2>1. Listed(t)'
        BY <1>1, <1>2, <1>4 DEF HandlerInv, Listed
    <2>2. Shaped(t)'
        BY <1>3, <1>4, <1>6 DEF Shaped
    <2>3. Acquainted(t)'
        BY <1>1, <1>3, <1>4, <1>6, <1>7, <1>8 DEF Acquainted, Walking
    <2>4. Safe(t)'
        BY <1>1, <1>2, <1>3, <1>4, <1>5 DEF HandlerInv, Safe
    <2>5. Updating(t)'
        BY <1>3, <1>4, <1>6, <1>7, <1>8 DEF Updating
    <2>6. Greeting(t)'
        BY <1>1, <1>2, <1>4 DEF HandlerInv, Greeting
    <2> QED
        BY <2>1, <2>2, <2>3, <2>4, <2>5, <2>6 DEF HandlerInv
<1>12. Answers(t)
    BY <1>1, <1>4, QuietAnswers
<1> QED
    BY <1>1, <1>9, <1>10, <1>11, <1>12, StepKeeps

\* The player enters the near set of one who comes into sight; a look-up that
\* fails is one of somebody who logged out meanwhile.
LEMMA IntroduceKeeps ==
    ASSUME ViewInv, NEW t \in Players, Introduce(t)
    PROVE  ViewInv'
<1>1. PICK i \in DOMAIN todo[t] :
        /\ NextIn(todo[t], i)
        /\ \/ /\ todo[t][i][1] \in objects
              /\ near' = [near EXCEPT ![todo[t][i][1]] = @ \cup {t}] /\ pc' = pc
           \/ /\ todo[t][i][1] \notin objects
              /\ pc' = [pc EXCEPT ![t] = "crashed"] /\ near' = near
        /\ todo' = [todo EXCEPT ![t] = SubSeq(@, i + 1, Len(@))]
    BY DEF Introduce, Goto
<1>2. /\ pc[t] = "introduce" /\ Up
      /\ UNCHANGED <<players, objects, table, res, greet, overtaken, hasty>>
    BY DEF Introduce, At, hist, places
<1>3. HandlerInv(t) /\ Walking(t) /\ todo[t] \in Seq(Elements)
    BY <1>2, TypesOf DEF ViewInv, Walking
<1>4. /\ DOMAIN todo' = Players /\ todo'[t] \in Seq(Elements)
      /\ Range(todo'[t]) \subseteq Range(todo[t])
      /\ \A u \in Players \ {t} : todo'[u] = todo[u]
    BY <1>1, <1>3, Behind DEF ViewInv, ViewTypes
<1>5. todo[t][i] \in Range(todo[t]) /\ todo[t][i][2] = "in" /\ todo[t][i][1] \in Players
    <2>1. todo[t][i] \in Range(todo[t])
        BY DEF Range
    <2> QED
        BY <1>1, <1>3, <2>1, TypesOf DEF NextIn
<1>6. \/ pc' = pc
      \/ pc' = [pc EXCEPT ![t] = "crashed"] /\ t \in overtaken
    BY <1>1, <1>2, <1>3, <1>5 DEF HandlerInv, Safe
<1>7. /\ pc' \in [Players -> Stages]
      /\ pc'[t] = "introduce" \/ (pc'[t] = "crashed" /\ t \in overtaken)
      /\ \A u \in Players \ {t} : pc'[u] = pc[u]
    BY <1>2, <1>6 DEF ViewInv, ViewTypes, Stages
<1>8. /\ near' \in [Players -> SUBSET Players]
      /\ \A u \in Players : near[u] \subseteq near'[u] /\ near'[u] \subseteq near[u] \cup {t}
    <2>1. near \in [Players -> SUBSET Players]
        BY DEF ViewInv, ViewTypes
    <2>2. PICK q \in Players : near' = [near EXCEPT ![q] = @ \cup {t}] \/ near' = near
        BY <1>1, <1>5
    <2> QED
        BY <2>1, <2>2
<1>9. ViewTypes'
    BY <1>2, <1>4, <1>7, <1>8 DEF ViewInv, ViewTypes, Walking
<1>10. Beside(t)
    BY <1>2, <1>4, <1>7, <1>8 DEF Beside, Leaving
<1>11. HandlerInv(t)'
    <2>1. Listed(t)' /\ Shaped(t)'
        BY <1>2, <1>3, <1>7 DEF HandlerInv, Listed, Shaped
    <2>2. Acquainted(t)'
        <3>1. \A q \in Players : pc[q] # "new" => pc'[q] # "new"
            BY <1>2, <1>7
        <3> QED
            BY <1>2, <1>3, <1>4, <1>7, <1>8, <3>1, TypesOf DEF HandlerInv, Acquainted, Walking
    <2>3. Safe(t)'
        BY <1>2, <1>3, <1>4, <1>7 DEF HandlerInv, Safe
    <2>4. Updating(t)'
        <3>1. \A q \in Players : Leaving(q) => Leaving(q)'
            BY <1>2, <1>7 DEF Leaving
        <3> QED
            BY <1>2, <1>3, <1>7, <3>1, TypesOf DEF HandlerInv, Updating
    <2>5. Greeting(t)'
        BY <1>2, <1>3, <1>7, <1>8 DEF HandlerInv, Greeting
    <2> QED
        BY <2>1, <2>2, <2>3, <2>4, <2>5 DEF HandlerInv
<1>12. Answers(t)
    BY <1>2, <1>7, <1>8, QuietAnswers
<1> QED
    BY <1>2, <1>9, <1>10, <1>11, <1>12, StepKeeps

\* Whom Update drops from the near set is recalled, or has left; whom it takes
\* in stays, or has left.
LEMMA UpdateKeeps ==
    ASSUME ViewInv, NEW t \in Players, Update(t)
    PROVE  ViewInv'
<1>1. /\ pc[t] = "introduce" /\ Up
      /\ near' = [near EXCEPT ![t] = Updated(@, res[t])]
      /\ todo' = [todo EXCEPT ![t] = res[t]]
      /\ res' = [res EXCEPT ![t] = <<>>]
      /\ pc' = [pc EXCEPT ![t] = "tell"]
      /\ UNCHANGED <<players, objects, table, greet, overtaken, hasty>>
    BY DEF Update, At, Goto, hist, places
<1>2. HandlerInv(t) /\ res[t] \in Seq(Elements) /\ near[t] \in SUBSET Players
      /\ \A e \in Range(res[t]) : e \in Elements
    BY TypesOf DEF ViewInv
<1>3. /\ \A q \in near[t] :
            \/ q \in Updated(near[t], res[t])
            \/ \E e \in Range(res[t]) : e[1] = q /\ e[2] \in {"out", "unexist"}
      /\ \A q \in Updated(near[t], res[t]) :
            q \in near[t] \/ \E e \in Range(res[t]) : e[1] = q
      /\ \A e \in Range(res[t]) : e[2] = "in" =>
            \/ e[1] \in Updated(near[t], res[t])
            \/ \E f \in Range(res[t]) : f[1] = e[1] /\ f[2] \in {"out", "unexist"}
    BY DEF Updated, Range
<1>4. /\ \A q \in near[t] :
            q \in Updated(near[t], res[t]) \/ <<q, "out">> \in Range(res[t]) \/ Leaving(q)
      /\ \A e \in Range(res[t]) : e[2] = "in" =>
            e[1] \in Updated(near[t], res[t]) \/ Leaving(e[1])
    <2>1. \A e \in Range(res[t]) : e[2] = "unexist" => Leaving(e[1])
        BY <1>1, <1>2 DEF HandlerInv, Updating
    <2>2. \A e, f \in Range(res[t]) : e[2] = "out" /\ f[2] = "in" => e[1] # f[1]
        BY <1>1, <1>2 DEF HandlerInv, Shaped
    <2>3. \A e \in Range(res[t]) : e = <<e[1], e[2]>>
        BY <1>2 DEF Elements
    <2>4. ASSUME NEW q \in near[t], q \notin Updated(near[t], res[t])
          PROVE  <<q, "out">> \in Range(res[t]) \/ Leaving(q)
        <3>1. PICK e \in Range(res[t]) : e[1] = q /\ e[2] \in {"out", "unexist"}
            BY <1>3, <2>4
        <3> QED
            BY <2>1, <2>3, <3>1
    <2>5. ASSUME NEW e \in Range(res[t]), e[2] = "in", e[1] \notin Updated(near[t], res[t])
          PROVE  Leaving(e[1])
        <3>1. PICK f \in Range(res[t]) : f[1] = e[1] /\ f[2] \in {"out", "unexist"}
            BY <1>3, <2>5
        <3> QED
            BY <2>1, <2>2, <2>5, <3>1
    <2> QED
        BY <2>4, <2>5
<1>5. \A e \in Range(res[t]) : e[1] \in Players /\ pc[e[1]] # "new"
    BY <1>2, TypesOf DEF HandlerInv, Acquainted
<1>6. /\ near' \in [Players -> SUBSET Players] /\ near'[t] = Updated(near[t], res[t])
      /\ \A u \in Players \ {t} : near'[u] = near[u]
    BY <1>1, <1>2, <1>3, <1>5 DEF ViewInv, ViewTypes
<1>7. /\ pc' \in [Players -> Stages] /\ pc'[t] = "tell"
      /\ res' \in [Players -> Seq(Elements)] /\ res'[t] = <<>>
      /\ DOMAIN todo' = Players /\ todo'[t] = res[t]
      /\ \A u \in Players \ {t} :
            res'[u] = res[u] /\ pc'[u] = pc[u] /\ todo'[u] = todo[u]
    BY <1>1 DEF ViewInv, ViewTypes, Stages
<1>8. /\ \A q \in Players : Leaving(q) => Leaving(q)'
      /\ \A q \in Players : pc[q] # "new" => pc'[q] # "new"
    BY <1>1, <1>7 DEF Leaving
<1>9. ViewTypes'
    BY <1>1, <1>2, <1>6, <1>7 DEF ViewInv, ViewTypes, Walking
<1>10. Beside(t)
    BY <1>1, <1>6, <1>7, <1>8 DEF Beside
<1>11. HandlerInv(t)'
    <2>1. Listed(t)' /\ Shaped(t)'
        BY <1>1, <1>2, <1>7 DEF HandlerInv, Listed, Shaped, Range
    <2>2. Acquainted(t)'
        <3>1. ASSUME NEW q \in near'[t]
              PROVE  q \in Players /\ pc[q] # "new"
            <4>1. q \in near[t] \/ \E e \in Range(res[t]) : e[1] = q
                BY <1>3, <1>6
            <4>2. \A x \in near[t] : x \in Players /\ pc[x] # "new"
                BY <1>2 DEF HandlerInv, Acquainted
            <4> QED
                BY <1>5, <4>1, <4>2
        <3>2. \A e \in Range(res'[t]) : FALSE
            BY <1>7 DEF Range
        <3> QED
            BY <1>5, <1>7, <1>8, <3>1, <3>2 DEF Acquainted
    <2>3. Safe(t)'
        BY <1>1, <1>2, <1>7 DEF HandlerInv, Safe
    <2>4. Updating(t)'
        <3>1. \A e \in Range(res[t]) : e[2] = "unexist" => Leaving(e[1])
            BY <1>1, <1>2 DEF HandlerInv, Updating
        <3> QED
            BY <1>4, <1>5, <1>6, <1>7, <1>8, <3>1 DEF Updating
    <2>5. Greeting(t)'
        BY <1>1, <1>2, <1>6, <1>7 DEF HandlerInv, Greeting, Range
    <2> QED
        BY <2>1, <2>2, <2>3, <2>4, <2>5 DEF HandlerInv
<1>12. Answers(t)
    <2>1. ASSUME NEW q \in Players, Covered(t, q)
          PROVE  Covered(t, q)' \/ Exempt(t, q)'
        <3>1. q \in near[t]
            BY <1>1, <2>1 DEF Covered, Recalls
        <3>2. CASE <<q, "out">> \in Range(res[t])
            BY <1>7, <3>2 DEF Covered, Recalls, Range
        <3> QED
            BY <1>4, <1>6, <1>8, <3>1, <3>2 DEF Covered, Exempt
    <2>2. \A q \in Players : Hiding(t, q)'
        BY <1>7 DEF Hiding
    <2> QED
        BY <1>1, <2>1, <2>2 DEF Answers
<1> QED
    BY <1>1, <1>9, <1>10, <1>11, <1>12, StepKeeps

-----------------------------------------------------------------------------
(* Who sees whom: the steps of the Notify functions *)

\* The elements of a handler that tells, and what becomes of HandlerInv and the
\* types when it goes on to the second packet, to the next element, or crashes.
LEMMA TellingKeeps ==
    ASSUME ViewInv, NEW t \in Players, pc[t] \in {"tell", "tell_self"},
           todo[t] # <<>>,
           pc' = [pc EXCEPT ![t] = pc'[t]],
           pc'[t] \in {"tell", "tell_self", "crashed"},
           pc'[t] = "crashed" => t \in overtaken,
           \/ todo' = todo
           \/ pc'[t] # "tell_self" /\ todo' = [todo EXCEPT ![t] = Tail(@)],
           table' \in [Players -> SUBSET Players],
           UNCHANGED <<players, objects, near, res, greet, overtaken, hasty>>
    PROVE  /\ ViewTypes' /\ Beside(t) /\ HandlerInv(t)'
           /\ Range(todo'[t]) \subseteq Range(todo[t])
           /\ \A u \in Players \ {t} : pc'[u] = pc[u] /\ todo'[u] = todo[u]
           /\ \A e \in Range(todo[t]) : e = Head(todo[t]) \/ e \in Range(todo'[t])
           /\ \A q \in Players : Leaving(q) => Leaving(q)'
<1>1. HandlerInv(t) /\ Walking(t) /\ todo[t] \in Seq(Elements)
    BY TypesOf DEF ViewInv, Walking
<1>2. /\ Tail(todo[t]) \in Seq(Elements) /\ Range(Tail(todo[t])) \subseteq Range(todo[t])
      /\ \A e \in Range(todo[t]) : e = Head(todo[t]) \/ e \in Range(Tail(todo[t]))
    BY <1>1, HeadAndTail
<1>3. /\ DOMAIN todo' = Players /\ todo'[t] \in Seq(Elements)
      /\ Range(todo'[t]) \subseteq Range(todo[t])
      /\ \A e \in Range(todo[t]) : e = Head(todo[t]) \/ e \in Range(todo'[t])
      /\ \A u \in Players \ {t} : todo'[u] = todo[u]
    BY <1>1, <1>2 DEF ViewInv, ViewTypes
<1>4. pc'[t] = "tell_self" => todo'[t] # <<>>
    OBVIOUS
<1>5. /\ pc' \in [Players -> Stages]
      /\ \A u \in Players \ {t} : pc'[u] = pc[u]
    <2>1. pc \in [Players -> Stages]
        BY DEF ViewInv, ViewTypes
    <2>2. pc'[t] \in Stages
        BY DEF Stages
    <2>3. pc' = [u \in Players |-> IF u = t THEN pc'[t] ELSE pc[u]]
        BY <2>1
    <2> QED
        BY <2>1, <2>2, <2>3
<1>6. /\ \A q \in Players : Leaving(q) => Leaving(q)'
      /\ \A q \in Players : pc[q] # "new" => pc'[q] # "new"
    BY <1>5 DEF Leaving
<1>7. ViewTypes'
    BY <1>3, <1>5 DEF ViewInv, ViewTypes, Walking
<1>8. Beside(t)
    BY <1>3, <1>5, <1>6 DEF Beside
<1>9. HandlerInv(t)'
    <2>1. Listed(t)' /\ Shaped(t)'
        BY <1>1, <1>4, <1>5 DEF HandlerInv, Listed, Shaped
    <2>2. Acquainted(t)'
        BY <1>1, <1>3, <1>5, <1>6, TypesOf DEF HandlerInv, Acquainted
    <2>3. Safe(t)'
        BY <1>1, <1>3, <1>5 DEF HandlerInv, Safe
    <2>4. Updating(t)'
        BY <1>1, <1>3, <1>5, <1>6, TypesOf DEF HandlerInv, Updating
    <2>5. Greeting(t)'
        BY <1>1, <1>5 DEF HandlerInv, Greeting
    <2> QED
        BY <2>1, <2>2, <2>3, <2>4, <2>5 DEF HandlerInv
<1> QED
    BY <1>3, <1>5, <1>6, <1>7, <1>8, <1>9

\* The element a handler is at: what the invariant says of the other player.
LEMMA ElementOf ==
    ASSUME ViewInv, NEW t \in Players, pc[t] \in {"tell", "tell_self"}, todo[t] # <<>>
    PROVE  /\ Head(todo[t]) \in Elements /\ Head(todo[t])[1] \in Players
           /\ Head(todo[t])[2] = "in" =>
                Head(todo[t])[1] \in near[t] \/ Leaving(Head(todo[t])[1])
           /\ Head(todo[t])[1] \notin objects => Leaving(Head(todo[t])[1])
           /\ Head(todo[t])[1] \notin objects /\ Head(todo[t])[2] # "unexist" =>
                t \in overtaken
           /\ t \in objects
<1>1. HandlerInv(t) /\ Walking(t) /\ todo[t] \in Seq(Elements)
    BY TypesOf DEF ViewInv, Walking
<1>2. Head(todo[t]) \in Range(todo[t]) /\ Head(todo[t]) \in Elements
    BY <1>1, HeadAndTail
<1>3. Head(todo[t])[1] \in Players
    BY <1>2 DEF Elements
<1>4. \A q \in Players : q \notin objects /\ pc[q] # "new" => Leaving(q)
    BY DEF ViewInv, HandlerInv, Listed, Leaving
<1>5. pc[Head(todo[t])[1]] # "new"
    BY <1>1, <1>2 DEF HandlerInv, Acquainted
<1>6. /\ Head(todo[t])[2] = "in" =>
            Head(todo[t])[1] \in near[t] \/ Leaving(Head(todo[t])[1])
      /\ Head(todo[t])[1] \notin objects /\ Head(todo[t])[2] # "unexist" =>
            t \in overtaken
      /\ t \in objects
    BY <1>1, <1>2 DEF HandlerInv, Updating, Safe, Listed
<1> QED
    BY <1>2, <1>3, <1>4, <1>5, <1>6

\* The first packet of an element, or none if the other one is gone or was near
\* before.
LEMMA TellKeeps ==
    ASSUME ViewInv, NEW t \in Players, Tell(t)
    PROVE  ViewInv'
<1> DEFINE q    == Head(todo[t])[1]
           kind == Head(todo[t])[2]
<1>1. /\ pc[t] = "tell" /\ Up /\ todo[t] # <<>>
      /\ UNCHANGED <<players, objects, near, res, greet, overtaken, hasty>>
    BY DEF Tell, At, hist, places
<1>2. /\ Head(todo[t]) \in Elements /\ q \in Players
      /\ kind = "in" => q \in near[t] \/ Leaving(q)
      /\ q \notin objects => Leaving(q)
      /\ q \notin objects /\ kind # "unexist" => t \in overtaken
    BY <1>1, ElementOf
<1>3. Head(todo[t]) = <<q, kind>>
    BY <1>2 DEF Elements
<1>4. table \in [Players -> SUBSET Players] /\ DOMAIN todo = Players
      /\ pc \in [Players -> Stages]
    BY DEF ViewInv, ViewTypes
<1>5. CASE kind = "unexist" /\ Goto(t, "tell_self") /\ UNCHANGED <<table, todo>>
    <2>0. pc' = [pc EXCEPT ![t] = pc'[t]] /\ pc'[t] = "tell_self"
        BY <1>4, <1>5 DEF Goto
    <2>1. ViewTypes' /\ Beside(t) /\ HandlerInv(t)'
        BY <1>1, <1>4, <1>5, <2>0, TellingKeeps
    <2>2. Answers(t)
        <3>1. \A r \in Players : Covered(t, r) => Covered(t, r)'
            BY <1>1, <1>5, <2>0 DEF Covered, Recalls
        <3>2. \A r \in Players : Hiding(t, r)'
            BY <1>3, <1>5 DEF Hiding
        <3> QED
            BY <1>5, <3>1, <3>2 DEF Answers
    <2> QED
        BY <1>1, <2>1, <2>2, StepKeeps
<1>6. CASE /\ kind # "unexist" /\ q \notin objects
           /\ IF how[t] = "move" THEN Goto(t, "crashed") ELSE UNCHANGED pc
           /\ todo' = [todo EXCEPT ![t] = Tail(@)]
           /\ UNCHANGED table
    <2>1. pc' = [pc EXCEPT ![t] = pc'[t]] /\ pc'[t] \in {"tell", "crashed"}
        BY <1>1, <1>4, <1>6 DEF Goto
    <2>2. /\ ViewTypes' /\ Beside(t) /\ HandlerInv(t)'
          /\ \A e \in Range(todo[t]) : e = Head(todo[t]) \/ e \in Range(todo'[t])
          /\ \A r \in Players : Leaving(r) => Leaving(r)'
        <3>1. t \in overtaken
            BY <1>2, <1>6
        <3>2. table' \in [Players -> SUBSET Players]
            BY <1>4, <1>6
        <3>3. todo' = [todo EXCEPT ![t] = Tail(@)]
            BY <1>6
        <3> HIDE DEF q, kind
        <3> QED
            BY <1>1, <2>1, <3>1, <3>2, <3>3, TellingKeeps
    <2>3. ASSUME Up' PROVE Answers(t)
        <3>1. pc'[t] = "tell"
            BY <2>1, <2>3 DEF Up
        <3>2. ASSUME NEW r \in Players, Covered(t, r)
              PROVE  Covered(t, r)' \/ Exempt(t, r)'
            <4>1. CASE <<r, "out">> \in Range(todo[t])
                <5>1. CASE <<r, "out">> = Head(todo[t])
                    BY <1>2, <1>6, <2>2, <5>1 DEF Exempt
                <5>2. CASE <<r, "out">> \in Range(todo'[t])
                    BY <3>1, <5>2 DEF Covered, Recalls, Range
                <5> QED
                    BY <2>2, <4>1, <5>1, <5>2
            <4>2. CASE r \in near[t]
                BY <1>1, <4>2 DEF Covered
            <4>3. r \in near[t] \/ <<r, "out">> \in Range(todo[t])
                BY <3>2 DEF Covered, Recalls, Range
            <4> QED
                BY <4>1, <4>2, <4>3
        <3>3. \A r \in Players : Hiding(t, r)'
            BY <3>1 DEF Hiding
        <3> QED
            BY <1>6, <3>2, <3>3 DEF Answers
    <2> QED
        BY <1>1, <2>2, <2>3, StepKeeps
<1>7. CASE /\ kind = "near" /\ q \in objects
           /\ todo' = [todo EXCEPT ![t] = Tail(@)]
           /\ UNCHANGED <<table, pc>>
    <2>1. pc' = [pc EXCEPT ![t] = pc'[t]] /\ pc'[t] = "tell"
        BY <1>1, <1>4, <1>7
    <2>2. /\ ViewTypes' /\ Beside(t) /\ HandlerInv(t)'
          /\ \A e \in Range(todo[t]) : e = Head(todo[t]) \/ e \in Range(todo'[t])
        BY <1>1, <1>4, <1>7, <2>1, TellingKeeps
    <2>3. Answers(t)
        <3>1. ASSUME NEW r \in Players, Covered(t, r)
              PROVE  Covered(t, r)'
            <4>1. CASE <<r, "out">> \in Range(todo[t])
                <5>1. <<r, "out">> \in Range(todo'[t])
                    BY <1>7, <2>2, <4>1
                <5> QED
                    BY <2>1, <5>1 DEF Covered, Recalls, Range
            <4>2. CASE r \in near[t]
                BY <1>1, <4>2 DEF Covered
            <4> QED
                BY <3>1, <4>1, <4>2 DEF Covered, Recalls, Range
        <3>2. \A r \in Players : Hiding(t, r)'
            BY <2>1 DEF Hiding
        <3> QED
            BY <1>7, <3>1, <3>2 DEF Answers
    <2> QED
        BY <1>1, <2>2, <2>3, StepKeeps
<1>8. CASE /\ kind \in {"in", "out"} /\ q \in objects
           /\ IF kind = "in" THEN Show(q, t) ELSE Hide(q, t)
           /\ Goto(t, "tell_self")
           /\ UNCHANGED todo
    <2>1. /\ table' \in [Players -> SUBSET Players]
          /\ \A a \in Players : \A b \in table'[a] :
                b \in table[a] \/ (a = q /\ b = t /\ kind = "in")
          /\ kind = "out" => t \notin table'[q]
        <3> HIDE DEF q, kind
        <3>1. CASE kind = "in"
            BY <1>2, <1>4, <1>8, <3>1 DEF Show
        <3>2. CASE kind = "out"
            BY <1>2, <1>4, <1>8, <3>2 DEF Hide
        <3> QED
            BY <1>8, <3>1, <3>2
    <2>0. pc' = [pc EXCEPT ![t] = pc'[t]] /\ pc'[t] = "tell_self"
        BY <1>4, <1>8 DEF Goto
    <2>2. /\ ViewTypes' /\ Beside(t) /\ HandlerInv(t)'
          /\ \A r \in Players : Leaving(r) => Leaving(r)'
        BY <1>1, <1>8, <2>0, <2>1, TellingKeeps
    <2>3. Answers(t)
        <3>1. \A r \in Players : Covered(t, r) => Covered(t, r)'
            BY <1>1, <1>8, <2>0 DEF Covered, Recalls
        <3>2. \A a \in Players : \A b \in table'[a] :
                \/ b \in table[a]
                \/ \E e \in Players :
                    <<a, b>> \in {<<t, e>>, <<e, t>>} /\ (e \in near'[t] \/ Exempt(t, e)')
            BY <1>1, <1>2, <2>1, <2>2 DEF Exempt
        <3>3. \A r \in Players : Hiding(t, r)'
            BY <1>8, <2>1 DEF Hiding
        <3> QED
            BY <3>1, <3>2, <3>3 DEF Answers
    <2> QED
        BY <1>1, <2>2, <2>3, StepKeeps
<1> QED
    BY <1>5, <1>6, <1>7, <1>8 DEF Tell

\* The second packet of an element.  After a SIGHT_OUT nothing is recalled any
\* more: the other's client shows t only for a reason of its own.
LEMMA TellSelfKeeps ==
    ASSUME ViewInv, NEW t \in Players, TellSelf(t)
    PROVE  ViewInv'
<1> DEFINE q    == Head(todo[t])[1]
           kind == Head(todo[t])[2]
<1>1. /\ pc[t] = "tell_self" /\ Up
      /\ IF kind = "in" THEN Show(t, q) ELSE Hide(t, q)
      /\ todo' = [todo EXCEPT ![t] = Tail(@)]
      /\ pc' = [pc EXCEPT ![t] = "tell"]
      /\ UNCHANGED <<players, objects, near, res, greet, overtaken, hasty>>
    BY DEF TellSelf, At, Goto, hist, places
<1>2. todo[t] # <<>>
    BY <1>1 DEF ViewInv, HandlerInv, Shaped
<1>3. /\ Head(todo[t]) \in Elements /\ q \in Players /\ t \in objects
      /\ kind = "in" => q \in near[t] \/ Leaving(q)
    BY <1>1, <1>2, ElementOf
<1>4. Head(todo[t]) = <<q, kind>>
    BY <1>3 DEF Elements
<1>5. table \in [Players -> SUBSET Players] /\ pc \in [Players -> Stages]
      /\ DOMAIN todo = Players
    BY DEF ViewInv, ViewTypes
<1>6. /\ table' \in [Players -> SUBSET Players]
      /\ \A a \in Players : \A b \in table'[a] :
            b \in table[a] \/ (a = t /\ b = q /\ kind = "in")
      /\ kind # "in" => q \notin table'[t]
    <2> HIDE DEF q, kind
    <2>1. CASE kind = "in"
        BY <1>1, <1>3, <1>5, <2>1 DEF Show
    <2>2. CASE kind # "in"
        BY <1>1, <1>3, <1>5, <2>2 DEF Hide
    <2> QED
        BY <2>1, <2>2
<1>7. pc' = [pc EXCEPT ![t] = pc'[t]] /\ pc'[t] = "tell"
    BY <1>1, <1>5
<1>8. /\ ViewTypes' /\ Beside(t) /\ HandlerInv(t)'
      /\ \A e \in Range(todo[t]) : e = Head(todo[t]) \/ e \in Range(todo'[t])
      /\ \A u \in Players \ {t} : pc'[u] = pc[u] /\ todo'[u] = todo[u]
      /\ \A r \in Players : Leaving(r) => Leaving(r)'
    BY <1>1, <1>2, <1>6, <1>7, TellingKeeps
<1>9. ASSUME NEW r \in Players, Covered(t, r), Head(todo[t]) # <<r, "out">>
      PROVE  Covered(t, r)'
    <2>1. CASE <<r, "out">> \in Range(todo[t])
        <3>1. <<r, "out">> \in Range(todo'[t])
            BY <1>8, <1>9, <2>1
        <3> QED
            BY <1>7, <3>1 DEF Covered, Recalls, Range
    <2>2. CASE r \in near[t]
        BY <1>1, <2>2 DEF Covered
    <2>3. r \in near[t] \/ <<r, "out">> \in Range(todo[t])
        BY <1>9 DEF Covered, Recalls, Range
    <2> QED
        BY <2>1, <2>2, <2>3
<1>10. CASE kind # "out"
    <2>1. \A r \in Players : Covered(t, r) => Covered(t, r)'
        BY <1>4, <1>9, <1>10
    <2>2. \A a \in Players : \A b \in table'[a] :
            \/ b \in table[a]
            \/ \E e \in Players :
                <<a, b>> \in {<<t, e>>, <<e, t>>} /\ (e \in near'[t] \/ Exempt(t, e)')
        BY <1>1, <1>3, <1>6, <1>8 DEF Exempt
    <2>3. \A r \in Players : Hiding(t, r)'
        BY <1>7 DEF Hiding
    <2>4. Answers(t)
        BY <2>1, <2>2, <2>3 DEF Answers
    <2> QED
        BY <1>1, <1>8, <2>4, StepKeeps
<1>11. CASE kind = "out"
    <2>1. \A p \in Players : HandlerInv(p)'
        BY <1>8, OthersKeep
    <2>2. \A a, b \in Players : Exempt(a, b) => Exempt(a, b)'
        BY <1>1, <1>8 DEF Exempt
    <2>3. ASSUME NEW a \in Players, NEW b \in Players, a # t \/ b # q, Covered(a, b)
          PROVE  Covered(a, b)'
        <3>1. CASE a = t
            BY <1>4, <1>9, <2>3, <3>1
        <3>2. CASE a # t
            BY <1>1, <1>8, <2>3, <3>2 DEF Covered, Recalls
        <3> QED
            BY <3>1, <3>2
    <2>4. \A a \in Players : \A b \in table'[a] : b \in table[a] /\ (a # t \/ b # q)
        BY <1>6, <1>11
    <2>5. \A a, b \in Players : Tracked(a, b) /\ Hiding(a, b)
        BY <1>1 DEF ViewInv, PairInv
    <2>6. ASSUME NEW a \in Players, NEW b \in Players, b \in table'[a]
          PROVE  Exempt(a, b)' \/ Covered(a, b)' \/ Covered(b, a)'
        <3>1. b \in table[a] /\ (a # t \/ b # q)
            BY <2>4, <2>6
        <3>2. CASE b = t /\ a = q
            <4>1. Exempt(t, q) \/ q \in near[t] \/ Covered(q, t)
                BY <1>1, <1>3, <1>4, <1>11, <2>5, <3>1, <3>2 DEF Hiding
            <4>2. CASE Exempt(t, q)
                BY <1>3, <2>2, <3>2, <4>2 DEF Exempt
            <4>3. CASE q \in near[t]
                BY <1>1, <3>2, <4>3 DEF Covered
            <4>4. CASE Covered(q, t)
                BY <2>3, <3>1, <3>2, <4>4
            <4> QED
                BY <4>1, <4>2, <4>3, <4>4
        <3>3. CASE b # t \/ a # q
            <4>1. Exempt(a, b) \/ Covered(a, b) \/ Covered(b, a)
                BY <2>5, <3>1 DEF Tracked
            <4> QED
                BY <2>2, <2>3, <3>1, <3>3, <4>1
        <3> QED
            BY <3>2, <3>3
    <2>7. ASSUME NEW a \in Players, NEW b \in Players
          PROVE  Hiding(a, b)'
        <3>1. SUFFICES ASSUME pc'[a] = "tell_self", Head(todo'[a]) = <<b, "out">>,
                              a \in table'[b]
                       PROVE  Exempt(a, b)' \/ b \in near'[a] \/ Covered(b, a)'
            BY DEF Hiding
        <3>2. a # t /\ pc[a] = "tell_self" /\ Head(todo[a]) = <<b, "out">>
            BY <1>7, <1>8, <3>1
        <3>3. a \in table[b] /\ (b # t \/ a # q)
            BY <2>4, <3>1
        <3>4. Exempt(a, b) \/ b \in near[a] \/ Covered(b, a)
            BY <2>5, <3>2, <3>3 DEF Hiding
        <3> QED
            BY <1>1, <2>2, <2>3, <3>3, <3>4
    <2> QED
        BY <1>8, <2>1, <2>6, <2>7 DEF ViewInv, PairInv, Tracked
<1> QED
    BY <1>10, <1>11

-----------------------------------------------------------------------------
(* Who sees whom: the end of a stream, and the theorems *)

\* The raw pointer goes first: whoever holds the player is overtaken.
LEMMA UnlistKeeps ==
    ASSUME ViewInv, NEW t \in Players, Unlist(t)
    PROVE  ViewInv'
<1>1. /\ pc[t] = "idle" /\ Up
      /\ objects' = objects \ {t}
      /\ overtaken' = overtaken \cup {u \in Others(t) : Holds(u, t)}
      /\ pc' = [pc EXCEPT ![t] = "unslot"]
      /\ UNCHANGED <<players, near, table, todo, res, greet, hasty>>
    BY DEF Unlist, At, Goto, regs
<1>2. /\ pc' \in [Players -> Stages] /\ pc'[t] = "unslot"
      /\ \A u \in Players \ {t} : pc'[u] = pc[u]
    BY <1>1 DEF ViewInv, ViewTypes, Stages
<1>3. HandlerInv(t) /\ \A q \in Players : pc[q] # "new" => pc'[q] # "new"
    BY <1>1, <1>2 DEF ViewInv
<1>4. ViewTypes'
    BY <1>1, <1>2 DEF ViewInv, ViewTypes, Walking
<1>5. Beside(t)
    BY <1>1, <1>2 DEF Beside, Leaving, Others
<1>6. HandlerInv(t)'
    <2>1. Listed(t)' /\ Safe(t)' /\ Updating(t)' /\ Shaped(t)'
        BY <1>1, <1>2, <1>3 DEF HandlerInv, Listed, Safe, Updating, Shaped
    <2>2. Acquainted(t)'
        BY <1>1, <1>2, <1>3, TypesOf DEF HandlerInv, Acquainted, Walking
    <2>3. Greeting(t)'
        BY <1>1, <1>2, <1>3 DEF HandlerInv, Greeting
    <2> QED
        BY <2>1, <2>2, <2>3 DEF HandlerInv
<1>7. Answers(t)
    BY <1>1, <1>2, QuietAnswers
<1> QED
    BY <1>1, <1>4, <1>5, <1>6, <1>7, StepKeeps

\* Then the shared one.
LEMMA UnslotKeeps ==
    ASSUME ViewInv, NEW t \in Players, Unslot(t)
    PROVE  ViewInv'
<1>1. /\ pc[t] = "unslot" /\ Up
      /\ players' = players \ {t}
      /\ pc' = [pc EXCEPT ![t] = "quit"]
      /\ UNCHANGED <<objects, near, table, todo, res, greet, overtaken, hasty>>
    BY DEF Unslot, At, Goto, regs, hist
<1>2. /\ pc' \in [Players -> Stages] /\ pc'[t] = "quit"
      /\ \A u \in Players \ {t} : pc'[u] = pc[u]
    BY <1>1 DEF ViewInv, ViewTypes, Stages
<1>3. HandlerInv(t) /\ \A q \in Players : pc[q] # "new" => pc'[q] # "new"
    BY <1>1, <1>2 DEF ViewInv
<1>4. ViewTypes'
    BY <1>1, <1>2 DEF ViewInv, ViewTypes, Walking
<1>5. Beside(t)
    BY <1>1, <1>2 DEF Beside, Leaving
<1>6. HandlerInv(t)'
    <2>1. Listed(t)' /\ Safe(t)' /\ Updating(t)' /\ Shaped(t)'
        BY <1>1, <1>2, <1>3 DEF HandlerInv, Listed, Safe, Updating, Shaped
    <2>2. Acquainted(t)'
        BY <1>1, <1>2, <1>3, TypesOf DEF HandlerInv, Acquainted, Walking
    <2>3. Greeting(t)'
        BY <1>1, <1>2, <1>3 DEF HandlerInv, Greeting
    <2> QED
        BY <2>1, <2>2, <2>3 DEF HandlerInv
<1>7. Answers(t)
    BY <1>1, <1>2, QuietAnswers
<1> QED
    BY <1>1, <1>4, <1>5, <1>6, <1>7, StepKeeps

\* Then the id leaves its sector, and the client is gone.
LEMMA QuitKeeps ==
    ASSUME ViewInv, NEW t \in Players, Quit(t)
    PROVE  ViewInv'
<1>1. /\ pc[t] = "quit" /\ Up
      /\ table' = [table EXCEPT ![t] = {}]
      /\ pc' = [pc EXCEPT ![t] = "out"]
      /\ UNCHANGED <<objects, players, near, todo, res, greet, overtaken, hasty>>
    BY DEF Quit, At, Goto, regs, hist
<1>2. /\ pc' \in [Players -> Stages] /\ pc'[t] = "out"
      /\ \A u \in Players \ {t} : pc'[u] = pc[u]
      /\ table' \in [Players -> SUBSET Players]
      /\ \A p \in Players : table'[p] \subseteq table[p]
    BY <1>1 DEF ViewInv, ViewTypes, Stages
<1>3. HandlerInv(t) /\ \A q \in Players : pc[q] # "new" => pc'[q] # "new"
    BY <1>1, <1>2 DEF ViewInv
<1>4. ViewTypes'
    BY <1>1, <1>2 DEF ViewInv, ViewTypes, Walking
<1>5. Beside(t)
    BY <1>1, <1>2 DEF Beside, Leaving
<1>6. HandlerInv(t)'
    <2>1. Listed(t)' /\ Safe(t)' /\ Updating(t)' /\ Shaped(t)'
        BY <1>1, <1>2, <1>3 DEF HandlerInv, Listed, Safe, Updating, Shaped
    <2>2. Acquainted(t)'
        BY <1>1, <1>2, <1>3, TypesOf DEF HandlerInv, Acquainted, Walking
    <2>3. Greeting(t)'
        BY <1>1, <1>2, <1>3 DEF HandlerInv, Greeting
    <2> QED
        BY <2>1, <2>2, <2>3 DEF HandlerInv
<1>7. Answers(t)
    BY <1>1, <1>2, QuietAnswers
<1> QED
    BY <1>1, <1>4, <1>5, <1>6, <1>7, StepKeeps

\* Nobody is there yet.
LEMMA InitView == Init => ViewInv
<1> SUFFICES ASSUME Init PROVE ViewInv
    OBVIOUS
<1>1. /\ pc = [p \in Players |-> "new"] /\ players = {} /\ objects = {}
      /\ near = [p \in Players |-> {}] /\ table = [p \in Players |-> {}]
      /\ todo = [p \in Players |-> <<>>] /\ res = [p \in Players |-> <<>>]
      /\ greet = [p \in Players |-> <<>>]
    BY DEF Init
<1>2. ViewTypes
    BY <1>1 DEF ViewTypes, Walking, Stages
<1>3. ASSUME NEW p \in Players PROVE HandlerInv(p)
    BY <1>1 DEF HandlerInv, Listed, Shaped, Acquainted, Safe, Updating, Greeting,
                Walking, Range
<1>4. PairInv
    BY <1>1 DEF PairInv, Tracked, Hiding
<1> QED
    BY <1>2, <1>3, <1>4 DEF ViewInv

\* A step of no handler.
LEMMA StutterKeeps ==
    ASSUME ViewInv, UNCHANGED vars
    PROVE  ViewInv'
<1>1. UNCHANGED <<players, objects, near, table, pc, todo, res, greet, overtaken, hasty>>
    BY DEF vars, places, regs, hist
<1>2. ViewTypes'
    BY <1>1 DEF ViewInv, ViewTypes, Walking
<1>3. ASSUME NEW p \in Players PROVE HandlerInv(p)'
    <2>1. HandlerInv(p)
        BY DEF ViewInv
    <2> QED
        BY <1>1, <2>1 DEF HandlerInv, Listed, Shaped, Acquainted, Safe, Updating,
                          Greeting, Walking, Leaving
<1>4. PairInv'
    BY <1>1 DEF ViewInv, PairInv, Up, Tracked, Hiding, Exempt, Covered, Recalls, Leaving
<1> QED
    BY <1>2, <1>3, <1>4 DEF ViewInv

\* Every step of every handler keeps the invariant.
LEMMA NextView == ViewInv /\ [Next]_vars => ViewInv'
<1> SUFFICES ASSUME ViewInv, [Next]_vars PROVE ViewInv'
    OBVIOUS
<1>1. ASSUME NEW p \in Players,
             \/ Login(p) \/ LoginScan(p) \/ LoginIntroduce(p) \/ LoginInsert(p)
             \/ LoginDone(p) \/ Greet(p)
      PROVE  ViewInv'
    BY <1>1, LoginKeeps, LoginScanKeeps, LoginIntroduceKeeps, LoginInsertKeeps,
       LoginDoneKeeps, GreetKeeps
<1>2. ASSUME NEW p \in Players,
             \/ Move(p) \/ Refuse(p) \/ EnterSector(p) \/ LeaveSector(p)
             \/ MoveScan(p) \/ Classify(p) \/ Introduce(p) \/ Update(p)
      PROVE  ViewInv'
    BY <1>2, MoveKeeps, RefuseKeeps, EnterSectorKeeps, LeaveSectorKeeps,
       MoveScanKeeps, ClassifyKeeps, IntroduceKeeps, UpdateKeeps
<1>3. ASSUME NEW p \in Players,
             \/ Tell(p) \/ TellSelf(p) \/ Told(p)
             \/ Unlist(p) \/ Unslot(p) \/ Quit(p)
      PROVE  ViewInv'
    BY <1>3, TellKeeps, TellSelfKeeps, ToldKeeps, UnlistKeeps, UnslotKeeps, QuitKeeps
<1> QED
    BY <1>1, <1>2, <1>3, StutterKeeps DEF Next

\* Near sets, tables, vectors and packets on their way agree in every reachable
\* state, for any number of players and any map.
THEOREM ViewInductive == Spec => []ViewInv
<1> QED
    BY InitView, NextView, PTL DEF Spec

\* The server uses a null pointer only in a handler that another player's logout
\* has overtaken: ids that stayed behind in near sets are harmless.
THEOREM NullsNeedLogout == Spec => []NullNeedsLogout
<1>1. ViewInv => NullNeedsLogout
    BY DEF ViewInv, HandlerInv, Safe, NullNeedsLogout
<1> QED
    BY <1>1, ViewInductive, PTL

\* What a client shows is in one of the two near sets, or about to be recalled,
\* as long as the server is up and both players are logged in.
THEOREM EntriesStayTracked == Spec => []EntryTracked
<1>1. ASSUME ViewInv PROVE EntryTracked
    <2>1. SUFFICES ASSUME NEW p \in Players, NEW q \in table[p], Up, q \in Players,
                          {p, q} \cap hasty = {}, ~Leaving(p), ~Leaving(q)
                   PROVE  \/ q \in near[p] \/ p \in near[q]
                          \/ Recalls(p, q) \/ Recalls(q, p)
        BY <1>1, TypesOf DEF EntryTracked
    <2>2. Tracked(p, q)
        BY <1>1, <2>1 DEF ViewInv, PairInv
    <2> QED
        BY <2>1, <2>2 DEF Tracked, Exempt, Covered
<1> QED
    BY <1>1, ViewInductive, PTL
=============================================================================
