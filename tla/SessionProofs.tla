---------------------------- MODULE SessionProofs ----------------------------
(***************************************************************************)
(* The safety of the id pool, of the handlers, of the accepted sockets, of *)
(* the two tables, of the removal of players and of the sectors, for every *)
(* number of threads, connections, ids and sectors; and, in the last       *)
(* section, that a scan of the sectors finds what is close, for every map  *)
(* and every view.                                                         *)
(***************************************************************************)
EXTENDS Session, NearSector, TLAPS

\* The accept handler has not yet bound its socket to the port.
Accepting(t) == pc[t] \in {"pop", "login", "fetch", "publish", "bind"}

\* What the registers of a thread say at each place of its handler.
RegsInv ==
    \A t \in Threads :
        /\ Accepting(t) =>
            /\ conn[t] \in Conns
            /\ conn[t] # acceptsocket
            /\ sock[conn[t]] \notin {"unused", "listening"}
        /\ pc[t] \in {"pop", "login"} => recv[conn[t]] = "none"
        /\ pc[t] \in {"login", "fetch", "publish", "bind"} => key[t] \in Ids
        /\ pc[t] \in {"fetch", "publish", "bind"} =>
            /\ idOf[conn[t]] = key[t]
            /\ recv[conn[t]] \in {"unbound", "dead"}
        /\ Receiving(t) =>
            /\ conn[t] \in Conns
            /\ recv[conn[t]] = "busy"
            /\ key[t] = idOf[conn[t]]
            /\ me[t] = conn[t]
        /\ pc[t] \in {"locate", "enter"} => me[t] \in Conns
        /\ pc[t] = "moved" => at[t] \in Sectors
        /\ pc[t] \in {"leave", "push"} => players[key[t]] = NoConn
        /\ me[t] \in Conns => idOf[me[t]] \in Ids

\* A notification in progress has a target that was given an id.
SendInv ==
    \A t \in Threads :
        pc[t] \in SendStage => tgt[t] \in Conns /\ idOf[tgt[t]] \in Ids

\* Two threads never handle the same accept or the same receive.
PairInv ==
    \A t, u \in Threads :
        t # u =>
            /\ Accepting(t) /\ Accepting(u) => conn[t] # conn[u]
            /\ Receiving(t) /\ Receiving(u) => conn[t] # conn[u]

\* No receive was posted on a socket that waits for its client.
SockInv ==
    /\ \A c \in Conns : sock[c] \in {"unused", "listening"} => recv[c] = "none"
    /\ acceptsocket \in Conns =>
        recv[acceptsocket] = "none" /\ sock[acceptsocket] # "unused"
    /\ connected =>
        acceptsocket \in Conns /\ sock[acceptsocket] # "listening"

\* The tables name players that hold the id of their slot.
SlotInv ==
    /\ \A i \in Ids : players[i] \in Conns =>
            idOf[players[i]] = i /\ Holds(players[i])
    /\ \A i \in Ids : objects[i] \in Conns => idOf[objects[i]] \in Ids
    /\ \A c \in Conns : Holds(c) => idOf[c] \in Ids

IInv ==
    /\ TypeOK /\ RegsInv /\ SendInv /\ PairInv /\ SockInv /\ SlotInv
    /\ IdHeldOnce /\ IdNotForgotten

-----------------------------------------------------------------------------
\* Taking the first id off the queue.
LEMMA HeadTail ==
    ASSUME NEW S, NEW q \in Seq(S), q # <<>>
    PROVE  /\ Len(q) \in Nat /\ Len(q) > 0
           /\ Head(q) = q[1] /\ Head(q) \in S
           /\ Tail(q) \in Seq(S) /\ Len(Tail(q)) = Len(q) - 1
           /\ \A n \in 1 .. Len(q) - 1 : Tail(q)[n] = q[n + 1]
    OBVIOUS

\* Putting an id at the end of the queue.
LEMMA AppendOne ==
    ASSUME NEW S, NEW q \in Seq(S), NEW e \in S
    PROVE  /\ Len(q) \in Nat
           /\ Append(q, e) \in Seq(S) /\ Len(Append(q, e)) = Len(q) + 1
           /\ \A n \in 1 .. Len(q) : Append(q, e)[n] = q[n]
           /\ Append(q, e)[Len(q) + 1] = e
    OBVIOUS

\* The ids stay where they are when no id enters or leaves the pool and no
\* holder changes.
LEMMA PoolFrame ==
    ASSUME IdHeldOnce, IdNotForgotten, UNCHANGED <<pool, idOf>>,
           \A c \in Conns : Holds(c)' = Holds(c),
           \A t \in Threads : \A i : Popped(t, i)' = Popped(t, i)
    PROVE  IdHeldOnce' /\ IdNotForgotten'
<1>1. \A i : InPool(i)' = InPool(i)
    BY DEF InPool
<1>2. IdHeldOnce'
    BY <1>1 DEF IdHeldOnce
<1>3. IdNotForgotten'
    BY <1>1 DEF IdNotForgotten
<1> QED
    BY <1>2, <1>3

\* All ids are in the pool and no thread works.
LEMMA InitIInv == Init => IInv
<1> SUFFICES ASSUME Init PROVE IInv
    OBVIOUS
<1>1. TypeOK
    BY IdQueueAssumption DEF Init, TypeOK, SockState, RecvState, PcState,
       AcceptStage, CloseStage, MoveStage, SendStage
<1>2. RegsInv /\ SendInv /\ PairInv
    BY NoConnAssumption DEF Init, RegsInv, SendInv, PairInv, Accepting,
       Receiving, CloseStage, MoveStage, SendStage
<1>3. SockInv /\ SlotInv
    BY NoConnAssumption DEF Init, SockInv, SlotInv, Holds
<1>4. IdHeldOnce
    BY IdQueueAssumption DEF Init, IdHeldOnce, Holds, Popped, InPool
<1>5. IdNotForgotten
    BY DEF Init, IdNotForgotten, InPool
<1> QED
    BY <1>1, <1>2, <1>3, <1>4, <1>5 DEF IInv

\* The client that connects takes nothing but the listening socket.
LEMMA ConnectIInv ==
    ASSUME IInv, Connect
    PROVE  IInv'
<1> USE NoConnAssumption, NoIdAssumption
    DEF IInv, Connect, Accepting, Receiving,
       AcceptStage, CloseStage, MoveStage, SendStage,
       Goto, Return, EndSend, Posted, tables, net, who, regs, hist
<1>1. TypeOK'
    BY DEF TypeOK, RegsInv, SendInv, SlotInv, Holds, SockState, RecvState,
       PcState
<1>2. RegsInv'
    BY DEF TypeOK, RegsInv, SendInv, SlotInv, SockInv, PairInv, IdHeldOnce,
       Popped, Holds
<1>3. SendInv'
    BY DEF TypeOK, RegsInv, SendInv, SlotInv, Holds
<1>4. PairInv'
    BY DEF TypeOK, PairInv, RegsInv, SockInv
<1>5. SockInv' /\ SlotInv'
    BY DEF TypeOK, SockInv, SlotInv, RegsInv, SendInv, IdHeldOnce, Popped, Holds
<1>6. IdHeldOnce' /\ IdNotForgotten'
    BY PoolFrame DEF TypeOK, RegsInv, Holds, Popped
<1> QED
    BY <1>1, <1>2, <1>3, <1>4, <1>5, <1>6

\* The end of a connection changes no holder.
LEMMA HangUpIInv ==
    ASSUME IInv, NEW c \in Conns, HangUp(c)
    PROVE  IInv'
<1> USE NoConnAssumption, NoIdAssumption
    DEF IInv, HangUp, Accepting, Receiving,
       AcceptStage, CloseStage, MoveStage, SendStage,
       Goto, Return, EndSend, Posted, tables, net, who, regs, hist
<1>1. TypeOK'
    BY DEF TypeOK, RegsInv, SendInv, SlotInv, Holds, SockState, RecvState,
       PcState
<1>2. RegsInv'
    BY DEF TypeOK, RegsInv, SendInv, SlotInv, SockInv, PairInv, IdHeldOnce,
       Popped, Holds
<1>3. SendInv'
    BY DEF TypeOK, RegsInv, SendInv, SlotInv, Holds
<1>4. PairInv'
    BY DEF TypeOK, PairInv, RegsInv, SockInv
<1>5. SockInv' /\ SlotInv'
    BY DEF TypeOK, SockInv, SlotInv, RegsInv, SendInv, IdHeldOnce, Popped, Holds
<1>6. IdHeldOnce' /\ IdNotForgotten'
    BY PoolFrame DEF TypeOK, RegsInv, Holds, Popped
<1> QED
    BY <1>1, <1>2, <1>3, <1>4, <1>5, <1>6

\* A queued completion still belongs to the connection.
LEMMA CompleteIInv ==
    ASSUME IInv, NEW c \in Conns, Complete(c)
    PROVE  IInv'
<1> USE NoConnAssumption, NoIdAssumption
    DEF IInv, Complete, Accepting, Receiving,
       AcceptStage, CloseStage, MoveStage, SendStage,
       Goto, Return, EndSend, Posted, tables, net, who, regs, hist
<1>1. TypeOK'
    BY DEF TypeOK, RegsInv, SendInv, SlotInv, Holds, SockState, RecvState,
       PcState
<1>2. RegsInv'
    BY DEF TypeOK, RegsInv, SendInv, SlotInv, SockInv, PairInv, IdHeldOnce,
       Popped, Holds
<1>3. SendInv'
    BY DEF TypeOK, RegsInv, SendInv, SlotInv, Holds
<1>4. PairInv'
    BY DEF TypeOK, PairInv, RegsInv, SockInv
<1>5. SockInv' /\ SlotInv'
    BY DEF TypeOK, SockInv, SlotInv, RegsInv, SendInv, IdHeldOnce, Popped, Holds
<1>6. IdHeldOnce' /\ IdNotForgotten'
    BY PoolFrame DEF TypeOK, RegsInv, Holds, Popped
<1> QED
    BY <1>1, <1>2, <1>3, <1>4, <1>5, <1>6

\* A connection whose receive is dead keeps its id.
LEMMA CompleteUnboundIInv ==
    ASSUME IInv, NEW c \in Conns, CompleteUnbound(c)
    PROVE  IInv'
<1> USE NoConnAssumption, NoIdAssumption
    DEF IInv, CompleteUnbound, Accepting, Receiving,
       AcceptStage, CloseStage, MoveStage, SendStage,
       Goto, Return, EndSend, Posted, tables, net, who, regs, hist
<1>1. TypeOK'
    BY DEF TypeOK, RegsInv, SendInv, SlotInv, Holds, SockState, RecvState,
       PcState
<1>2. RegsInv'
    BY DEF TypeOK, RegsInv, SendInv, SlotInv, SockInv, PairInv, IdHeldOnce,
       Popped, Holds
<1>3. SendInv'
    BY DEF TypeOK, RegsInv, SendInv, SlotInv, Holds
<1>4. PairInv'
    BY DEF TypeOK, PairInv, RegsInv, SockInv
<1>5. SockInv' /\ SlotInv'
    BY DEF TypeOK, SockInv, SlotInv, RegsInv, SendInv, IdHeldOnce, Popped, Holds
<1>6. IdHeldOnce' /\ IdNotForgotten'
    BY PoolFrame DEF TypeOK, RegsInv, Holds, Popped
<1> QED
    BY <1>1, <1>2, <1>3, <1>4, <1>5, <1>6

\* The socket is new, so no other handler has it.
LEMMA AcceptTakeIInv ==
    ASSUME IInv, NEW t \in Threads, AcceptTake(t)
    PROVE  IInv'
<1> USE NoConnAssumption, NoIdAssumption
    DEF IInv, AcceptTake, Accepting, Receiving,
       AcceptStage, CloseStage, MoveStage, SendStage,
       Goto, Return, EndSend, Posted, tables, net, who, regs, hist
<1>1. TypeOK'
    <2>1. acceptsocket \in Conns
        BY DEF SockInv
    <2>2. conn' \in [Threads -> Conns \cup {NoConn}]
        BY <2>1 DEF TypeOK
    <2>3. acceptsocket' \in Conns \cup {NoConn} /\ sock' \in [Conns -> SockState]
        BY DEF TypeOK, SockState
    <2> QED
        BY <2>2, <2>3 DEF TypeOK, PcState, AcceptStage
<1>2. RegsInv'
    BY DEF TypeOK, RegsInv, SendInv, SlotInv, SockInv, PairInv, IdHeldOnce,
       Popped, Holds
<1>3. SendInv'
    BY DEF TypeOK, RegsInv, SendInv, SlotInv, Holds
<1>4. PairInv'
    BY DEF TypeOK, PairInv, RegsInv, SockInv
<1>5. SockInv' /\ SlotInv'
    BY DEF TypeOK, SockInv, SlotInv, RegsInv, SendInv, IdHeldOnce, Popped, Holds
<1>6. IdHeldOnce' /\ IdNotForgotten'
    BY PoolFrame DEF TypeOK, RegsInv, Holds, Popped
<1> QED
    BY <1>1, <1>2, <1>3, <1>4, <1>5, <1>6

\* The id moves from the head of the pool to the handler.
LEMMA PopIdIInv ==
    ASSUME IInv, NEW t \in Threads, PopId(t)
    PROVE  IInv'
<1> USE NoConnAssumption, NoIdAssumption
    DEF IInv, PopId, Accepting, Receiving,
       AcceptStage, CloseStage, MoveStage, SendStage,
       Goto, Return, EndSend, Posted, tables, net, who, regs, hist
<1>1. TypeOK'
    <2>1. CASE pool = <<>>
        BY <2>1 DEF TypeOK, PcState
    <2>2. CASE pool # <<>>
        <3>0. /\ pool' = Tail(pool) /\ key' = [key EXCEPT ![t] = Head(pool)]
              /\ pc' = [pc EXCEPT ![t] = "login"]
            BY <2>2
        <3>a. pool \in Seq(Ids)
            BY DEF TypeOK
        <3>1. Head(pool) \in Ids /\ pool' \in Seq(Ids)
            BY <2>2, <3>0, <3>a, HeadTail
        <3>2. key' \in [Threads -> Ids \cup {NoId}]
            BY <2>2, <3>1 DEF TypeOK
        <3> QED
            BY <2>2, <3>1, <3>2 DEF TypeOK, PcState, AcceptStage
    <2> QED
        BY <2>1, <2>2
<1>2. RegsInv'
    BY DEF TypeOK, RegsInv, SendInv, SlotInv, SockInv, PairInv, IdHeldOnce,
       Popped, Holds
<1>3. SendInv'
    BY DEF TypeOK, RegsInv, SendInv, SlotInv, Holds
<1>4. PairInv'
    BY DEF TypeOK, PairInv, RegsInv, SockInv
<1>5. SockInv' /\ SlotInv'
    BY DEF TypeOK, SockInv, SlotInv, RegsInv, SendInv, IdHeldOnce, Popped, Holds
<1>6. IdHeldOnce'
    <2>1. CASE pool = <<>>
        BY <2>1 DEF TypeOK, IdHeldOnce, Popped, Holds, InPool
    <2>2. CASE pool # <<>>
        <3>0. /\ pool' = Tail(pool) /\ key' = [key EXCEPT ![t] = Head(pool)]
              /\ pc' = [pc EXCEPT ![t] = "login"]
            BY <2>2
        <3>a. pool \in Seq(Ids)
            BY DEF TypeOK
        <3>1. /\ Len(pool) \in Nat /\ Len(pool) > 0 /\ Head(pool) = pool[1] /\ Head(pool) \in Ids
              /\ pool' = Tail(pool) /\ Len(pool') = Len(pool) - 1
              /\ \A n \in 1 .. Len(pool) - 1 : pool'[n] = pool[n + 1]
            BY <2>2, <3>0, <3>a, HeadTail
        <3> PICK i \in Ids : i = Head(pool)
            BY <3>1
        <3>2. InPool(i) /\ ~InPool(i)'
            <4>1. InPool(i)
                BY <3>1 DEF InPool
            <4>2. ASSUME NEW n \in 1 .. Len(pool'), pool'[n] = i PROVE FALSE
                <5>1. pool[n + 1] = pool[1] /\ n + 1 \in 1 .. Len(pool) /\ n + 1 # 1
                    BY <3>1, <4>2
                <5> QED
                    BY <3>1, <5>1 DEF IdHeldOnce
            <4> QED
                BY <4>1, <4>2 DEF InPool
        <3>3. \A j : InPool(j)' => InPool(j)
            BY <3>1 DEF InPool
        <3>4. \A m, n \in 1 .. Len(pool') : pool'[m] = pool'[n] => m = n
            <4> SUFFICES ASSUME NEW m \in 1 .. Len(pool'), NEW n \in 1 .. Len(pool'),
                                pool'[m] = pool'[n]
                         PROVE  m = n
                OBVIOUS
            <4>1. pool[m + 1] = pool[n + 1]
                BY <3>1
            <4> QED
                BY <3>1, <4>1 DEF IdHeldOnce
        <3>5. \A u \in Threads, j \in Ids : Popped(u, j)' =>
                  Popped(u, j) \/ (u = t /\ j = i)
            BY <3>0 DEF TypeOK, Popped
        <3>6. \A c \in Conns : Holds(c)' = Holds(c)
            BY DEF Holds
        <3>7. idOf' = idOf
            OBVIOUS
        <3>8. \A u \in Threads, j \in Ids : Popped(u, j)' =>
                  /\ ~InPool(j)'
                  /\ \A v \in Threads : Popped(v, j)' => v = u
                  /\ \A c \in Conns : ~(Holds(c)' /\ idOf'[c] = j)
            BY <3>2, <3>3, <3>5, <3>6, <3>7 DEF IdHeldOnce
        <3>9. \A c \in Conns : Holds(c)' =>
                  /\ ~InPool(idOf[c])'
                  /\ \A d \in Conns : Holds(d)' /\ idOf'[d] = idOf'[c] => d = c
            <4> SUFFICES ASSUME NEW c \in Conns, Holds(c)'
                         PROVE  /\ ~InPool(idOf[c])'
                                /\ \A d \in Conns : Holds(d)' /\ idOf'[d] = idOf'[c] => d = c
                OBVIOUS
            <4>1. Holds(c) /\ ~InPool(idOf[c])
                BY <3>6 DEF IdHeldOnce
            <4>2. ~InPool(idOf[c])'
                BY <3>3, <3>7, <4>1
            <4> QED
                BY <3>6, <3>7, <4>1, <4>2 DEF IdHeldOnce
        <3> QED
            BY <3>4, <3>8, <3>9 DEF IdHeldOnce
    <2> QED
        BY <2>1, <2>2
<1>7. IdNotForgotten'
    <2>1. CASE pool = <<>>
        BY <2>1 DEF TypeOK, IdNotForgotten, Popped, Holds, InPool
    <2>2. CASE pool # <<>>
        <3>0. /\ pool' = Tail(pool) /\ key' = [key EXCEPT ![t] = Head(pool)]
              /\ pc' = [pc EXCEPT ![t] = "login"]
            BY <2>2
        <3>a. pool \in Seq(Ids)
            BY DEF TypeOK
        <3>1. /\ Len(pool) \in Nat /\ Len(pool) > 0 /\ Head(pool) = pool[1]
              /\ pool' = Tail(pool) /\ Len(pool') = Len(pool) - 1
              /\ \A n \in 1 .. Len(pool) - 1 : pool'[n] = pool[n + 1]
            BY <2>2, <3>0, <3>a, HeadTail
        <3>2. \A j : InPool(j) => InPool(j)' \/ Popped(t, j)'
            <4> SUFFICES ASSUME NEW j, NEW n \in 1 .. Len(pool), pool[n] = j
                         PROVE  InPool(j)' \/ Popped(t, j)'
                BY DEF InPool
            <4>1. CASE n = 1
                BY <3>0, <3>1, <4>1 DEF TypeOK, Popped
            <4>2. CASE n # 1
                <5>1. n - 1 \in 1 .. Len(pool') /\ pool'[n - 1] = j
                    BY <3>1, <4>2
                <5> QED
                    BY <5>1 DEF InPool
            <4> QED
                BY <4>1, <4>2
        <3>3. \A u \in Threads : \A j : Popped(u, j) => Popped(u, j)'
            BY DEF TypeOK, Popped
        <3>4. \A c \in Conns : Holds(c)' = Holds(c)
            BY DEF Holds
        <3> QED
            BY <3>2, <3>3, <3>4 DEF IdNotForgotten
    <2> QED
        BY <2>1, <2>2
<1> QED
    BY <1>1, <1>2, <1>3, <1>4, <1>5, <1>6, <1>7

\* The id moves from the handler to the connection.
LEMMA LoginPlayerIInv ==
    ASSUME IInv, NEW t \in Threads, LoginPlayer(t)
    PROVE  IInv'
<1> USE NoConnAssumption, NoIdAssumption
    DEF IInv, LoginPlayer, Accepting, Receiving,
       AcceptStage, CloseStage, MoveStage, SendStage,
       Goto, Return, EndSend, Posted, tables, net, who, regs, hist
<1>1. TypeOK'
    <2>1. conn[t] \in Conns /\ key[t] \in Ids
        BY DEF RegsInv
    <2>2. recv' \in [Conns -> RecvState]
        BY <2>1 DEF TypeOK, RecvState
    <2>3. players' \in [Ids -> Conns \cup {NoConn}] /\ idOf' \in [Conns -> Ids \cup {NoId}]
        BY <2>1 DEF TypeOK
    <2> QED
        BY <2>2, <2>3 DEF TypeOK, PcState, AcceptStage
<1>2. RegsInv'
    BY DEF TypeOK, RegsInv, SendInv, SlotInv, SockInv, PairInv, IdHeldOnce,
       Popped, Holds
<1>3. SendInv'
    BY DEF TypeOK, RegsInv, SendInv, SlotInv, Holds
<1>4. PairInv'
    BY DEF TypeOK, PairInv, RegsInv, SockInv
<1>5. SockInv' /\ SlotInv'
    BY DEF TypeOK, SockInv, SlotInv, RegsInv, SendInv, IdHeldOnce, Popped, Holds
<1>6. IdHeldOnce'
    BY DEF TypeOK, IdHeldOnce, RegsInv, PairInv, SlotInv, Popped, Holds, InPool
<1>7. IdNotForgotten'
    <2>1. conn[t] \in Conns /\ key[t] \in Ids /\ recv[conn[t]] = "none"
        BY DEF RegsInv
    <2>2. \A i : Popped(t, i) => Holds(conn[t])' /\ idOf'[conn[t]] = i
        BY <2>1 DEF TypeOK, Popped, Holds
    <2>3. \A u \in Threads : \A i : Popped(u, i) /\ u # t => Popped(u, i)'
        BY DEF TypeOK, Popped
    <2>4. \A c \in Conns : Holds(c) => Holds(c)' /\ idOf'[c] = idOf[c]
        BY <2>1 DEF TypeOK, Holds
    <2> QED
        BY <2>1, <2>2, <2>3, <2>4 DEF IdNotForgotten, InPool
<1> QED
    BY <1>1, <1>2, <1>3, <1>4, <1>5, <1>6, <1>7

\* Reading the slot back changes no holder.
LEMMA LoginFetchIInv ==
    ASSUME IInv, NEW t \in Threads, LoginFetch(t)
    PROVE  IInv'
<1> USE NoConnAssumption, NoIdAssumption
    DEF IInv, LoginFetch, Accepting, Receiving,
       AcceptStage, CloseStage, MoveStage, SendStage,
       Goto, Return, EndSend, Posted, tables, net, who, regs, hist
<1>1. TypeOK'
    BY DEF TypeOK, RegsInv, SendInv, SlotInv, Holds, SockState, RecvState,
       PcState
<1>2. RegsInv'
    BY DEF TypeOK, RegsInv, SendInv, SlotInv, SockInv, PairInv, IdHeldOnce,
       Popped, Holds
<1>3. SendInv'
    BY DEF TypeOK, RegsInv, SendInv, SlotInv, Holds
<1>4. PairInv'
    BY DEF TypeOK, PairInv, RegsInv, SockInv
<1>5. SockInv' /\ SlotInv'
    BY DEF TypeOK, SockInv, SlotInv, RegsInv, SendInv, IdHeldOnce, Popped, Holds
<1>6. IdHeldOnce' /\ IdNotForgotten'
    BY PoolFrame DEF TypeOK, RegsInv, Holds, Popped
<1> QED
    BY <1>1, <1>2, <1>3, <1>4, <1>5, <1>6

\* objects gets a player that has an id, or a null pointer.
LEMMA LoginObjectIInv ==
    ASSUME IInv, NEW t \in Threads, LoginObject(t)
    PROVE  IInv'
<1> USE NoConnAssumption, NoIdAssumption
    DEF IInv, LoginObject, Accepting, Receiving,
       AcceptStage, CloseStage, MoveStage, SendStage,
       Goto, Return, EndSend, Posted, tables, net, who, regs, hist
<1>1. TypeOK'
    BY DEF TypeOK, RegsInv, SendInv, SlotInv, Holds, SockState, RecvState,
       PcState
<1>2. RegsInv'
    BY DEF TypeOK, RegsInv, SendInv, SlotInv, SockInv, PairInv, IdHeldOnce,
       Popped, Holds
<1>3. SendInv'
    BY DEF TypeOK, RegsInv, SendInv, SlotInv, Holds
<1>4. PairInv'
    BY DEF TypeOK, PairInv, RegsInv, SockInv
<1>5. SockInv' /\ SlotInv'
    BY DEF TypeOK, SockInv, SlotInv, RegsInv, SendInv, IdHeldOnce, Popped, Holds
<1>6. IdHeldOnce' /\ IdNotForgotten'
    BY PoolFrame DEF TypeOK, RegsInv, Holds, Popped
<1> QED
    BY <1>1, <1>2, <1>3, <1>4, <1>5, <1>6

\* The player that is read back has an id.
LEMMA BindIInv ==
    ASSUME IInv, NEW t \in Threads, Bind(t)
    PROVE  IInv'
<1> USE NoConnAssumption, NoIdAssumption
    DEF IInv, Bind, Accepting, Receiving,
       AcceptStage, CloseStage, MoveStage, SendStage,
       Goto, Return, EndSend, Posted, tables, net, who, regs, hist
<1>1. TypeOK'
    BY DEF TypeOK, RegsInv, SendInv, SlotInv, Holds, SockState, RecvState,
       PcState
<1>2. RegsInv'
    BY DEF TypeOK, RegsInv, SendInv, SlotInv, SockInv, PairInv, IdHeldOnce,
       Popped, Holds
<1>3. SendInv'
    BY DEF TypeOK, RegsInv, SendInv, SlotInv, Holds
<1>4. PairInv'
    BY DEF TypeOK, PairInv, RegsInv, SockInv
<1>5. SockInv' /\ SlotInv'
    BY DEF TypeOK, SockInv, SlotInv, RegsInv, SendInv, IdHeldOnce, Popped, Holds
<1>6. IdHeldOnce' /\ IdNotForgotten'
    BY PoolFrame DEF TypeOK, RegsInv, Holds, Popped
<1> QED
    BY <1>1, <1>2, <1>3, <1>4, <1>5, <1>6

\* Only the register for the sector changes.
LEMMA LocateIInv ==
    ASSUME IInv, NEW t \in Threads, Locate(t)
    PROVE  IInv'
<1> USE NoConnAssumption, NoIdAssumption
    DEF IInv, Locate, Accepting, Receiving,
       AcceptStage, CloseStage, MoveStage, SendStage,
       Goto, Return, EndSend, Posted, tables, net, who, regs, hist
<1>1. TypeOK'
    BY DEF TypeOK, RegsInv, SendInv, SlotInv, Holds, SockState, RecvState,
       PcState
<1>2. RegsInv'
    BY DEF TypeOK, RegsInv, SendInv, SlotInv, SockInv, PairInv, IdHeldOnce,
       Popped, Holds
<1>3. SendInv'
    BY DEF TypeOK, RegsInv, SendInv, SlotInv, Holds
<1>4. PairInv'
    BY DEF TypeOK, PairInv, RegsInv, SockInv
<1>5. SockInv' /\ SlotInv'
    BY DEF TypeOK, SockInv, SlotInv, RegsInv, SendInv, IdHeldOnce, Popped, Holds
<1>6. IdHeldOnce' /\ IdNotForgotten'
    BY PoolFrame DEF TypeOK, RegsInv, Holds, Popped
<1> QED
    BY <1>1, <1>2, <1>3, <1>4, <1>5, <1>6

\* Only the sectors change.
LEMMA EnterIInv ==
    ASSUME IInv, NEW t \in Threads, Enter(t)
    PROVE  IInv'
<1> USE NoConnAssumption, NoIdAssumption
    DEF IInv, Enter, Accepting, Receiving,
       AcceptStage, CloseStage, MoveStage, SendStage,
       Goto, Return, EndSend, Posted, tables, net, who, regs, hist
<1>1. TypeOK'
    <2>1. me[t] \in Conns /\ idOf[me[t]] \in Ids
        BY DEF RegsInv
    <2>2. sectors' \in [Sectors -> SUBSET Ids]
        BY <2>1 DEF TypeOK
    <2> QED
        BY <2>2 DEF TypeOK, PcState, AcceptStage
<1>2. RegsInv'
    BY DEF TypeOK, RegsInv, SendInv, SlotInv, SockInv, PairInv, IdHeldOnce,
       Popped, Holds
<1>3. SendInv'
    BY DEF TypeOK, RegsInv, SendInv, SlotInv, Holds
<1>4. PairInv'
    BY DEF TypeOK, PairInv, RegsInv, SockInv
<1>5. SockInv' /\ SlotInv'
    BY DEF TypeOK, SockInv, SlotInv, RegsInv, SendInv, IdHeldOnce, Popped, Holds
<1>6. IdHeldOnce' /\ IdNotForgotten'
    BY PoolFrame DEF TypeOK, RegsInv, Holds, Popped
<1> QED
    BY <1>1, <1>2, <1>3, <1>4, <1>5, <1>6

\* The accept handler held nothing any more.
LEMMA AcceptDoneIInv ==
    ASSUME IInv, NEW t \in Threads, AcceptDone(t)
    PROVE  IInv'
<1> USE NoConnAssumption, NoIdAssumption
    DEF IInv, AcceptDone, Accepting, Receiving,
       AcceptStage, CloseStage, MoveStage, SendStage,
       Goto, Return, EndSend, Posted, tables, net, who, regs, hist
<1>1. TypeOK'
    BY DEF TypeOK, RegsInv, SendInv, SlotInv, Holds, SockState, RecvState,
       PcState
<1>2. RegsInv'
    BY DEF TypeOK, RegsInv, SendInv, SlotInv, SockInv, PairInv, IdHeldOnce,
       Popped, Holds
<1>3. SendInv'
    BY DEF TypeOK, RegsInv, SendInv, SlotInv, Holds
<1>4. PairInv'
    BY DEF TypeOK, PairInv, RegsInv, SockInv
<1>5. SockInv' /\ SlotInv'
    BY DEF TypeOK, SockInv, SlotInv, RegsInv, SendInv, IdHeldOnce, Popped, Holds
<1>6. IdHeldOnce' /\ IdNotForgotten'
    BY PoolFrame DEF TypeOK, RegsInv, Holds, Popped
<1> QED
    BY <1>1, <1>2, <1>3, <1>4, <1>5, <1>6

\* The slot of the id can only hold the connection that has the id.
LEMMA ReceiveTakeIInv ==
    ASSUME IInv, NEW t \in Threads, NEW c \in Conns, ReceiveTake(t, c)
    PROVE  IInv'
<1> USE NoConnAssumption, NoIdAssumption
    DEF IInv, ReceiveTake, Accepting, Receiving,
       AcceptStage, CloseStage, MoveStage, SendStage,
       Goto, Return, EndSend, Posted, tables, net, who, regs, hist
<1>1. TypeOK'
    <2>1. recv' \in [Conns -> RecvState] /\ pc' \in [Threads -> PcState]
        BY DEF TypeOK, RecvState, PcState, CloseStage
    <2>2. idOf[c] \in Ids
        BY DEF SlotInv, Holds
    <2>3. /\ conn' \in [Threads -> Conns \cup {NoConn}]
          /\ key' \in [Threads -> Ids \cup {NoId}]
          /\ me' \in [Threads -> Conns \cup {NoConn}]
        <3>1. CASE UNCHANGED <<conn, key, me>>
            BY <3>1 DEF TypeOK
        <3>2. CASE /\ conn' = [conn EXCEPT ![t] = c]
                   /\ key' = [key EXCEPT ![t] = idOf[c]]
                   /\ me' = [me EXCEPT ![t] = players[idOf[c]]]
            <4>1. conn' \in [Threads -> Conns \cup {NoConn}]
                BY <3>2 DEF TypeOK
            <4>2. key' \in [Threads -> Ids \cup {NoId}]
                BY <2>2, <3>2 DEF TypeOK
            <4>3. me' \in [Threads -> Conns \cup {NoConn}]
                BY <2>2, <3>2 DEF TypeOK
            <4> QED
                BY <4>1, <4>2, <4>3
        <3> QED
            BY <3>1, <3>2
    <2> QED
        BY <2>1, <2>3 DEF TypeOK
<1>2. RegsInv'
    BY DEF TypeOK, RegsInv, SendInv, SlotInv, SockInv, PairInv, IdHeldOnce,
       Popped, Holds
<1>3. SendInv'
    BY DEF TypeOK, RegsInv, SendInv, SlotInv, Holds
<1>4. PairInv'
    BY DEF TypeOK, PairInv, RegsInv, SockInv
<1>5. SockInv' /\ SlotInv'
    BY DEF TypeOK, SockInv, SlotInv, RegsInv, SendInv, IdHeldOnce, Popped, Holds
<1>6. IdHeldOnce' /\ IdNotForgotten'
    BY PoolFrame DEF TypeOK, RegsInv, Holds, Popped
<1> QED
    BY <1>1, <1>2, <1>3, <1>4, <1>5, <1>6

\* A closed socket still holds its id.
LEMMA CloseIInv ==
    ASSUME IInv, NEW t \in Threads, Close(t)
    PROVE  IInv'
<1> USE NoConnAssumption, NoIdAssumption
    DEF IInv, Close, Accepting, Receiving,
       AcceptStage, CloseStage, MoveStage, SendStage,
       Goto, Return, EndSend, Posted, tables, net, who, regs, hist
<1>1. TypeOK'
    BY DEF TypeOK, RegsInv, SendInv, SlotInv, Holds, SockState, RecvState,
       PcState
<1>2. RegsInv'
    BY DEF TypeOK, RegsInv, SendInv, SlotInv, SockInv, PairInv, IdHeldOnce,
       Popped, Holds
<1>3. SendInv'
    BY DEF TypeOK, RegsInv, SendInv, SlotInv, Holds
<1>4. PairInv'
    BY DEF TypeOK, PairInv, RegsInv, SockInv
<1>5. SockInv' /\ SlotInv'
    BY DEF TypeOK, SockInv, SlotInv, RegsInv, SendInv, IdHeldOnce, Popped, Holds
<1>6. IdHeldOnce' /\ IdNotForgotten'
    BY PoolFrame DEF TypeOK, RegsInv, Holds, Popped
<1> QED
    BY <1>1, <1>2, <1>3, <1>4, <1>5, <1>6

\* objects names one player less.
LEMMA UnlistIInv ==
    ASSUME IInv, NEW t \in Threads, Unlist(t)
    PROVE  IInv'
<1> USE NoConnAssumption, NoIdAssumption
    DEF IInv, Unlist, Accepting, Receiving,
       AcceptStage, CloseStage, MoveStage, SendStage,
       Goto, Return, EndSend, Posted, tables, net, who, regs, hist
<1>1. TypeOK'
    BY DEF TypeOK, RegsInv, SendInv, SlotInv, Holds, SockState, RecvState,
       PcState
<1>2. RegsInv'
    BY DEF TypeOK, RegsInv, SendInv, SlotInv, SockInv, PairInv, IdHeldOnce,
       Popped, Holds
<1>3. SendInv'
    BY DEF TypeOK, RegsInv, SendInv, SlotInv, Holds
<1>4. PairInv'
    BY DEF TypeOK, PairInv, RegsInv, SockInv
<1>5. SockInv' /\ SlotInv'
    BY DEF TypeOK, SockInv, SlotInv, RegsInv, SendInv, IdHeldOnce, Popped, Holds
<1>6. IdHeldOnce' /\ IdNotForgotten'
    BY PoolFrame DEF TypeOK, RegsInv, Holds, Popped
<1> QED
    BY <1>1, <1>2, <1>3, <1>4, <1>5, <1>6

\* players names one player less: the one that leaves.
LEMMA UnslotIInv ==
    ASSUME IInv, NEW t \in Threads, Unslot(t)
    PROVE  IInv'
<1> USE NoConnAssumption, NoIdAssumption
    DEF IInv, Unslot, Accepting, Receiving,
       AcceptStage, CloseStage, MoveStage, SendStage,
       Goto, Return, EndSend, Posted, tables, net, who, regs, hist
<1>1. TypeOK'
    BY DEF TypeOK, RegsInv, SendInv, SlotInv, Holds, SockState, RecvState,
       PcState
<1>2. RegsInv'
    BY DEF TypeOK, RegsInv, SendInv, SlotInv, SockInv, PairInv, IdHeldOnce,
       Popped, Holds
<1>3. SendInv'
    BY DEF TypeOK, RegsInv, SendInv, SlotInv, Holds
<1>4. PairInv'
    BY DEF TypeOK, PairInv, RegsInv, SockInv
<1>5. SockInv' /\ SlotInv'
    BY DEF TypeOK, SockInv, SlotInv, RegsInv, SendInv, IdHeldOnce, Popped, Holds
<1>6. IdHeldOnce' /\ IdNotForgotten'
    BY PoolFrame DEF TypeOK, RegsInv, Holds, Popped
<1> QED
    BY <1>1, <1>2, <1>3, <1>4, <1>5, <1>6

\* Only the sectors change; the slot stays empty until the push.
LEMMA LeaveIInv ==
    ASSUME IInv, NEW t \in Threads, Leave(t)
    PROVE  IInv'
<1> USE NoConnAssumption, NoIdAssumption
    DEF IInv, Leave, Accepting, Receiving,
       AcceptStage, CloseStage, MoveStage, SendStage,
       Goto, Return, EndSend, Posted, tables, net, who, regs, hist
<1>1. TypeOK'
    BY DEF TypeOK, RegsInv, SendInv, SlotInv, Holds, SockState, RecvState,
       PcState
<1>2. RegsInv'
    BY DEF TypeOK, RegsInv, SendInv, SlotInv, SockInv, PairInv, IdHeldOnce,
       Popped, Holds
<1>3. SendInv'
    BY DEF TypeOK, RegsInv, SendInv, SlotInv, Holds
<1>4. PairInv'
    BY DEF TypeOK, PairInv, RegsInv, SockInv
<1>5. SockInv' /\ SlotInv'
    BY DEF TypeOK, SockInv, SlotInv, RegsInv, SendInv, IdHeldOnce, Popped, Holds
<1>6. IdHeldOnce' /\ IdNotForgotten'
    BY PoolFrame DEF TypeOK, RegsInv, Holds, Popped
<1> QED
    BY <1>1, <1>2, <1>3, <1>4, <1>5, <1>6

\* The id moves from the connection to the end of the pool.
LEMMA PushIdIInv ==
    ASSUME IInv, NEW t \in Threads, PushId(t)
    PROVE  IInv'
<1> USE NoConnAssumption, NoIdAssumption
    DEF IInv, PushId, Accepting, Receiving,
       AcceptStage, CloseStage, MoveStage, SendStage,
       Goto, Return, EndSend, Posted, tables, net, who, regs, hist
<1>1. TypeOK'
    BY DEF TypeOK, RegsInv, SendInv, SlotInv, Holds, SockState, RecvState,
       PcState
<1>2. RegsInv'
    BY DEF TypeOK, RegsInv, SendInv, SlotInv, SockInv, PairInv, IdHeldOnce,
       Popped, Holds
<1>3. SendInv'
    BY DEF TypeOK, RegsInv, SendInv, SlotInv, Holds
<1>4. PairInv'
    BY DEF TypeOK, PairInv, RegsInv, SockInv
<1>5. SockInv' /\ SlotInv'
    BY DEF TypeOK, SockInv, SlotInv, RegsInv, SendInv, IdHeldOnce, Popped, Holds
<1>6. IdHeldOnce'
    <2> DEFINE i == key[t]
    <2>1. /\ conn[t] \in Conns /\ recv[conn[t]] = "busy"
          /\ idOf[conn[t]] = i /\ i \in Ids
        BY DEF RegsInv, SlotInv, Holds
    <2>2. /\ Len(pool) \in Nat /\ Len(pool') = Len(pool) + 1
          /\ \A n \in 1 .. Len(pool) : pool'[n] = pool[n]
          /\ pool'[Len(pool')] = i
        BY <2>1, AppendOne DEF TypeOK
    <2>3. \A d \in Conns : Holds(d)' <=> Holds(d) /\ d # conn[t]
        BY <2>1 DEF TypeOK, Holds
    <2>4. \A u \in Threads, j \in Ids : Popped(u, j)' <=> Popped(u, j)
        BY DEF TypeOK, Popped
    <2>5. Holds(conn[t]) /\ ~InPool(i)
        BY <2>1 DEF IdHeldOnce, Holds
    <2>6. \A j : InPool(j)' <=> InPool(j) \/ j = i
        BY <2>2 DEF InPool
    <2>7. \A m, n \in 1 .. Len(pool') : pool'[m] = pool'[n] => m = n
        BY <2>2, <2>5 DEF IdHeldOnce, InPool
    <2> HIDE DEF i
    <2> QED
        BY <2>1, <2>3, <2>4, <2>5, <2>6, <2>7 DEF IdHeldOnce
<1>7. IdNotForgotten'
    <2> DEFINE i == key[t]
    <2>1. /\ conn[t] \in Conns /\ recv[conn[t]] = "busy"
          /\ idOf[conn[t]] = i /\ i \in Ids
        BY DEF RegsInv, SlotInv, Holds
    <2>2. /\ Len(pool) \in Nat /\ Len(pool') = Len(pool) + 1
          /\ \A n \in 1 .. Len(pool) : pool'[n] = pool[n]
          /\ pool'[Len(pool')] = i
        BY <2>1, AppendOne DEF TypeOK
    <2>3. \A d \in Conns : Holds(d)' <=> Holds(d) /\ d # conn[t]
        BY <2>1 DEF TypeOK, Holds
    <2>4. \A u \in Threads, j \in Ids : Popped(u, j)' <=> Popped(u, j)
        BY DEF TypeOK, Popped
    <2>6. \A j : InPool(j)' <=> InPool(j) \/ j = i
        BY <2>2 DEF InPool
    <2>7. \A n \in 1 .. Len(IdQueue) : IdQueue[n] \in Ids
        BY IdQueueAssumption
    <2> HIDE DEF i
    <2> QED
        BY <2>1, <2>3, <2>4, <2>6, <2>7 DEF IdNotForgotten
<1> QED
    BY <1>1, <1>2, <1>3, <1>4, <1>5, <1>6, <1>7

\* Only the position changes.
LEMMA MoveIInv ==
    ASSUME IInv, NEW t \in Threads, NEW s \in Sectors, Move(t, s)
    PROVE  IInv'
<1> USE NoConnAssumption, NoIdAssumption
    DEF IInv, Move, Accepting, Receiving,
       AcceptStage, CloseStage, MoveStage, SendStage,
       Goto, Return, EndSend, Posted, tables, net, who, regs, hist
<1>1. TypeOK'
    BY DEF TypeOK, RegsInv, SendInv, SlotInv, Holds, SockState, RecvState,
       PcState
<1>2. RegsInv'
    BY DEF TypeOK, RegsInv, SendInv, SlotInv, SockInv, PairInv, IdHeldOnce,
       Popped, Holds
<1>3. SendInv'
    BY DEF TypeOK, RegsInv, SendInv, SlotInv, Holds
<1>4. PairInv'
    BY DEF TypeOK, PairInv, RegsInv, SockInv
<1>5. SockInv' /\ SlotInv'
    BY DEF TypeOK, SockInv, SlotInv, RegsInv, SendInv, IdHeldOnce, Popped, Holds
<1>6. IdHeldOnce' /\ IdNotForgotten'
    BY PoolFrame DEF TypeOK, RegsInv, Holds, Popped
<1> QED
    BY <1>1, <1>2, <1>3, <1>4, <1>5, <1>6

\* Only the position changes.
LEMMA ResetMoveIInv ==
    ASSUME IInv, NEW t \in Threads, ResetMove(t)
    PROVE  IInv'
<1> USE NoConnAssumption, NoIdAssumption
    DEF IInv, ResetMove, Accepting, Receiving,
       AcceptStage, CloseStage, MoveStage, SendStage,
       Goto, Return, EndSend, Posted, tables, net, who, regs, hist
<1>1. TypeOK'
    BY DEF TypeOK, RegsInv, SendInv, SlotInv, Holds, SockState, RecvState,
       PcState
<1>2. RegsInv'
    BY DEF TypeOK, RegsInv, SendInv, SlotInv, SockInv, PairInv, IdHeldOnce,
       Popped, Holds
<1>3. SendInv'
    BY DEF TypeOK, RegsInv, SendInv, SlotInv, Holds
<1>4. PairInv'
    BY DEF TypeOK, PairInv, RegsInv, SockInv
<1>5. SockInv' /\ SlotInv'
    BY DEF TypeOK, SockInv, SlotInv, RegsInv, SendInv, IdHeldOnce, Popped, Holds
<1>6. IdHeldOnce' /\ IdNotForgotten'
    BY PoolFrame DEF TypeOK, RegsInv, Holds, Popped
<1> QED
    BY <1>1, <1>2, <1>3, <1>4, <1>5, <1>6

\* Only the sectors change.
LEMMA MoveInIInv ==
    ASSUME IInv, NEW t \in Threads, MoveIn(t)
    PROVE  IInv'
<1> USE NoConnAssumption, NoIdAssumption
    DEF IInv, MoveIn, Accepting, Receiving,
       AcceptStage, CloseStage, MoveStage, SendStage,
       Goto, Return, EndSend, Posted, tables, net, who, regs, hist
<1>1. TypeOK'
    BY DEF TypeOK, RegsInv, SendInv, SlotInv, Holds, SockState, RecvState,
       PcState
<1>2. RegsInv'
    BY DEF TypeOK, RegsInv, SendInv, SlotInv, SockInv, PairInv, IdHeldOnce,
       Popped, Holds
<1>3. SendInv'
    BY DEF TypeOK, RegsInv, SendInv, SlotInv, Holds
<1>4. PairInv'
    BY DEF TypeOK, PairInv, RegsInv, SockInv
<1>5. SockInv' /\ SlotInv'
    BY DEF TypeOK, SockInv, SlotInv, RegsInv, SendInv, IdHeldOnce, Popped, Holds
<1>6. IdHeldOnce' /\ IdNotForgotten'
    BY PoolFrame DEF TypeOK, RegsInv, Holds, Popped
<1> QED
    BY <1>1, <1>2, <1>3, <1>4, <1>5, <1>6

\* Only the sectors change.
LEMMA MoveOutIInv ==
    ASSUME IInv, NEW t \in Threads, MoveOut(t)
    PROVE  IInv'
<1> USE NoConnAssumption, NoIdAssumption
    DEF IInv, MoveOut, Accepting, Receiving,
       AcceptStage, CloseStage, MoveStage, SendStage,
       Goto, Return, EndSend, Posted, tables, net, who, regs, hist
<1>1. TypeOK'
    <2>1. sectors' \in [Sectors -> SUBSET Ids]
        BY DEF TypeOK
    <2> QED
        BY <2>1 DEF TypeOK, PcState
<1>2. RegsInv'
    BY DEF TypeOK, RegsInv, SendInv, SlotInv, SockInv, PairInv, IdHeldOnce,
       Popped, Holds
<1>3. SendInv'
    BY DEF TypeOK, RegsInv, SendInv, SlotInv, Holds
<1>4. PairInv'
    BY DEF TypeOK, PairInv, RegsInv, SockInv
<1>5. SockInv' /\ SlotInv'
    BY DEF TypeOK, SockInv, SlotInv, RegsInv, SendInv, IdHeldOnce, Popped, Holds
<1>6. IdHeldOnce' /\ IdNotForgotten'
    BY PoolFrame DEF TypeOK, RegsInv, Holds, Popped
<1> QED
    BY <1>1, <1>2, <1>3, <1>4, <1>5, <1>6

\* The handler gives the receive back to the kernel.
LEMMA RepostIInv ==
    ASSUME IInv, NEW t \in Threads, Repost(t)
    PROVE  IInv'
<1> USE NoConnAssumption, NoIdAssumption
    DEF IInv, Repost, Accepting, Receiving,
       AcceptStage, CloseStage, MoveStage, SendStage,
       Goto, Return, EndSend, Posted, tables, net, who, regs, hist
<1>1. TypeOK'
    BY DEF TypeOK, RegsInv, SendInv, SlotInv, Holds, SockState, RecvState,
       PcState
<1>2. RegsInv'
    BY DEF TypeOK, RegsInv, SendInv, SlotInv, SockInv, PairInv, IdHeldOnce,
       Popped, Holds
<1>3. SendInv'
    BY DEF TypeOK, RegsInv, SendInv, SlotInv, Holds
<1>4. PairInv'
    BY DEF TypeOK, PairInv, RegsInv, SockInv
<1>5. SockInv'
    BY DEF TypeOK, SockInv, RegsInv
<1>6. SlotInv'
    <2>1. \A d \in Conns : Holds(d)' = Holds(d)
        BY DEF TypeOK, Holds, RegsInv
    <2> QED
        BY <2>1 DEF TypeOK, SlotInv
<1>7. IdHeldOnce' /\ IdNotForgotten'
    BY PoolFrame DEF TypeOK, RegsInv, Holds, Popped
<1> QED
    BY <1>1, <1>2, <1>3, <1>4, <1>5, <1>6, <1>7

\* Whatever pointer is picked, its player has an id.
LEMMA PickTargetIInv ==
    ASSUME IInv, NEW t \in Threads, NEW d \in Conns, PickTarget(t, d)
    PROVE  IInv'
<1> USE NoConnAssumption, NoIdAssumption
    DEF IInv, PickTarget, Accepting, Receiving,
       AcceptStage, CloseStage, MoveStage, SendStage,
       Goto, Return, EndSend, Posted, tables, net, who, regs, hist
<1>1. TypeOK'
    BY DEF TypeOK, RegsInv, SendInv, SlotInv, Holds, SockState, RecvState,
       PcState
<1>2. RegsInv'
    BY DEF TypeOK, RegsInv, SendInv, SlotInv, SockInv, PairInv, IdHeldOnce,
       Popped, Holds
<1>3. SendInv'
    BY DEF TypeOK, RegsInv, SendInv, SlotInv, Holds
<1>4. PairInv'
    BY DEF TypeOK, PairInv, RegsInv, SockInv
<1>5. SockInv' /\ SlotInv'
    BY DEF TypeOK, SockInv, SlotInv, RegsInv, SendInv, IdHeldOnce, Popped, Holds
<1>6. IdHeldOnce' /\ IdNotForgotten'
    BY PoolFrame DEF TypeOK, RegsInv, Holds, Popped
<1> QED
    BY <1>1, <1>2, <1>3, <1>4, <1>5, <1>6

\* The check changes no holder.
LEMMA CheckTargetIInv ==
    ASSUME IInv, NEW t \in Threads, CheckTarget(t)
    PROVE  IInv'
<1> USE NoConnAssumption, NoIdAssumption
    DEF IInv, CheckTarget, Accepting, Receiving,
       AcceptStage, CloseStage, MoveStage, SendStage,
       Goto, Return, EndSend, Posted, tables, net, who, regs, hist
<1>1. TypeOK'
    <2>1. pc' \in [Threads -> PcState]
        BY DEF TypeOK, PcState, AcceptStage, SendStage
    <2>2. tgt' \in [Threads -> Conns \cup {NoConn}] /\ back' \in [Threads -> {"idle", "work", "greet"}]
        BY DEF TypeOK
    <2> QED
        BY <2>1, <2>2 DEF TypeOK
<1>2. RegsInv'
    BY DEF TypeOK, RegsInv, SendInv, SlotInv, SockInv, PairInv, IdHeldOnce,
       Popped, Holds
<1>3. SendInv'
    BY DEF TypeOK, RegsInv, SendInv, SlotInv, Holds
<1>4. PairInv'
    BY DEF TypeOK, PairInv, RegsInv, SockInv
<1>5. SockInv' /\ SlotInv'
    BY DEF TypeOK, SockInv, SlotInv, RegsInv, SendInv, IdHeldOnce, Popped, Holds
<1>6. IdHeldOnce' /\ IdNotForgotten'
    BY PoolFrame DEF TypeOK, RegsInv, Holds, Popped
<1> QED
    BY <1>1, <1>2, <1>3, <1>4, <1>5, <1>6

\* The send changes no holder.
LEMMA SendPacketIInv ==
    ASSUME IInv, NEW t \in Threads, SendPacket(t)
    PROVE  IInv'
<1> USE NoConnAssumption, NoIdAssumption
    DEF IInv, SendPacket, Accepting, Receiving,
       AcceptStage, CloseStage, MoveStage, SendStage,
       Goto, Return, EndSend, Posted, tables, net, who, regs, hist
<1>1. TypeOK'
    <2>1. CASE EndSend(t)
        BY <2>1 DEF TypeOK, RegsInv, PcState
    <2>2. CASE pc' = [pc EXCEPT ![t] = "drop"] /\ UNCHANGED <<tgt, back>>
        BY <2>2 DEF TypeOK, PcState
    <2> QED
        BY <2>1, <2>2
<1>2. RegsInv'
    BY DEF TypeOK, RegsInv, SendInv, SlotInv, SockInv, PairInv, IdHeldOnce,
       Popped, Holds
<1>3. SendInv'
    BY DEF TypeOK, RegsInv, SendInv, SlotInv, Holds
<1>4. PairInv'
    BY DEF TypeOK, PairInv, RegsInv, SockInv
<1>5. SockInv' /\ SlotInv'
    BY DEF TypeOK, SockInv, SlotInv, RegsInv, SendInv, IdHeldOnce, Popped, Holds
<1>6. IdHeldOnce' /\ IdNotForgotten'
    BY PoolFrame DEF TypeOK, RegsInv, Holds, Popped
<1> QED
    BY <1>1, <1>2, <1>3, <1>4, <1>5, <1>6

\* objects names one player less.
LEMMA DropObjectIInv ==
    ASSUME IInv, NEW t \in Threads, DropObject(t)
    PROVE  IInv'
<1> USE NoConnAssumption, NoIdAssumption
    DEF IInv, DropObject, Accepting, Receiving,
       AcceptStage, CloseStage, MoveStage, SendStage,
       Goto, Return, EndSend, Posted, tables, net, who, regs, hist
<1>1. TypeOK'
    BY DEF TypeOK, RegsInv, SendInv, SlotInv, Holds, SockState, RecvState,
       PcState
<1>2. RegsInv'
    BY DEF TypeOK, RegsInv, SendInv, SlotInv, SockInv, PairInv, IdHeldOnce,
       Popped, Holds
<1>3. SendInv'
    BY DEF TypeOK, RegsInv, SendInv, SlotInv, Holds
<1>4. PairInv'
    BY DEF TypeOK, PairInv, RegsInv, SockInv
<1>5. SockInv' /\ SlotInv'
    BY DEF TypeOK, SockInv, SlotInv, RegsInv, SendInv, IdHeldOnce, Popped, Holds
<1>6. IdHeldOnce' /\ IdNotForgotten'
    BY PoolFrame DEF TypeOK, RegsInv, Holds, Popped
<1> QED
    BY <1>1, <1>2, <1>3, <1>4, <1>5, <1>6

\* players names one player less; the connection keeps the id.
LEMMA DropPlayerIInv ==
    ASSUME IInv, NEW t \in Threads, DropPlayer(t)
    PROVE  IInv'
<1> USE NoConnAssumption, NoIdAssumption
    DEF IInv, DropPlayer, Accepting, Receiving,
       AcceptStage, CloseStage, MoveStage, SendStage,
       Goto, Return, EndSend, Posted, tables, net, who, regs, hist
<1>1. TypeOK'
    BY DEF TypeOK, RegsInv, SendInv, SlotInv, Holds, SockState, RecvState,
       PcState
<1>2. RegsInv'
    BY DEF TypeOK, RegsInv, SendInv, SlotInv, SockInv, PairInv, IdHeldOnce,
       Popped, Holds
<1>3. SendInv'
    BY DEF TypeOK, RegsInv, SendInv, SlotInv, Holds
<1>4. PairInv'
    BY DEF TypeOK, PairInv, RegsInv, SockInv
<1>5. SockInv' /\ SlotInv'
    BY DEF TypeOK, SockInv, SlotInv, RegsInv, SendInv, IdHeldOnce, Popped, Holds
<1>6. IdHeldOnce' /\ IdNotForgotten'
    BY PoolFrame DEF TypeOK, RegsInv, Holds, Popped
<1> QED
    BY <1>1, <1>2, <1>3, <1>4, <1>5, <1>6

\* Every step preserves the invariant.
LEMMA NextIInv == IInv /\ [Next]_vars => IInv'
<1> SUFFICES ASSUME IInv, [Next]_vars PROVE IInv'
    OBVIOUS
<1>1. CASE Network
    BY <1>1, ConnectIInv, HangUpIInv, CompleteIInv, CompleteUnboundIInv DEF Network
<1>2. ASSUME NEW t \in Threads, AcceptStep(t) PROVE IInv'
    BY <1>2, AcceptTakeIInv, PopIdIInv, LoginPlayerIInv, LoginFetchIInv,
       LoginObjectIInv, BindIInv, LocateIInv, EnterIInv, AcceptDoneIInv
       DEF AcceptStep
<1>3. ASSUME NEW t \in Threads, ReceiveStep(t) PROVE IInv'
    <2>1. CASE CloseStep(t)
        BY <2>1, CloseIInv, UnlistIInv, UnslotIInv, LeaveIInv, PushIdIInv
           DEF CloseStep
    <2>2. CASE MoveStep(t)
        BY <2>2, MoveIInv, ResetMoveIInv, MoveInIInv, MoveOutIInv DEF MoveStep
    <2> QED
        BY <1>3, <2>1, <2>2, ReceiveTakeIInv, RepostIInv DEF ReceiveStep
<1>4. ASSUME NEW t \in Threads, SendStep(t) PROVE IInv'
    BY <1>4, PickTargetIInv, CheckTargetIInv, SendPacketIInv, DropObjectIInv,
       DropPlayerIInv DEF SendStep
<1>5. CASE UNCHANGED vars
    <2> USE <1>5 DEF IInv, vars, tables, net, who, regs, hist
    <2>1. TypeOK'
        BY DEF TypeOK
    <2>2. RegsInv' /\ SendInv' /\ PairInv'
        BY DEF RegsInv, SendInv, PairInv, Accepting, Receiving
    <2>3. SockInv' /\ SlotInv'
        BY DEF SockInv, SlotInv, Holds
    <2>4. IdHeldOnce' /\ IdNotForgotten'
        BY DEF IdHeldOnce, IdNotForgotten, Holds, Popped, InPool
    <2> QED
        BY <2>1, <2>2, <2>3, <2>4
<1> QED
    BY <1>1, <1>2, <1>3, <1>4, <1>5 DEF Next

\* Every reachable state satisfies the inductive invariant.
THEOREM Inductive == Spec => []IInv
<1> QED
    BY InitIInv, NextIInv, PTL DEF Spec

\* The variables keep their types.
THEOREM TypeCorrect == Spec => []TypeOK
<1>1. IInv => TypeOK
    BY DEF IInv
<1> QED
    BY <1>1, Inductive, PTL

\* An id is in the pool once, or freshly popped by one accept handler, or held
\* by one connection, and never two of these.
THEOREM IdsHeldOnce == Spec => []IdHeldOnce
<1>1. IInv => IdHeldOnce
    BY DEF IInv
<1> QED
    BY <1>1, Inductive, PTL

\* No id of the pool's first filling is ever unaccounted for.
THEOREM IdsNotForgotten == Spec => []IdNotForgotten
<1>1. IInv => IdNotForgotten
    BY DEF IInv
<1> QED
    BY <1>1, Inductive, PTL

\* The player a receive handler finds under the id of its completion is the
\* one whose receive completed, and it alone works on that player's buffer.
THEOREM HandlersServeTheirPlayers == Spec => []HandlerServesItsPlayer
<1>1. IInv => HandlerServesItsPlayer
    BY DEF IInv, RegsInv, PairInv, HandlerServesItsPlayer
<1> QED
    BY <1>1, Inductive, PTL

\* A login stores its player in an empty slot.
THEOREM SlotsNeverReplaced == Spec => SlotNeverReplaced
<1> DEFINE Keep == \A i \in Ids :
               players[i] # NoConn => players'[i] \in {players[i], NoConn}
<1>1. IInv /\ [Next]_vars => [Keep]_players
    <2> SUFFICES ASSUME IInv, [Next]_vars, players' # players PROVE Keep
        OBVIOUS
    <2>1. ASSUME NEW t \in Threads, LoginPlayer(t) PROVE Keep
        <3>1. key[t] \in Ids /\ Popped(t, key[t])
            BY <2>1 DEF LoginPlayer, Popped, IInv, RegsInv
        <3>2. players[key[t]] = NoConn
            BY <3>1 DEF IInv, TypeOK, SlotInv, IdHeldOnce
        <3> QED
            BY <2>1, <3>2 DEF LoginPlayer, IInv, TypeOK
    <2>2. ASSUME NEW t \in Threads, Unslot(t) \/ DropPlayer(t) PROVE Keep
        BY <2>2 DEF Unslot, DropPlayer, IInv, TypeOK
    <2>3. ~UNCHANGED vars /\ ~Network
        BY DEF Network, Connect, HangUp, Complete, CompleteUnbound, vars, tables
    <2>4. ASSUME NEW t \in Threads, AcceptStep(t) PROVE LoginPlayer(t)
        BY <2>4 DEF AcceptStep, AcceptTake, PopId, LoginFetch, LoginObject, Bind,
                    Locate, Enter, AcceptDone, tables
    <2>5. ASSUME NEW t \in Threads, ReceiveStep(t) PROVE Unslot(t)
        <3>1. CASE CloseStep(t)
            BY <3>1 DEF CloseStep, Close, Unlist, Leave, PushId, tables
        <3>2. CASE MoveStep(t)
            BY <3>2 DEF MoveStep, Move, ResetMove, MoveIn, MoveOut, tables
        <3>3. CASE (\E c \in Conns : ReceiveTake(t, c)) \/ Repost(t)
            BY <3>3 DEF ReceiveTake, Repost, tables
        <3> QED
            BY <2>5, <3>1, <3>2, <3>3 DEF ReceiveStep
    <2>6. ASSUME NEW t \in Threads, SendStep(t) PROVE DropPlayer(t)
        BY <2>6 DEF SendStep, PickTarget, CheckTarget, SendPacket, DropObject, tables
    <2> QED
        BY <2>1, <2>2, <2>3, <2>4, <2>5, <2>6 DEF Next
<1>2. [][Keep]_players => SlotNeverReplaced
    BY PTL DEF SlotNeverReplaced
<1> QED
    BY <1>1, Inductive, PTL DEF Spec, SlotNeverReplaced

-----------------------------------------------------------------------------
(* Sockets *)

\* An accept handler works towards the entry of its player.
Arriving(t) == pc[t] \in AcceptStage \ {"greet"}

\* It has a socket to itself, and that is a client's.
ArrivalInv ==
    /\ \A t \in Threads : Arriving(t) =>
        /\ conn[t] \in Conns
        /\ conn[t] # acceptsocket
        /\ sock[conn[t]] \notin {"unused", "listening"}
    /\ \A t, u \in Threads : Arriving(t) /\ Arriving(u) /\ conn[u] = conn[t] => u = t
    /\ \A t \in Threads : pc[t] \in {"locate", "enter"} => me[t] = conn[t]

\* The accept handler that reads its slot back finds its own player there, or
\* none.
LEMMA BoundItself ==
    ASSUME IInv, NEW t \in Threads, pc[t] \in {"fetch", "publish", "bind"}
    PROVE  players[key[t]] \in {conn[t], NoConn}
<1>1. /\ key[t] \in Ids /\ conn[t] \in Conns /\ idOf[conn[t]] = key[t]
      /\ Holds(conn[t]) /\ players[key[t]] \in Conns \cup {NoConn}
    BY DEF IInv, RegsInv, Accepting, Holds, TypeOK
<1>2. players[key[t]] \in Conns =>
          idOf[players[key[t]]] = key[t] /\ Holds(players[key[t]])
    BY <1>1 DEF IInv, SlotInv
<1> QED
    BY <1>1, <1>2 DEF IInv, IdHeldOnce

\* A step that begins no accept handler and takes none to "locate".
LEMMA ArrivalFrame ==
    ASSUME ArrivalInv, acceptsocket' = acceptsocket,
           \A c \in Conns :
               sock'[c] \in {"unused", "listening"} => sock[c] \in {"unused", "listening"},
           \A t \in Threads : Arriving(t)' => Arriving(t) /\ conn'[t] = conn[t],
           \A t \in Threads : pc'[t] \in {"locate", "enter"} =>
               pc[t] \in {"locate", "enter"} /\ me'[t] = me[t]
    PROVE  ArrivalInv'
    BY DEF ArrivalInv, Arriving, AcceptStage

\* Accept handlers share no socket.
LEMMA NextArrival == IInv /\ ArrivalInv /\ [Next]_vars => ArrivalInv'
<1> SUFFICES ASSUME IInv, ArrivalInv, [Next]_vars PROVE ArrivalInv'
    OBVIOUS
<1> USE DEF Goto, Return, EndSend, tables, net, who, regs, hist, AcceptStage, Arriving
<1>1. CASE Network \/ UNCHANGED vars
    BY <1>1, ArrivalFrame DEF Network, Connect, HangUp, Complete, CompleteUnbound, vars,
       IInv, TypeOK
<1>2. ASSUME NEW t \in Threads, AcceptTake(t) PROVE ArrivalInv'
    <2>1. /\ acceptsocket \in Conns /\ sock[acceptsocket] \notin {"unused", "listening"}
          /\ \A u \in Threads : conn'[u] = IF u = t THEN acceptsocket ELSE conn[u]
          /\ \A u \in Threads : pc'[u] = IF u = t THEN "pop" ELSE pc[u]
          /\ me' = me
          /\ \A c \in Conns : c # acceptsocket' => sock'[c] = sock[c]
          /\ acceptsocket' = NoConn \/ sock[acceptsocket'] = "unused"
        BY <1>2 DEF AcceptTake, IInv, TypeOK, SockInv
    <2> QED
        BY <2>1, NoConnAssumption DEF ArrivalInv
<1>3. ASSUME NEW t \in Threads, Bind(t) PROVE ArrivalInv'
    BY <1>3, BoundItself DEF Bind, IInv, TypeOK, ArrivalInv
<1>4. ASSUME NEW t \in Threads,
             PopId(t) \/ LoginPlayer(t) \/ LoginFetch(t) \/ LoginObject(t)
                 \/ Locate(t) \/ Enter(t) \/ AcceptDone(t)
      PROVE  ArrivalInv'
    BY <1>4, ArrivalFrame DEF PopId, LoginPlayer, LoginFetch, LoginObject, Locate,
       Enter, AcceptDone, IInv, TypeOK
<1>5. ASSUME NEW t \in Threads, ReceiveStep(t) PROVE ArrivalInv'
    <2>1. CASE CloseStep(t)
        BY <2>1, ArrivalFrame DEF CloseStep, Close, Unlist, Unslot, Leave, PushId,
           IInv, TypeOK
    <2>2. CASE MoveStep(t) \/ Repost(t) \/ \E c \in Conns : ReceiveTake(t, c)
        BY <2>2, ArrivalFrame DEF MoveStep, Move, ResetMove, MoveIn, MoveOut, Repost,
           ReceiveTake, IInv, TypeOK
    <2> QED
        BY <1>5, <2>1, <2>2 DEF ReceiveStep
<1>6. ASSUME NEW t \in Threads, SendStep(t) PROVE ArrivalInv'
    BY <1>6, ArrivalFrame DEF SendStep, PickTarget, CheckTarget, SendPacket,
       DropObject, DropPlayer, IInv, TypeOK
<1> QED
    BY <1>1, <1>2, <1>3, <1>4, <1>5, <1>6 DEF Next, AcceptStep

\* The invariant of the accept handlers holds in every reachable state.
LEMMA ArrivalInductive == Spec => []ArrivalInv
<1>1. Init => ArrivalInv
    BY DEF Init, ArrivalInv, Arriving, AcceptStage
<1> QED
    BY <1>1, NextArrival, Inductive, PTL DEF Spec

\* However the accept handlers interleave, each has a socket of its own, and
\* none has the one that the pending AcceptEx will fill.
THEOREM AcceptedSocketsApart == Spec => []AcceptedOnce
<1>1. ArrivalInv => AcceptedOnce
    BY DEF ArrivalInv, AcceptedOnce, Arriving
<1> QED
    BY <1>1, ArrivalInductive, PTL

-----------------------------------------------------------------------------
(* The two tables *)

\* objects may name a player that players does not own only once that player
\* was kicked; and a handler between the statements of Login or of Logout
\* will not make it so: the accept handler owns its slot unless its player was
\* kicked.
TableInv ==
    /\ TablesAgree
    /\ \A t \in Threads :
        /\ pc[t] = "publish" => me[t] \in {NoConn, players[key[t]]} \cup kicked
        /\ pc[t] = "unslot" => objects[key[t]] \in {NoConn} \cup kicked
        /\ pc[t] \in {"fetch", "publish", "bind"} =>
               conn[t] \in {players[key[t]]} \cup kicked

\* A step that changes neither table and is not between two statements of
\* Login or of Logout.
LEMMA TableFrame ==
    ASSUME TableInv, UNCHANGED <<players, objects>>, kicked \subseteq kicked',
           \A t \in Threads :
               \/ /\ pc'[t] = pc[t] /\ conn'[t] = conn[t] /\ me'[t] = me[t]
                  /\ key'[t] = key[t]
               \/ pc'[t] \notin {"fetch", "publish", "bind", "unslot"}
    PROVE  TableInv'
<1>1. TablesAgree'
    BY DEF TableInv, TablesAgree
<1> QED
    BY <1>1 DEF TableInv

\* A handler that closes a connection and one that publishes its player do not
\* work on the same id.
LEMMA PublishApart ==
    ASSUME IInv, NEW t \in Threads, NEW u \in Threads,
           pc[t] \in {"fetch", "publish", "bind"}, Receiving(u)
    PROVE  key[t] # key[u]
<1>1. /\ conn[t] \in Conns /\ idOf[conn[t]] = key[t] /\ recv[conn[t]] \in {"unbound", "dead"}
      /\ conn[u] \in Conns /\ idOf[conn[u]] = key[u] /\ recv[conn[u]] = "busy"
    BY DEF IInv, RegsInv, Accepting
<1> QED
    BY <1>1 DEF IInv, IdHeldOnce, Holds

\* An id just popped has an empty slot.
LEMMA PoppedSlotEmpty ==
    ASSUME IInv, NEW t \in Threads, pc[t] = "login"
    PROVE  key[t] \in Ids /\ players[key[t]] = NoConn
<1>1. key[t] \in Ids /\ Popped(t, key[t])
    BY DEF Popped, IInv, RegsInv
<1> QED
    BY <1>1 DEF IInv, TypeOK, SlotInv, IdHeldOnce

\* Two accept handlers have different ids, and so have two receive handlers.
LEMMA KeysApart ==
    ASSUME IInv, NEW t \in Threads, NEW u \in Threads, t # u
    PROVE  /\ pc[t] \in {"fetch", "publish", "bind"}
                  /\ pc[u] \in {"login", "fetch", "publish", "bind"} => key[t] # key[u]
           /\ Receiving(t) /\ Receiving(u) => key[t] # key[u]
           /\ Receiving(t) /\ pc[u] = "login" => key[t] # key[u]
<1>1. pc[t] \in {"fetch", "publish", "bind"} \/ Receiving(t) =>
          conn[t] \in Conns /\ idOf[conn[t]] = key[t] /\ Holds(conn[t]) /\ key[t] \in Ids
    BY DEF IInv, RegsInv, Accepting, Holds, SlotInv
<1>2. pc[u] \in {"fetch", "publish", "bind"} \/ Receiving(u) =>
          conn[u] \in Conns /\ idOf[conn[u]] = key[u] /\ Holds(conn[u])
    BY DEF IInv, RegsInv, Accepting, Holds
<1>3. pc[u] = "login" => key[u] \in Ids /\ Popped(u, key[u])
    BY DEF IInv, RegsInv, Popped
<1>4. /\ Accepting(t) /\ Accepting(u) => conn[t] # conn[u]
      /\ Receiving(t) /\ Receiving(u) => conn[t] # conn[u]
    BY DEF IInv, PairInv
<1>5. ASSUME pc[u] = "login" PROVE \A c \in Conns : Holds(c) => idOf[c] # key[u]
    BY <1>3, <1>5 DEF IInv, IdHeldOnce
<1> QED
    BY <1>1, <1>2, <1>4, <1>5 DEF IInv, IdHeldOnce, Accepting

\* Login and Logout keep the tables in agreement.
LEMMA NextTable == IInv /\ TableInv /\ [Next]_vars => TableInv'
<1> SUFFICES ASSUME IInv, TableInv, [Next]_vars PROVE TableInv'
    OBVIOUS
<1> USE DEF Goto, Return, EndSend, tables, net, who, regs, hist
<1>0. /\ players \in [Ids -> Conns \cup {NoConn}] /\ objects \in [Ids -> Conns \cup {NoConn}]
      /\ \A t \in Threads : Receiving(t) =>
             me[t] = conn[t] /\ conn[t] \in Conns /\ key[t] = idOf[conn[t]] /\ key[t] \in Ids
    BY DEF IInv, TypeOK, RegsInv, SlotInv, Holds
<1>1. CASE Network \/ UNCHANGED vars
    BY <1>1, TableFrame DEF Network, Connect, HangUp, Complete, CompleteUnbound, vars
<1>2. ASSUME NEW t \in Threads,
             AcceptTake(t) \/ PopId(t) \/ Bind(t) \/ Locate(t) \/ Enter(t) \/ AcceptDone(t)
      PROVE  TableInv'
    BY <1>2, TableFrame DEF AcceptTake, PopId, Bind, Locate, Enter, AcceptDone,
       IInv, TypeOK
<1>3. ASSUME NEW t \in Threads, LoginPlayer(t) PROVE TableInv'
    <2>1. /\ pc[t] = "login" /\ pc' = [pc EXCEPT ![t] = "fetch"]
          /\ players' = [players EXCEPT ![key[t]] = conn[t]]
          /\ UNCHANGED <<objects, conn, me, key, kicked>>
        BY <1>3 DEF LoginPlayer
    <2>2. key[t] \in Ids /\ players[key[t]] = NoConn
        BY <2>1, PoppedSlotEmpty
    <2>3. \A i \in Ids : players'[i] = IF i = key[t] THEN conn[t] ELSE players[i]
        BY <1>0, <2>1
    <2>4. TablesAgree'
        BY <2>1, <2>2, <2>3 DEF TableInv, TablesAgree
    <2>5. \A u \in Threads : pc'[u] = IF u = t THEN "fetch" ELSE pc[u]
        BY <2>1 DEF IInv, TypeOK
    <2>6. \A u \in Threads : pc[u] \in {"fetch", "publish", "bind"} =>
              key[u] \in Ids /\ key[u] # key[t]
        BY <2>1, KeysApart DEF IInv, RegsInv
    <2> QED
        BY <2>1, <2>2, <2>3, <2>4, <2>5, <2>6 DEF TableInv
<1>4. ASSUME NEW t \in Threads, LoginFetch(t) PROVE TableInv'
    <2>1. /\ \A u \in Threads : pc'[u] = IF u = t THEN "publish" ELSE pc[u]
          /\ \A u \in Threads : me'[u] = IF u = t THEN players[key[t]] ELSE me[u]
          /\ pc[t] = "fetch" /\ UNCHANGED <<players, objects, conn, key, kicked>>
        BY <1>4 DEF LoginFetch, IInv, TypeOK
    <2>2. TablesAgree'
        BY <2>1 DEF TableInv, TablesAgree
    <2> QED
        BY <2>1, <2>2 DEF TableInv
<1>5. ASSUME NEW t \in Threads, LoginObject(t) PROVE TableInv'
    <2>1. /\ pc[t] = "publish" /\ pc' = [pc EXCEPT ![t] = "bind"]
          /\ objects' = [objects EXCEPT ![key[t]] = me[t]]
          /\ UNCHANGED <<players, conn, me, key, kicked>>
        BY <1>5 DEF LoginObject
    <2>2. \A u \in Threads : pc'[u] = IF u = t THEN "bind" ELSE pc[u]
        BY <2>1 DEF IInv, TypeOK
    <2>3. \A i \in Ids : objects'[i] = IF i = key[t] THEN me[t] ELSE objects[i]
        BY <1>0, <2>1
    <2>4. TablesAgree'
        BY <2>1, <2>3 DEF TableInv, TablesAgree
    <2>5. \A u \in Threads : pc[u] = "unslot" => key[u] \in Ids /\ key[u] # key[t]
        BY <1>0, <2>1, PublishApart DEF Receiving, CloseStage
    <2> QED
        BY <2>1, <2>2, <2>3, <2>4, <2>5 DEF TableInv
<1>6. ASSUME NEW t \in Threads, Unlist(t) PROVE TableInv'
    <2>1. /\ Receiving(t) /\ pc' = [pc EXCEPT ![t] = "unslot"]
          /\ objects' = [objects EXCEPT ![idOf[me[t]]] = NoConn]
          /\ UNCHANGED <<players, conn, me, key, kicked>>
        BY <1>6 DEF Unlist, Receiving, CloseStage
    <2>2. \A u \in Threads : pc'[u] = IF u = t THEN "unslot" ELSE pc[u]
        BY <2>1 DEF IInv, TypeOK
    <2>3. \A i \in Ids : objects'[i] = IF i = key[t] THEN NoConn ELSE objects[i]
        BY <1>0, <2>1
    <2>4. TablesAgree'
        BY <2>1, <2>3 DEF TableInv, TablesAgree
    <2>5. \A u \in Threads : pc[u] = "unslot" => key[u] \in Ids
        BY <1>0 DEF Receiving, CloseStage
    <2> QED
        BY <1>0, <2>1, <2>2, <2>3, <2>4, <2>5 DEF TableInv
<1>7. ASSUME NEW t \in Threads, Unslot(t) PROVE TableInv'
    <2>1. /\ Receiving(t) /\ pc[t] = "unslot" /\ pc' = [pc EXCEPT ![t] = "leave"]
          /\ players' = [players EXCEPT ![idOf[me[t]]] = NoConn]
          /\ UNCHANGED <<objects, conn, me, key, kicked>>
        BY <1>7 DEF Unslot, Receiving, CloseStage
    <2>2. \A u \in Threads : pc'[u] = IF u = t THEN "leave" ELSE pc[u]
        BY <2>1 DEF IInv, TypeOK
    <2>3. \A i \in Ids : players'[i] = IF i = key[t] THEN NoConn ELSE players[i]
        BY <1>0, <2>1
    <2>4. TablesAgree'
        BY <2>1, <2>3 DEF TableInv, TablesAgree
    <2>5. \A u \in Threads : pc[u] \in {"fetch", "publish", "bind"} =>
              key[u] \in Ids /\ key[u] # key[t]
        BY <1>0, <2>1, PublishApart DEF IInv, RegsInv
    <2> QED
        BY <2>1, <2>2, <2>3, <2>4, <2>5 DEF TableInv
<1>8. ASSUME NEW t \in Threads,
             \/ Close(t) \/ Leave(t) \/ PushId(t) \/ MoveStep(t) \/ Repost(t)
             \/ \E c \in Conns : ReceiveTake(t, c)
      PROVE  TableInv'
    BY <1>8, TableFrame DEF Close, Leave, PushId, MoveStep, Move, ResetMove, MoveIn,
       MoveOut, Repost, ReceiveTake, IInv, TypeOK
<1>9. ASSUME NEW t \in Threads,
             (\E d \in Conns : PickTarget(t, d)) \/ CheckTarget(t) \/ SendPacket(t)
      PROVE  TableInv'
    BY <1>9, TableFrame DEF PickTarget, CheckTarget, SendPacket, IInv, TypeOK
<1>10. ASSUME NEW t \in Threads, DropObject(t) PROVE TableInv'
    <2>1. /\ pc' = [pc EXCEPT ![t] = "dropslot"]
          /\ objects' = [objects EXCEPT ![idOf[tgt[t]]] = NoConn]
          /\ UNCHANGED <<players, conn, me, key, kicked>>
        BY <1>10 DEF DropObject
    <2>2. \A u \in Threads : pc'[u] = IF u = t THEN "dropslot" ELSE pc[u]
        BY <2>1 DEF IInv, TypeOK
    <2>3. \A i \in Ids : objects'[i] \in {NoConn, objects[i]}
        BY <1>0, <2>1
    <2>4. TablesAgree'
        BY <2>1, <2>3 DEF TableInv, TablesAgree
    <2>5. \A u \in Threads : pc[u] = "unslot" => key[u] \in Ids
        BY <1>0 DEF Receiving, CloseStage
    <2> QED
        BY <2>1, <2>2, <2>3, <2>4, <2>5 DEF TableInv
<1>11. ASSUME NEW t \in Threads, DropPlayer(t) PROVE TableInv'
    <2>1. /\ pc' = [pc EXCEPT ![t] = back[t]] /\ back[t] \in {"idle", "work", "greet"}
          /\ players' = [players EXCEPT ![idOf[tgt[t]]] = NoConn]
          /\ kicked' = kicked \cup ({players[idOf[tgt[t]]]} \ {NoConn})
          /\ UNCHANGED <<objects, conn, me, key>>
        BY <1>11 DEF DropPlayer, IInv, TypeOK
    <2>2. \A u \in Threads : pc'[u] \in {"fetch", "publish", "bind", "unslot"} =>
              pc[u] = pc'[u]
        BY <2>1 DEF IInv, TypeOK
    <2>3. \A i \in Ids : \/ players'[i] = players[i]
                         \/ players'[i] = NoConn /\ players[i] \in kicked' \cup {NoConn}
        BY <1>0, <2>1
    <2>4. TablesAgree'
        BY <2>1, <2>3 DEF TableInv, TablesAgree
    <2>5. \A u \in Threads : pc[u] \in {"fetch", "publish", "bind"} =>
              key[u] \in Ids /\ conn[u] \in Conns
        BY DEF IInv, RegsInv, Accepting
    <2> QED
        BY <2>1, <2>2, <2>3, <2>4, <2>5 DEF TableInv
<1> QED
    BY <1>1, <1>2, <1>3, <1>4, <1>5, <1>6, <1>7, <1>8, <1>9, <1>10, <1>11
       DEF Next, AcceptStep, ReceiveStep, CloseStep, SendStep

\* The invariant of the tables holds in every reachable state.
LEMMA TableInductive == Spec => []TableInv
<1>1. Init => TableInv
    BY DEF Init, TableInv, TablesAgree
<1> QED
    BY <1>1, NextTable, Inductive, PTL DEF Spec

\* Whatever handlers run between the two statements of Login and of Logout,
\* objects names the owner of the slot or a player that a failed send kicked.
THEOREM TablesKeepAgreeing == Spec => []TablesAgree
<1>1. TableInv => TablesAgree
    BY DEF TableInv
<1> QED
    BY <1>1, TableInductive, PTL

-----------------------------------------------------------------------------
(* Players kicked by a failed send *)

\* The end of a connection: seen by the sender, closed by the handler; only
\* its own handler gives the id of a player back, after closing the socket.
KickInv ==
    /\ HealthyKickNeedsReuse
    /\ \A c \in Conns :
        /\ recv[c] = "returned" => sock[c] = "closed"
        /\ recv[c] = "none" => idOf[c] = NoId
    /\ \A c \in kicked \cup early : idOf[c] \in Ids
    /\ \A t \in Threads :
        /\ pc[t] \in {"drop", "dropslot"} => sock[tgt[t]] \in {"hungup", "closed"}
        /\ pc[t] \in CloseStage \ {"close"} => sock[me[t]] = "closed"
    /\ acceptsocket # NoConn /\ ~connected => sock[acceptsocket] = "listening"

\* A step that kicks nobody and ends no connection.
LEMMA KickFrame ==
    ASSUME IInv, KickInv, UNCHANGED <<idOf, kicked, early>>,
           \A c \in Conns : /\ sock[c] = "closed" => sock'[c] = "closed"
                            /\ sock[c] = "hungup" => sock'[c] \in {"hungup", "closed"}
                            /\ recv'[c] = "returned" => recv[c] = "returned"
                            /\ recv'[c] = "none" => recv[c] = "none",
           \A t \in Threads :
               /\ pc'[t] \in {"drop", "dropslot"} =>
                      pc[t] \in {"drop", "dropslot"} /\ tgt'[t] = tgt[t]
               /\ pc'[t] \in CloseStage \ {"close"} =>
                      pc[t] \in CloseStage \ {"close"} /\ me'[t] = me[t],
           acceptsocket' # NoConn /\ ~connected' =>
               /\ acceptsocket' = acceptsocket /\ connected' = connected
               /\ sock'[acceptsocket] = sock[acceptsocket]
    PROVE  KickInv'
<1>1. /\ kicked \subseteq Conns
      /\ \A t \in Threads : pc[t] \in CloseStage \ {"close"} => me[t] \in Conns
      /\ \A t \in Threads : pc[t] \in {"drop", "dropslot"} => tgt[t] \in Conns
    BY DEF IInv, TypeOK, RegsInv, SendInv, Receiving, SendStage
<1>2. HealthyKickNeedsReuse'
    BY <1>1 DEF KickInv, HealthyKickNeedsReuse
<1> QED
    BY <1>1, <1>2 DEF KickInv

\* A player is kicked for the connection of another only after that one's id
\* was given back.
LEMMA NextKick == IInv /\ KickInv /\ [Next]_vars => KickInv'
<1> SUFFICES ASSUME IInv, KickInv, [Next]_vars PROVE KickInv'
    OBVIOUS
<1> USE NoConnAssumption, NoIdAssumption
    DEF Goto, Return, EndSend, tables, net, who, regs, hist, CloseStage
<1>0. /\ sock \in [Conns -> SockState] /\ recv \in [Conns -> RecvState]
      /\ \A t \in Threads : Receiving(t) =>
             /\ me[t] = conn[t] /\ conn[t] \in Conns /\ recv[conn[t]] = "busy"
             /\ key[t] = idOf[conn[t]] /\ key[t] \in Ids
    BY DEF IInv, TypeOK, RegsInv, SlotInv, Holds
<1>1. CASE Network \/ UNCHANGED vars
    <2>1. CASE Connect
        <3>1. /\ acceptsocket \in Conns /\ sock[acceptsocket] = "listening"
              /\ sock' = [sock EXCEPT ![acceptsocket] = "open"] /\ connected'
            BY <2>1 DEF Connect, IInv, TypeOK, KickInv
        <3> QED
            BY <1>0, <2>1, <3>1, KickFrame DEF Connect
    <2>2. ASSUME NEW c \in Conns, HangUp(c) PROVE KickInv'
        BY <1>0, <2>2, KickFrame DEF HangUp, KickInv
    <2>3. ASSUME NEW c \in Conns, Complete(c) \/ CompleteUnbound(c) PROVE KickInv'
        BY <1>0, <2>3, KickFrame DEF Complete, CompleteUnbound
    <2> QED
        BY <1>1, <2>1, <2>2, <2>3, KickFrame DEF Network, vars
<1>2. ASSUME NEW t \in Threads, AcceptTake(t) PROVE KickInv'
    <2>1. /\ \/ /\ acceptsocket' \in Conns /\ sock[acceptsocket'] = "unused"
                /\ sock' = [sock EXCEPT ![acceptsocket'] = "listening"]
             \/ acceptsocket' = NoConn /\ sock' = sock
          /\ \A u \in Threads : pc'[u] = IF u = t THEN "pop" ELSE pc[u]
          /\ UNCHANGED <<recv, idOf, kicked, early, me, tgt>>
        BY <1>2 DEF AcceptTake, IInv, TypeOK
    <2>2. /\ \A c \in Conns : sock[c] \in {"hungup", "closed"} => sock'[c] = sock[c]
          /\ acceptsocket' # NoConn => sock'[acceptsocket'] = "listening"
        BY <1>0, <2>1
    <2>3. /\ kicked \subseteq Conns
          /\ \A u \in Threads : pc[u] \in CloseStage \ {"close"} => me[u] \in Conns
          /\ \A u \in Threads : pc[u] \in {"drop", "dropslot"} => tgt[u] \in Conns
        BY DEF IInv, TypeOK, RegsInv, SendInv, Receiving, SendStage
    <2>4. HealthyKickNeedsReuse'
        BY <2>1, <2>2, <2>3 DEF KickInv, HealthyKickNeedsReuse
    <2> QED
        BY <2>1, <2>2, <2>3, <2>4 DEF KickInv
<1>3. ASSUME NEW t \in Threads, LoginPlayer(t) PROVE KickInv'
    <2>1. /\ pc[t] = "login" /\ conn[t] \in Conns /\ key[t] \in Ids /\ recv[conn[t]] = "none"
          /\ UNCHANGED <<sock, kicked, early, me, tgt, acceptsocket, connected>>
          /\ \A u \in Threads : pc'[u] = IF u = t THEN "fetch" ELSE pc[u]
          /\ \A c \in Conns : idOf'[c] = IF c = conn[t] THEN key[t] ELSE idOf[c]
          /\ \A c \in Conns : c # conn[t] => recv'[c] = recv[c]
          /\ recv'[conn[t]] \in {"unbound", "dead"}
        BY <1>3 DEF LoginPlayer, Posted, IInv, RegsInv, Accepting, TypeOK
    <2>2. kicked \cup early \subseteq Conns /\ conn[t] \notin kicked \cup early
        BY <2>1 DEF KickInv, IInv, TypeOK
    <2>3. HealthyKickNeedsReuse'
        BY <2>1, <2>2 DEF KickInv, HealthyKickNeedsReuse
    <2> QED
        BY <2>1, <2>2, <2>3 DEF KickInv
<1>4. ASSUME NEW t \in Threads,
             \/ PopId(t) \/ LoginFetch(t) \/ LoginObject(t) \/ Bind(t) \/ Locate(t)
             \/ Enter(t) \/ AcceptDone(t)
      PROVE  KickInv'
    <2>1. ASSUME Bind(t) PROVE KickInv'
        <3>1. recv[conn[t]] \in {"unbound", "dead"} /\ conn[t] \in Conns
            BY <2>1 DEF Bind, IInv, RegsInv, Accepting
        <3> QED
            BY <1>0, <2>1, <3>1, KickFrame DEF Bind, IInv, TypeOK
    <2> QED
        BY <1>4, <2>1, KickFrame DEF PopId, LoginFetch, LoginObject, Locate, Enter,
           AcceptDone, IInv, TypeOK
<1>5. ASSUME NEW t \in Threads, Close(t) PROVE KickInv'
    <2>1. /\ conn[t] # acceptsocket /\ Receiving(t) /\ me[t] \in Conns
          /\ sock' = [sock EXCEPT ![me[t]] = "closed"]
          /\ \A u \in Threads : pc'[u] = IF u = t THEN "unlist" ELSE pc[u]
          /\ UNCHANGED <<recv, idOf, kicked, early, me, tgt, acceptsocket, connected>>
        BY <1>0, <1>5 DEF Close, IInv, TypeOK, Receiving, SockInv
    <2>2. \A c \in Conns : sock'[c] = IF c = me[t] THEN "closed" ELSE sock[c]
        BY <1>0, <2>1
    <2>3. /\ kicked \subseteq Conns
          /\ \A u \in Threads : pc[u] \in CloseStage \ {"close"} => me[u] \in Conns
          /\ \A u \in Threads : pc[u] \in {"drop", "dropslot"} => tgt[u] \in Conns
        BY DEF IInv, TypeOK, RegsInv, SendInv, Receiving, SendStage
    <2>4. HealthyKickNeedsReuse'
        BY <2>1, <2>2, <2>3 DEF KickInv, HealthyKickNeedsReuse
    <2>5. acceptsocket \in Conns \cup {NoConn} /\ acceptsocket # me[t]
        BY <1>0, <2>1 DEF IInv, TypeOK
    <2> QED
        BY <2>1, <2>2, <2>3, <2>4, <2>5 DEF KickInv
<1>6. ASSUME NEW t \in Threads, PushId(t) PROVE KickInv'
    <2>1. /\ pc[t] = "push" /\ Receiving(t) /\ sock[conn[t]] = "closed"
          /\ \A u \in Threads : pc'[u] = IF u = t THEN "idle" ELSE pc[u]
          /\ \A u \in Threads : u # t => me'[u] = me[u]
          /\ \A c \in Conns : recv'[c] = IF c = conn[t] THEN "returned" ELSE recv[c]
          /\ UNCHANGED <<sock, idOf, kicked, early, tgt, acceptsocket, connected>>
        BY <1>0, <1>6 DEF PushId, IInv, TypeOK, Receiving, KickInv
    <2>2. HealthyKickNeedsReuse'
        BY <2>1 DEF KickInv, HealthyKickNeedsReuse
    <2> QED
        BY <2>1, <2>2 DEF KickInv
<1>7. ASSUME NEW t \in Threads, Leave(t) \/ \E s \in Sectors : Move(t, s) PROVE KickInv'
    <2>0. /\ Receiving(t) /\ early' \subseteq early \cup {me[t]}
          /\ UNCHANGED <<recv, sock, idOf, kicked, me, tgt, acceptsocket, connected>>
        BY <1>7 DEF Leave, Move, Receiving
    <2>1. \A u \in Threads : \/ pc'[u] = pc[u]
                             \/ u = t /\ pc'[u] = "moved"
                             \/ u = t /\ pc[u] = "leave" /\ pc'[u] = "push"
        <3>1. \/ pc[t] = "leave" /\ pc' = [pc EXCEPT ![t] = "push"]
              \/ pc' = [pc EXCEPT ![t] = "moved"]
            BY <1>7 DEF Leave, Move
        <3>2. pc \in [Threads -> PcState]
            BY DEF IInv, TypeOK
        <3> QED
            BY <3>1, <3>2
    <2>2. HealthyKickNeedsReuse' /\ idOf[me[t]] \in Ids
        BY <1>0, <2>0 DEF KickInv, HealthyKickNeedsReuse
    <2> QED
        BY <2>0, <2>1, <2>2 DEF KickInv
<1>8. ASSUME NEW t \in Threads, Unlist(t) \/ Unslot(t) PROVE KickInv'
    BY <1>8, KickFrame DEF Unlist, Unslot, IInv, TypeOK
<1>9. ASSUME NEW t \in Threads,
             \/ ResetMove(t) \/ MoveIn(t) \/ MoveOut(t) \/ Repost(t)
             \/ \E c \in Conns : ReceiveTake(t, c)
      PROVE  KickInv'
    <2>1. ASSUME Repost(t) PROVE KickInv'
        <3>1. conn[t] \in Conns /\ recv[conn[t]] = "busy"
            BY <1>0, <2>1 DEF Repost, Receiving
        <3> QED
            BY <1>0, <2>1, <3>1, KickFrame DEF Repost, Posted, IInv, TypeOK
    <2>2. ASSUME NEW c \in Conns, ReceiveTake(t, c) PROVE KickInv'
        BY <1>0, <2>2, KickFrame DEF ReceiveTake, IInv, TypeOK
    <2> QED
        BY <1>9, <2>1, <2>2, KickFrame DEF ResetMove, MoveIn, MoveOut, IInv, TypeOK
<1>10. ASSUME NEW t \in Threads,
              (\E d \in Conns : PickTarget(t, d)) \/ CheckTarget(t) \/ DropObject(t)
       PROVE  KickInv'
    <2>1. ASSUME NEW d \in Conns, PickTarget(t, d) PROVE KickInv'
        BY <2>1, KickFrame DEF PickTarget, IInv, TypeOK
    <2>2. ASSUME CheckTarget(t) PROVE KickInv'
        BY <2>2, KickFrame DEF CheckTarget, IInv, TypeOK
    <2> QED
        BY <1>10, <2>1, <2>2, KickFrame DEF DropObject, IInv, TypeOK
<1>11. ASSUME NEW t \in Threads, SendPacket(t) PROVE KickInv'
    <2>1. CASE EndSend(t)
        BY <1>11, <2>1, KickFrame DEF SendPacket, IInv, TypeOK
    <2>2. CASE sock[tgt[t]] \in {"hungup", "closed"} /\ Goto(t, "drop") /\ UNCHANGED <<tgt, back>>
        <3>1. \A u \in Threads : pc'[u] = IF u = t THEN "drop" ELSE pc[u]
            BY <2>2 DEF IInv, TypeOK
        <3>2. UNCHANGED <<recv, sock, idOf, kicked, early, me, tgt, acceptsocket, connected>>
            BY <1>11, <2>2 DEF SendPacket
        <3>3. HealthyKickNeedsReuse'
            BY <3>2 DEF KickInv, HealthyKickNeedsReuse
        <3> QED
            BY <2>2, <3>1, <3>2, <3>3 DEF KickInv
    <2> QED
        BY <1>11, <2>1, <2>2 DEF SendPacket
<1>12. ASSUME NEW t \in Threads, DropPlayer(t) PROVE KickInv'
    <2>1. /\ pc[t] = "dropslot" /\ back[t] \in {"idle", "work", "greet"}
          /\ kicked' = kicked \cup ({players[idOf[tgt[t]]]} \ {NoConn})
          /\ \A u \in Threads : pc'[u] = IF u = t THEN back[t] ELSE pc[u]
          /\ \A u \in Threads : u # t => tgt'[u] = tgt[u]
          /\ UNCHANGED <<recv, sock, idOf, early, me, acceptsocket, connected>>
        BY <1>12 DEF DropPlayer, IInv, TypeOK
    <2>2. /\ tgt[t] \in Conns /\ idOf[tgt[t]] \in Ids
          /\ sock[tgt[t]] \in {"hungup", "closed"}
        BY <2>1 DEF IInv, SendInv, SendStage, KickInv
    <2> PICK i \in Ids : i = idOf[tgt[t]]
        BY <2>2
    <2>3. ASSUME players[i] # NoConn
          PROVE  /\ players[i] \in Conns /\ idOf[players[i]] = i
                 /\ \/ players[i] = tgt[t]
                    \/ players[i] # tgt[t] /\ sock[tgt[t]] = "closed"
        <3>1. players[i] \in Conns /\ idOf[players[i]] = i /\ Holds(players[i])
            BY <2>3 DEF IInv, TypeOK, SlotInv
        <3>2. Holds(tgt[t]) => tgt[t] = players[i]
            BY <2>2, <3>1 DEF IInv, IdHeldOnce
        <3>3. ~Holds(tgt[t]) => sock[tgt[t]] = "closed"
            BY <2>2 DEF KickInv, Holds
        <3> QED
            BY <3>1, <3>2, <3>3
    <2>4. HealthyKickNeedsReuse'
        BY <2>1, <2>2, <2>3 DEF KickInv, HealthyKickNeedsReuse
    <2> QED
        BY <2>1, <2>3, <2>4 DEF KickInv
<1> QED
    BY <1>1, <1>2, <1>3, <1>4, <1>5, <1>6, <1>7, <1>8, <1>9, <1>10, <1>11, <1>12
       DEF Next, AcceptStep, ReceiveStep, CloseStep, MoveStep, SendStep

\* The invariant of the connections' ends holds in every reachable state.
LEMMA KickInductive == Spec => []KickInv
<1>1. Init => KickInv
    BY DEF Init, KickInv, HealthyKickNeedsReuse, CloseStage
<1> QED
    BY <1>1, NextKick, Inductive, PTL DEF Spec

\* A player with a healthy connection is kicked only for an earlier player of
\* the same id, whose connection was closed.
THEOREM HealthyKicksNeedReuse == Spec => []HealthyKickNeedsReuse
<1>1. KickInv => HealthyKickNeedsReuse
    BY DEF KickInv
<1> QED
    BY <1>1, KickInductive, PTL

-----------------------------------------------------------------------------
(* Sectors *)

\* An accept handler has built its player and not yet entered it into a sector.
Coming(t) == pc[t] \in {"fetch", "publish", "bind", "locate", "enter"}

\* A receive handler is between two changes of the sectors, or past the last.
Crossing(t) == pc[t] \in {"moved", "entered", "push"}

\* No player with id i was kicked, moved or left too early.
Clean(i) == \A c \in kicked \cup early : idOf[c] # i

\* Where the id of a player is, by what is being done to the player.
Placed(c) ==
    Holds(c) /\ Clean(idOf[c]) =>
        /\ \A t \in Threads : Coming(t) /\ conn[t] = c =>
            /\ \A s \in Sectors : idOf[c] \notin sectors[s]
            /\ pc[t] = "enter" => at[t] = pos[c]
            /\ \A u \in Threads : Crossing(u) => conn[u] # c
        /\ \A t \in Threads : Crossing(t) /\ conn[t] = c =>
            /\ pc[t] \in {"moved", "entered"} => at[t] # pos[c]
            /\ pc[t] = "moved" =>
                \A s \in Sectors : idOf[c] \in sectors[s] <=> s = at[t]
            /\ pc[t] = "entered" =>
                \A s \in Sectors : idOf[c] \in sectors[s] <=> s \in {at[t], pos[c]}
            /\ pc[t] = "push" => \A s \in Sectors : idOf[c] \notin sectors[s]
        /\ (\A t \in Threads : Coming(t) \/ Crossing(t) => conn[t] # c) =>
            \A s \in Sectors : idOf[c] \in sectors[s] <=> s = pos[c]

\* An id nobody holds is in no sector, the id of a player is where the player
\* is, and a handler that builds a player still holds its id.
SectorInv ==
    /\ \A i \in Ids : Clean(i) /\ (InPool(i) \/ \E t \in Threads : Popped(t, i)) =>
        \A s \in Sectors : i \notin sectors[s]
    /\ \A c \in Conns : Placed(c)
    /\ \A t \in Threads : Coming(t) /\ Clean(idOf[conn[t]]) => Holds(conn[t])

\* Players once kicked or moved early remain so.
LEMMA CleanBefore ==
    ASSUME KickInv, kicked \subseteq kicked', early \subseteq early',
           \A c \in kicked \cup early : idOf'[c] = idOf[c]
    PROVE  \A i : Clean(i)' => Clean(i)
    BY DEF Clean

\* A step that does nothing to player c leaves it where it is.
LEMMA PlacedFrame ==
    ASSUME NEW c \in Conns, Placed(c), UNCHANGED <<idOf[c], pos[c]>>,
           Holds(c)' => Holds(c), \A i : Clean(i)' => Clean(i),
           Holds(c) /\ Clean(idOf[c]) =>
               \A s \in Sectors : idOf[c] \in sectors'[s] <=> idOf[c] \in sectors[s],
           \A t \in Threads :
               \/ pc'[t] = pc[t] /\ conn'[t] = conn[t] /\ at'[t] = at[t]
               \/ /\ conn[t] = c => ~(Coming(t) \/ Crossing(t))
                  /\ conn'[t] = c => ~(Coming(t)' \/ Crossing(t)')
               \/ /\ conn'[t] = conn[t]
                  /\ Coming(t) /\ Coming(t)' /\ pc'[t] # "enter"
    PROVE  Placed(c)'
<1> SUFFICES ASSUME Holds(c)', Clean(idOf[c])'
             PROVE  /\ \A t \in Threads : Coming(t)' /\ conn'[t] = c =>
                        /\ \A s \in Sectors : idOf'[c] \notin sectors'[s]
                        /\ pc'[t] = "enter" => at'[t] = pos'[c]
                        /\ \A u \in Threads : Crossing(u)' => conn'[u] # c
                    /\ \A t \in Threads : Crossing(t)' /\ conn'[t] = c =>
                        /\ pc'[t] \in {"moved", "entered"} => at'[t] # pos'[c]
                        /\ pc'[t] = "moved" =>
                            \A s \in Sectors : idOf'[c] \in sectors'[s] <=> s = at'[t]
                        /\ pc'[t] = "entered" =>
                            \A s \in Sectors : idOf'[c] \in sectors'[s] <=> s \in {at'[t], pos'[c]}
                        /\ pc'[t] = "push" => \A s \in Sectors : idOf'[c] \notin sectors'[s]
                    /\ (\A t \in Threads : Coming(t)' \/ Crossing(t)' => conn'[t] # c) =>
                        \A s \in Sectors : idOf'[c] \in sectors'[s] <=> s = pos'[c]
    BY DEF Placed
<1>1. Holds(c) /\ Clean(idOf[c])
    <2> PICK i : i = idOf[c]
        OBVIOUS
    <2>1. Clean(i)'
        BY DEF Clean
    <2> QED
        BY <2>1
<1>2. \A t \in Threads : Coming(t)' /\ conn'[t] = c => Coming(t) /\ conn[t] = c
    BY DEF Coming
<1>3. \A t \in Threads : Crossing(t)' /\ conn'[t] = c =>
          Crossing(t) /\ conn[t] = c /\ pc'[t] = pc[t] /\ at'[t] = at[t]
    BY DEF Coming, Crossing
<1>4. \A t \in Threads : Coming(t) /\ conn[t] = c => Coming(t)' /\ conn'[t] = c
    BY DEF Coming
<1>5. \A t \in Threads : Crossing(t) /\ conn[t] = c => Crossing(t)' /\ conn'[t] = c
    BY DEF Coming, Crossing
<1>6. \A t \in Threads : pc'[t] = "enter" /\ conn'[t] = c => pc[t] = "enter" /\ at'[t] = at[t]
    BY DEF Coming
<1>7. \A t \in Threads : Coming(t)' /\ conn'[t] = c =>
          /\ \A s \in Sectors : idOf'[c] \notin sectors'[s]
          /\ pc'[t] = "enter" => at'[t] = pos'[c]
          /\ \A u \in Threads : Crossing(u)' => conn'[u] # c
    BY <1>1, <1>2, <1>3, <1>6 DEF Placed
<1>8. \A t \in Threads : Crossing(t)' /\ conn'[t] = c =>
          /\ pc'[t] \in {"moved", "entered"} => at'[t] # pos'[c]
          /\ pc'[t] = "moved" =>
              \A s \in Sectors : idOf'[c] \in sectors'[s] <=> s = at'[t]
          /\ pc'[t] = "entered" =>
              \A s \in Sectors : idOf'[c] \in sectors'[s] <=> s \in {at'[t], pos'[c]}
          /\ pc'[t] = "push" => \A s \in Sectors : idOf'[c] \notin sectors'[s]
    BY <1>1, <1>3 DEF Placed
<1>9. (\A t \in Threads : Coming(t)' \/ Crossing(t)' => conn'[t] # c) =>
          \A s \in Sectors : idOf'[c] \in sectors'[s] <=> s = pos'[c]
    BY <1>1, <1>4, <1>5 DEF Placed
<1> QED
    BY <1>7, <1>8, <1>9

\* A step that changes no sector and no position, and neither begins nor ends
\* what a handler does to them.
LEMMA SectorFrame ==
    ASSUME ArrivalInv, SectorInv, UNCHANGED <<sectors, idOf, pos>>,
           \A i : Clean(i)' => Clean(i),
           \A c \in Conns : Holds(c)' = Holds(c),
           \A i \in Ids : /\ InPool(i)' => InPool(i) \/ \E t \in Threads : Popped(t, i)
                          /\ \A t \in Threads : Popped(t, i)' =>
                                 InPool(i) \/ \E u \in Threads : Popped(u, i),
           \A t \in Threads :
               \/ pc'[t] = pc[t] /\ conn'[t] = conn[t] /\ at'[t] = at[t]
               \/ ~(Coming(t) \/ Crossing(t)) /\ ~(Coming(t)' \/ Crossing(t)')
               \/ /\ conn'[t] = conn[t]
                  /\ Coming(t) /\ Coming(t)' /\ pc'[t] # "enter"
    PROVE  SectorInv'
<1>1. \A i \in Ids : Clean(i)' /\ (InPool(i)' \/ \E t \in Threads : Popped(t, i)') =>
          \A s \in Sectors : i \notin sectors'[s]
    BY DEF SectorInv
<1>2. ASSUME NEW c \in Conns PROVE Placed(c)'
    <2>1. Placed(c) /\ UNCHANGED <<idOf[c], pos[c]>>
        BY DEF SectorInv
    <2> QED
        BY <2>1, PlacedFrame
<1>3. ASSUME NEW t \in Threads, Coming(t)', Clean(idOf[conn[t]])'
      PROVE  Holds(conn[t])'
    <2>1. conn'[t] = conn[t] /\ Coming(t)
        BY <1>3 DEF Coming
    <2> PICK c : c = conn[t]
        OBVIOUS
    <2> PICK i : i = idOf[c]
        OBVIOUS
    <2>2. Clean(i)'
        BY <1>3, <2>1 DEF Clean
    <2>3. Holds(c)
        BY <2>1, <2>2 DEF SectorInv
    <2>4. c \in Conns
        BY <2>1 DEF ArrivalInv, Arriving, AcceptStage, Coming
    <2>5. Holds(c)'
        BY <2>3, <2>4
    <2> QED
        BY <2>1, <2>5 DEF Holds
<1> QED
    BY <1>1, <1>2, <1>3 DEF SectorInv

\* A step of the handler that works on player c, whose id is i.
LEMMA OwnStep ==
    ASSUME IInv, ArrivalInv, SectorInv,
           NEW t \in Threads, NEW c \in Conns, NEW i, conn[t] = c, idOf[c] = i,
           \A j : Clean(j)' => Clean(j), Holds(c) \/ ~Clean(i),
           idOf' = idOf, \A d \in Conns : d # c => pos'[d] = pos[d],
           \A d \in Conns : Holds(d)' = Holds(d),
           \A j : InPool(j)' = InPool(j),
           \A u \in Threads : \A j : Popped(u, j)' => Popped(u, j),
           \A s \in Sectors : \A j : j # i => (j \in sectors'[s] <=> j \in sectors[s]),
           \A u \in Threads : u # t => UNCHANGED <<pc[u], conn[u], at[u]>>,
           conn'[t] = c, Coming(t)' => Coming(t), Placed(c)'
    PROVE  SectorInv'
<1>1. ASSUME NEW j \in Ids, Clean(j)', InPool(j)' \/ \E u \in Threads : Popped(u, j)'
      PROVE  \A s \in Sectors : j \notin sectors'[s]
    <2>1. Clean(j) /\ (InPool(j) \/ \E u \in Threads : Popped(u, j))
        BY <1>1
    <2>2. j # i
        BY <2>1 DEF IInv, IdHeldOnce
    <2> QED
        BY <2>1, <2>2 DEF SectorInv
<1>2. ASSUME NEW d \in Conns, d # c PROVE Placed(d)'
    <2>1. Holds(d) /\ Clean(idOf[d]) => idOf[d] # i
        BY <1>2 DEF IInv, IdHeldOnce
    <2>2. Placed(d) /\ UNCHANGED <<idOf[d], pos[d]>>
        BY <1>2 DEF SectorInv
    <2>3. Holds(d) /\ Clean(idOf[d]) =>
              \A s \in Sectors : idOf[d] \in sectors'[s] <=> idOf[d] \in sectors[s]
        BY <2>1
    <2>4. \A u \in Threads :
              \/ pc'[u] = pc[u] /\ conn'[u] = conn[u] /\ at'[u] = at[u]
              \/ conn[u] # d /\ conn'[u] # d
        BY <1>2
    <2> QED
        BY <2>2, <2>3, <2>4, PlacedFrame
<1>3. ASSUME NEW u \in Threads, Coming(u)', Clean(idOf[conn[u]])'
      PROVE  Holds(conn[u])'
    <2>1. conn'[u] = conn[u] /\ Coming(u)
        BY <1>3 DEF Coming
    <2> PICK d : d = conn[u]
        OBVIOUS
    <2> PICK j : j = idOf[d]
        OBVIOUS
    <2>2. Clean(j)'
        BY <1>3, <2>1 DEF Clean
    <2>3. Holds(d)
        BY <2>1, <2>2 DEF SectorInv
    <2>4. d \in Conns
        BY <2>1 DEF ArrivalInv, Arriving, AcceptStage, Coming
    <2>5. Holds(d)'
        BY <2>3, <2>4
    <2> QED
        BY <2>1, <2>5 DEF Holds
<1> QED
    BY <1>1, <1>2, <1>3 DEF SectorInv

\* A receive handler is alone with its player, but for an accept handler that
\* has yet to enter the player into a sector.
LEMMA OneAtWork ==
    ASSUME IInv, ArrivalInv, NEW t \in Threads, Receiving(t)
    PROVE  /\ conn[t] \in Conns /\ me[t] = conn[t] /\ Holds(conn[t])
           /\ key[t] = idOf[conn[t]] /\ key[t] \in Ids
           /\ \A u \in Threads : Crossing(u) /\ conn[u] = conn[t] => u = t
           /\ \A u \in Threads : Coming(u) /\ conn[u] = conn[t] => Entering(conn[t])
<1>1. conn[t] \in Conns /\ me[t] = conn[t] /\ recv[conn[t]] = "busy" /\ key[t] = idOf[conn[t]]
    BY DEF IInv, RegsInv
<1>2. Holds(conn[t]) /\ key[t] \in Ids
    BY <1>1 DEF Holds, IInv, SlotInv
<1>3. \A u \in Threads : Crossing(u) /\ conn[u] = conn[t] => u = t
    BY DEF IInv, PairInv, Crossing, Receiving, CloseStage, MoveStage
<1>4. \A u \in Threads : Coming(u) /\ conn[u] = conn[t] => Entering(conn[t])
    BY <1>1 DEF Coming, IInv, RegsInv, ArrivalInv, Entering
<1> QED
    BY <1>1, <1>2, <1>3, <1>4

\* Moves, logins and logouts leave every id where its player is.
LEMMA NextSector ==
    IInv /\ ArrivalInv /\ TableInv /\ KickInv /\ SectorInv /\ [Next]_vars => SectorInv'
<1> SUFFICES ASSUME IInv, ArrivalInv, TableInv, KickInv, SectorInv, [Next]_vars
             PROVE  SectorInv'
    OBVIOUS
<1> USE DEF Goto, Return, EndSend, tables, net, who, regs, hist
<1>0. /\ \A i : UNCHANGED <<kicked, early, idOf>> => (Clean(i)' => Clean(i))
      /\ pc \in [Threads -> PcState] /\ conn \in [Threads -> Conns \cup {NoConn}]
      /\ at \in [Threads -> Sectors \cup {NoSector}] /\ recv \in [Conns -> RecvState]
      /\ key \in [Threads -> Ids \cup {NoId}]
      /\ back \in [Threads -> {"idle", "work", "greet"}]
      /\ pos \in [Conns -> Sectors] /\ sectors \in [Sectors -> SUBSET Ids]
    BY DEF Clean, IInv, TypeOK
<1>f. ASSUME UNCHANGED <<pool, sectors, idOf, pos, kicked, early>>,
             \A c \in Conns : Holds(c)' = Holds(c),
             \A t \in Threads :
                 /\ \/ UNCHANGED <<pc[t], conn[t], at[t]>>
                    \/ ~(Coming(t) \/ Crossing(t)) /\ ~(Coming(t)' \/ Crossing(t)')
                    \/ conn'[t] = conn[t] /\ Coming(t) /\ Coming(t)' /\ pc'[t] # "enter"
                 /\ pc'[t] = "login" => pc[t] = "login" /\ key'[t] = key[t]
      PROVE  SectorInv'
    <2>1. \A i \in Ids : /\ InPool(i)' => InPool(i)
                         /\ \A t \in Threads : Popped(t, i)' => Popped(t, i)
        BY <1>f DEF InPool, Popped
    <2> QED
        BY <1>0, <1>f, <2>1, SectorFrame
<1>1. CASE Network \/ UNCHANGED vars
    BY <1>0, <1>1, <1>f DEF Network, Connect, HangUp, Complete, CompleteUnbound, Holds, vars
<1>2. ASSUME NEW t \in Threads, AcceptTake(t) \/ AcceptDone(t) PROVE SectorInv'
    BY <1>0, <1>2, <1>f DEF AcceptTake, AcceptDone, Coming, Crossing, Holds
<1>3. ASSUME NEW t \in Threads, PopId(t) PROVE SectorInv'
    <2>1. CASE pool = <<>>
        BY <1>0, <1>3, <2>1, <1>f DEF PopId, Coming, Crossing, Holds
    <2>2. CASE pool # <<>>
        <3>1. /\ pc[t] = "pop" /\ \A u \in Threads : pc'[u] = IF u = t THEN "login" ELSE pc[u]
              /\ key' = [key EXCEPT ![t] = Head(pool)] /\ pool' = Tail(pool)
              /\ UNCHANGED <<conn, at, sectors, idOf, pos, recv, kicked, early>>
            BY <1>0, <1>3, <2>2 DEF PopId
        <3>2. /\ Head(pool) = pool[1] /\ Len(pool) \in Nat /\ Len(pool) > 0
              /\ Len(pool') = Len(pool) - 1
              /\ \A n \in 1 .. Len(pool) - 1 : pool'[n] = pool[n + 1]
            BY <2>2, <3>1, HeadTail DEF IInv, TypeOK
        <3>3. \A i : InPool(i)' => InPool(i)
            BY <3>2 DEF InPool
        <3>4. InPool(Head(pool))
            BY <3>2 DEF InPool
        <3>5. \A u \in Threads : \A i : Popped(u, i)' => Popped(u, i) \/ InPool(i)
            BY <3>1, <3>4 DEF Popped, IInv, TypeOK
        <3> QED
            BY <1>0, <3>1, <3>3, <3>5, SectorFrame DEF Coming, Crossing, Holds
    <2> QED
        BY <2>1, <2>2
<1>4. ASSUME NEW t \in Threads, LoginFetch(t) \/ LoginObject(t) PROVE SectorInv'
    BY <1>0, <1>4, <1>f DEF LoginFetch, LoginObject, Coming, Crossing, Holds
<1>5. ASSUME NEW t \in Threads, ReceiveStep(t) PROVE SectorInv'
    <2>1. ASSUME NEW c \in Conns, ReceiveTake(t, c) PROVE SectorInv'
        BY <1>0, <2>1, <1>f DEF ReceiveTake, Coming, Crossing, Holds
    <2>2. ASSUME Close(t) \/ Unlist(t) \/ Unslot(t) PROVE SectorInv'
        BY <1>0, <2>2, <1>f DEF Close, Unlist, Unslot, Coming, Crossing, Holds
    <2>3. ASSUME Repost(t) PROVE SectorInv'
        <3>1. recv[conn[t]] = "busy"
            BY <2>3 DEF Repost, IInv, RegsInv, Receiving
        <3>2. \A c \in Conns : Holds(c)' = Holds(c)
            BY <1>0, <2>3, <3>1 DEF Repost, Posted, Holds
        <3> QED
            BY <1>0, <2>3, <3>2, <1>f DEF Repost, Coming, Crossing
    <2> PICK c : c = conn[t]
        OBVIOUS
    <2> PICK i : i = idOf[c]
        OBVIOUS
    <2>4. ASSUME Receiving(t)
          PROVE  /\ c \in Conns /\ me[t] = c /\ Holds(c) /\ key[t] = i /\ i \in Ids
                 /\ \A u \in Threads : Crossing(u) /\ conn[u] = c => u = t
                 /\ \A u \in Threads : Coming(u) /\ conn[u] = c => Entering(c)
        BY <2>4, OneAtWork
    <2>5. ASSUME ResetMove(t) \/ MoveIn(t) \/ MoveOut(t) \/ Leave(t) \/ \E s \in Sectors : Move(t, s)
          PROVE  SectorInv'
        <3>1. /\ Receiving(t) /\ ~Coming(t)' /\ ~Coming(t) /\ pc[t] # "push"
              /\ UNCHANGED <<pool, idOf, kicked, conn, key, recv, me>>
              /\ early \subseteq early'
              /\ \A u \in Threads : u # t => UNCHANGED <<pc[u], at[u]>>
              /\ pc'[t] # "login"
            BY <1>0, <2>5 DEF ResetMove, MoveIn, MoveOut, Leave, Move, Receiving, CloseStage,
               MoveStage, Coming
        <3>2. \A d \in Conns : d # c => pos'[d] = pos[d]
            BY <1>0, <2>4, <2>5, <3>1 DEF ResetMove, MoveIn, MoveOut, Leave, Move
        <3>3. \A s \in Sectors : \A j : j # i => (j \in sectors'[s] <=> j \in sectors[s])
            BY <1>0, <2>4, <2>5, <3>1 DEF ResetMove, MoveIn, MoveOut, Leave, Move
        <3>4. /\ \A j : InPool(j)' = InPool(j)
              /\ \A u \in Threads : \A j : Popped(u, j)' => Popped(u, j)
              /\ \A d \in Conns : Holds(d)' = Holds(d)
              /\ \A j : Clean(j)' => Clean(j)
            BY <3>1 DEF InPool, Popped, Holds, Clean
        <3>5. ASSUME Placed(c)' PROVE SectorInv'
            BY <2>4, <3>1, <3>2, <3>3, <3>4, <3>5, OwnStep
        <3> SUFFICES ASSUME Clean(i)' PROVE Placed(c)'
            BY <3>1, <3>5 DEF Placed, Clean
        <3>6. /\ Holds(c) /\ Clean(i) /\ Placed(c) /\ c \in Conns /\ me[t] = c
            BY <2>4, <3>1, <3>4 DEF SectorInv
        <3>7. \A u \in Threads : Crossing(u) /\ conn[u] = c => u = t
            BY <2>4, <3>1
        <3>8. \A u \in Threads : Coming(u) => conn[u] # c
            <4>1. CASE Crossing(t)
                BY <3>6, <4>1 DEF Placed
            <4>2. CASE ~Crossing(t)
                <5>1. ~Entering(c)
                    <6>1. Leave(t) \/ \E s \in Sectors : Move(t, s)
                        BY <2>5, <4>2 DEF ResetMove, MoveIn, MoveOut, Crossing
                    <6>2. Entering(c) => c \in early'
                        BY <3>6, <6>1 DEF Leave, Move
                    <6> QED
                        BY <3>1, <3>6, <6>2 DEF Clean
                <5> QED
                    BY <2>4, <3>1, <5>1
            <4> QED
                BY <4>1, <4>2
        <3>9. /\ \A u \in Threads : Coming(u)' => conn'[u] # c
              /\ \A u \in Threads : Crossing(u)' /\ conn'[u] = c => u = t
            BY <3>1, <3>7, <3>8 DEF Coming, Crossing
        <3>10. ASSUME ~Crossing(t) PROVE \A s \in Sectors : i \in sectors[s] <=> s = pos[c]
            <4>1. \A u \in Threads : Coming(u) \/ Crossing(u) => conn[u] # c
                BY <3>7, <3>8, <3>10
            <4> QED
                BY <3>6, <4>1 DEF Placed
        <3>11. CASE Leave(t)
            <4>1. pc[t] = "leave" /\ pc'[t] = "push" /\ pos' = pos
                  /\ sectors' = [sectors EXCEPT ![pos[c]] = @ \ {i}]
                BY <1>0, <3>6, <3>11 DEF Leave
            <4>2. \A s \in Sectors : i \notin sectors'[s]
                BY <1>0, <3>6, <3>10, <4>1 DEF Crossing
            <4> QED
                BY <3>1, <3>9, <4>1, <4>2 DEF Placed, Crossing
        <3>12. ASSUME NEW s \in Sectors, Move(t, s) PROVE Placed(c)'
            <4>1. pc[t] = "work" /\ pc'[t] = "moved" /\ pos'[c] = s /\ at'[t] = pos[c]
                  /\ s # pos[c] /\ sectors' = sectors
                BY <1>0, <3>6, <3>12 DEF Move
            <4>2. \A r \in Sectors : i \in sectors[r] <=> r = at'[t]
                BY <3>10, <4>1 DEF Crossing
            <4> QED
                BY <3>1, <3>9, <4>1, <4>2 DEF Placed, Crossing
        <3>13. CASE ResetMove(t)
            <4>1. pc[t] = "moved" /\ pc'[t] = "work" /\ pos'[c] = at[t] /\ sectors' = sectors
                BY <1>0, <3>6, <3>13 DEF ResetMove
            <4>2. \A r \in Sectors : i \in sectors[r] <=> r = at[t]
                BY <3>6, <4>1 DEF Placed, Crossing
            <4> QED
                BY <3>1, <3>9, <4>1, <4>2 DEF Placed, Crossing
        <3>14. CASE MoveIn(t)
            <4>1. pc[t] = "moved" /\ pc'[t] = "entered" /\ UNCHANGED <<pos, at>>
                  /\ sectors' = [sectors EXCEPT ![pos[c]] = @ \cup {i}]
                BY <1>0, <3>6, <3>14 DEF MoveIn
            <4>2. /\ \A r \in Sectors : i \in sectors[r] <=> r = at[t]
                  /\ at[t] # pos[c]
                BY <3>6, <4>1 DEF Placed, Crossing
            <4>3. \A r \in Sectors : i \in sectors'[r] <=> r \in {at[t], pos[c]}
                BY <1>0, <4>1, <4>2
            <4> QED
                BY <3>1, <3>9, <4>1, <4>2, <4>3 DEF Placed, Crossing
        <3>15. CASE MoveOut(t)
            <4>1. pc[t] = "entered" /\ pc'[t] = "work" /\ pos' = pos
                  /\ sectors' = [sectors EXCEPT ![at[t]] = @ \ {i}]
                BY <1>0, <3>6, <3>15 DEF MoveOut
            <4>2. /\ \A r \in Sectors : i \in sectors[r] <=> r \in {at[t], pos[c]}
                  /\ at[t] # pos[c]
                BY <3>6, <4>1 DEF Placed, Crossing
            <4>3. \A r \in Sectors : i \in sectors'[r] <=> r = pos[c]
                BY <1>0, <3>6, <4>1, <4>2
            <4> QED
                BY <3>1, <3>9, <4>1, <4>3 DEF Placed, Crossing
        <3> QED
            BY <2>5, <3>11, <3>12, <3>13, <3>14, <3>15
    <2>6. ASSUME PushId(t) PROVE SectorInv'
        <3>1. /\ pc[t] = "push" /\ Receiving(t) /\ Crossing(t)
              /\ pool' = Append(pool, i) /\ recv' = [recv EXCEPT ![c] = "returned"]
              /\ UNCHANGED <<sectors, idOf, pos, kicked, early>>
              /\ \A u \in Threads : u # t => UNCHANGED <<pc[u], conn[u], at[u], key[u]>>
              /\ pc'[t] = "idle"
            BY <1>0, <2>4, <2>6 DEF PushId, Receiving, CloseStage, Crossing
        <3>2. /\ c \in Conns /\ Holds(c) /\ i \in Ids
            BY <2>4, <3>1
        <3>3. \A d \in Conns : d # c => Holds(d)' = Holds(d)
            BY <1>0, <3>1 DEF Holds
        <3>4. ~Holds(c)'
            BY <1>0, <3>1, <3>2 DEF Holds
        <3>5. \A j : Clean(j)' => Clean(j)
            BY <1>0, <3>1
        <3>6. \A j : InPool(j)' => InPool(j) \/ j = i
            <4>1. /\ Len(pool) \in Nat /\ Len(pool') = Len(pool) + 1
                  /\ \A n \in 1 .. Len(pool) : pool'[n] = pool[n]
                  /\ pool'[Len(pool) + 1] = i
                BY <3>1, <3>2, AppendOne DEF IInv, TypeOK
            <4> QED
                BY <4>1 DEF InPool
        <3>7. Clean(i) => \A s \in Sectors : i \notin sectors[s]
            BY <3>1, <3>2 DEF SectorInv, Placed
        <3>8. ASSUME NEW j \in Ids, Clean(j)', InPool(j)' \/ \E u \in Threads : Popped(u, j)'
              PROVE  \A s \in Sectors : j \notin sectors'[s]
            <4>1. Clean(j)
                BY <3>5, <3>8
            <4>2. j = i \/ InPool(j) \/ \E u \in Threads : Popped(u, j)
                BY <3>1, <3>6, <3>8 DEF Popped
            <4> QED
                BY <3>1, <3>7, <4>1, <4>2 DEF SectorInv
        <3>9. ASSUME NEW d \in Conns, d # c PROVE Placed(d)'
            <4>1. Placed(d) /\ UNCHANGED <<idOf[d], pos[d]>>
                BY <3>1 DEF SectorInv
            <4>2. \A u \in Threads :
                      \/ pc'[u] = pc[u] /\ conn'[u] = conn[u] /\ at'[u] = at[u]
                      \/ /\ conn[u] = d => ~(Coming(u) \/ Crossing(u))
                         /\ conn'[u] = d => ~(Coming(u)' \/ Crossing(u)')
                BY <3>1, <3>9 DEF Coming, Crossing
            <4> QED
                BY <3>1, <3>3, <3>5, <3>9, <4>1, <4>2, PlacedFrame
        <3>10. Placed(c)'
            BY <3>4 DEF Placed
        <3>11. ASSUME NEW u \in Threads, Coming(u)', Clean(idOf[conn[u]])'
               PROVE  Holds(conn[u])'
            <4>1. Coming(u) /\ u # t /\ conn'[u] = conn[u]
                BY <3>1, <3>11 DEF Coming
            <4> PICK d : d = conn[u]
                OBVIOUS
            <4> PICK j : j = idOf[d]
                OBVIOUS
            <4>2. d \in Conns /\ Clean(j)'
                BY <3>1, <3>11, <4>1 DEF ArrivalInv, Arriving, AcceptStage, Coming, Clean
            <4>3. Holds(d) /\ Clean(j)
                BY <3>5, <4>1, <4>2 DEF SectorInv
            <4>4. d # c
                BY <3>1, <4>1, <4>2, <4>3 DEF SectorInv, Placed
            <4>5. Holds(d)'
                BY <3>3, <4>2, <4>3, <4>4
            <4> QED
                BY <4>1, <4>5 DEF Holds
        <3> QED
            BY <3>8, <3>9, <3>10, <3>11 DEF SectorInv
    <2> QED
        BY <1>5, <2>1, <2>2, <2>3, <2>5, <2>6 DEF ReceiveStep, CloseStep, MoveStep
<1>6. ASSUME NEW t \in Threads, SendStep(t) PROVE SectorInv'
    <2>1. ASSUME NEW d \in Conns, PickTarget(t, d) PROVE SectorInv'
        BY <1>0, <2>1, <1>f DEF PickTarget, Coming, Crossing, Holds
    <2>2. ASSUME CheckTarget(t) \/ SendPacket(t) \/ DropObject(t) PROVE SectorInv'
        <3>1. /\ pc[t] \in SendStage /\ UNCHANGED <<pool, sectors, idOf, pos, kicked, early>>
              /\ UNCHANGED <<recv, conn, at, key>>
            BY <2>2 DEF CheckTarget, SendPacket, DropObject, SendStage
        <3>2. \A u \in Threads : pc'[u] = IF u = t THEN pc'[t] ELSE pc[u]
            BY <1>0, <2>2 DEF CheckTarget, SendPacket, DropObject
        <3>3. pc'[t] \in SendStage \cup {"idle", "work", "greet"}
            BY <1>0, <2>2 DEF CheckTarget, SendPacket, DropObject, SendStage
        <3> QED
            BY <3>1, <3>2, <3>3, <1>f DEF Coming, Crossing, Holds, SendStage
    <2>3. ASSUME DropPlayer(t) PROVE SectorInv'
        <3>1. /\ pc[t] = "dropslot" /\ UNCHANGED <<pool, sectors, idOf, pos, early>>
              /\ UNCHANGED <<recv, conn, at, key>> /\ kicked \subseteq kicked'
              /\ \A u \in Threads : pc'[u] = IF u = t THEN back[t] ELSE pc[u]
            BY <1>0, <2>3 DEF DropPlayer
        <3>2. \A i : Clean(i)' => Clean(i)
            BY <3>1 DEF Clean
        <3>3. \A i \in Ids : /\ InPool(i)' => InPool(i)
                             /\ \A u \in Threads : Popped(u, i)' => Popped(u, i)
            BY <1>0, <3>1 DEF InPool, Popped
        <3> QED
            BY <1>0, <3>1, <3>2, <3>3, SectorFrame DEF Coming, Crossing, Holds
    <2> QED
        BY <1>6, <2>1, <2>2, <2>3 DEF SendStep
<1>7. ASSUME NEW t \in Threads, LoginPlayer(t) PROVE SectorInv'
    <2> PICK c : c = conn[t]
        OBVIOUS
    <2> PICK i : i = key[t]
        OBVIOUS
    <2>1. /\ pc[t] = "login" /\ c \in Conns /\ i \in Ids /\ recv[c] = "none" /\ Popped(t, i)
          /\ \A u \in Threads : pc'[u] = IF u = t THEN "fetch" ELSE pc[u]
          /\ \A d \in Conns : idOf'[d] = IF d = c THEN i ELSE idOf[d]
          /\ \A d \in Conns : d # c => recv'[d] = recv[d]
          /\ recv'[c] \in {"unbound", "dead"}
          /\ UNCHANGED <<pool, sectors, pos, conn, key, at, kicked, early>>
        BY <1>0, <1>7 DEF LoginPlayer, Posted, Popped, IInv, RegsInv, Accepting, TypeOK
    <2>2. c \notin kicked \cup early
        BY <2>1, NoIdAssumption DEF KickInv
    <2>3. \A j : Clean(j)' => Clean(j)
        BY <2>1, <2>2 DEF Clean, IInv, TypeOK
    <2>4. \A d \in Conns : Holds(d)' = (Holds(d) \/ d = c)
        BY <2>1 DEF Holds
    <2>5. ASSUME NEW j \in Ids, Clean(j)', InPool(j)' \/ \E u \in Threads : Popped(u, j)'
          PROVE  \A s \in Sectors : j \notin sectors'[s]
        <3>1. InPool(j) \/ \E u \in Threads : Popped(u, j)
            BY <2>1, <2>5 DEF InPool, Popped
        <3> QED
            BY <2>1, <2>3, <2>5, <3>1 DEF SectorInv
    <2>6. \A u \in Threads : u # t => ~(Coming(u) /\ conn[u] = c)
        BY <2>1 DEF ArrivalInv, Arriving, AcceptStage, Coming
    <2>7. \A u \in Threads : ~(Crossing(u) /\ conn[u] = c)
        BY <2>1 DEF IInv, RegsInv, Crossing, Receiving, CloseStage, MoveStage
    <2>8. Placed(c)'
        <3> SUFFICES ASSUME Clean(i)' PROVE Placed(c)'
            BY <2>1 DEF Placed, Clean
        <3>1. \A s \in Sectors : i \notin sectors'[s]
            BY <2>1, <2>3 DEF SectorInv
        <3>2. \A u \in Threads : ~(Crossing(u)' /\ conn'[u] = c)
            BY <2>1, <2>7 DEF Crossing
        <3>3. \A u \in Threads : Coming(u)' /\ conn'[u] = c => u = t
            BY <2>1, <2>6 DEF Coming
        <3>4. Coming(t)' /\ conn'[t] = c /\ pc'[t] = "fetch" /\ idOf'[c] = i
            BY <2>1 DEF Coming
        <3> QED
            BY <3>1, <3>2, <3>3, <3>4 DEF Placed
    <2>9. ASSUME NEW d \in Conns, d # c PROVE Placed(d)'
        <3>1. Placed(d) /\ UNCHANGED <<idOf[d], pos[d]>>
            BY <2>1, <2>9 DEF SectorInv
        <3>2. \A u \in Threads :
                  \/ pc'[u] = pc[u] /\ conn'[u] = conn[u] /\ at'[u] = at[u]
                  \/ conn[u] # d /\ conn'[u] # d
            BY <2>1, <2>9
        <3> QED
            BY <2>1, <2>3, <2>4, <2>9, <3>1, <3>2, PlacedFrame
    <2>10. ASSUME NEW u \in Threads, Coming(u)', Clean(idOf[conn[u]])'
           PROVE  Holds(conn[u])'
        <3>1. CASE conn[u] = c
            BY <2>1, <3>1 DEF Holds
        <3>2. CASE conn[u] # c
            <4>1. Coming(u)
                BY <2>1, <2>10, <3>2 DEF Coming
            <4> PICK d : d = conn[u]
                OBVIOUS
            <4> PICK j : j = idOf[d]
                OBVIOUS
            <4>2. d \in Conns /\ idOf'[d] = j
                BY <2>1, <3>2, <4>1 DEF ArrivalInv, Arriving, AcceptStage, Coming
            <4>3. Clean(j)'
                BY <2>1, <2>10, <4>2 DEF Clean
            <4>4. Holds(d)'
                BY <2>3, <2>4, <4>1, <4>2, <4>3 DEF SectorInv
            <4> QED
                BY <2>1, <4>4 DEF Holds
        <3> QED
            BY <3>1, <3>2
    <2> QED
        BY <2>5, <2>8, <2>9, <2>10 DEF SectorInv
<1>8. ASSUME NEW t \in Threads, Bind(t) PROVE SectorInv'
    <2>1. /\ pc[t] = "bind" /\ recv[conn[t]] \in {"unbound", "dead"} /\ conn[t] \in Conns
          /\ key[t] \in Ids /\ idOf[conn[t]] = key[t]
          /\ UNCHANGED <<pool, sectors, idOf, pos, kicked, early, conn, key, at>>
        BY <1>8 DEF Bind, IInv, RegsInv, Accepting
    <2>2. \A c \in Conns : Holds(c)' = Holds(c)
        BY <1>0, <1>8, <2>1 DEF Bind, Holds
    <2>3. CASE players[key[t]] # NoConn
        <3>1. \A u \in Threads : pc'[u] = IF u = t THEN "locate" ELSE pc[u]
            BY <1>0, <1>8, <2>3 DEF Bind, IInv, TypeOK
        <3> QED
            BY <2>1, <2>2, <3>1, <1>f DEF Coming, Crossing
    <2>4. CASE players[key[t]] = NoConn
        <3> PICK c : c = conn[t]
            OBVIOUS
        <3> PICK i : i = idOf[c]
            OBVIOUS
        <3>1. \A u \in Threads : pc'[u] = IF u = t THEN "crashed" ELSE pc[u]
            BY <1>0, <1>8, <2>4 DEF Bind, IInv, TypeOK
        <3>2. c \in kicked
            BY <2>1, <2>4, NoConnAssumption DEF TableInv
        <3>3. ~Clean(i) /\ Placed(c)'
            BY <2>1, <3>2 DEF Clean, Placed
        <3>4. /\ \A j : InPool(j)' = InPool(j)
              /\ \A u \in Threads : \A j : Popped(u, j)' => Popped(u, j)
            BY <2>1, <3>1 DEF InPool, Popped
        <3>5. ~Coming(t)' /\ c \in Conns
            BY <2>1, <3>1 DEF Coming
        <3> QED
            BY <1>0, <2>1, <2>2, <3>1, <3>3, <3>4, <3>5, OwnStep
    <2> QED
        BY <2>3, <2>4
<1>9. ASSUME NEW t \in Threads, Locate(t) \/ Enter(t) PROVE SectorInv'
    <2> PICK c : c = conn[t]
        OBVIOUS
    <2> PICK i : i = idOf[c]
        OBVIOUS
    <2>1. /\ pc[t] \in {"locate", "enter"} /\ me[t] = c /\ c \in Conns
          /\ UNCHANGED <<pool, idOf, pos, kicked, early, conn, key, recv>>
          /\ \A u \in Threads : u # t => UNCHANGED <<pc[u], at[u]>>
          /\ pc'[t] \in {"enter", "greet"}
        BY <1>0, <1>9 DEF Locate, Enter, ArrivalInv, IInv, RegsInv
    <2>2. /\ \A j : InPool(j)' = InPool(j)
          /\ \A u \in Threads : \A j : Popped(u, j)' => Popped(u, j)
          /\ \A d \in Conns : Holds(d)' = Holds(d)
          /\ Holds(c) \/ ~Clean(i)
        BY <2>1 DEF InPool, Popped, Holds, SectorInv, Coming
    <2>3. \A u \in Threads : Coming(u) /\ conn[u] = c => u = t
        BY <2>1 DEF ArrivalInv, Arriving, AcceptStage, Coming
    <2>4. Holds(c) /\ Clean(i) =>
              /\ \A s \in Sectors : i \notin sectors[s]
              /\ pc[t] = "enter" => at[t] = pos[c]
              /\ \A u \in Threads : Crossing(u) => conn[u] # c
        BY <2>1 DEF SectorInv, Placed, Coming
    <2>5. CASE Locate(t)
        <3>1. sectors' = sectors /\ pc'[t] = "enter" /\ at'[t] = pos[c]
            BY <1>0, <2>1, <2>5 DEF Locate
        <3>2. Placed(c)'
            BY <1>0, <2>1, <2>2, <2>3, <2>4, <3>1 DEF Placed, Coming, Crossing
        <3> QED
            BY <1>0, <2>1, <2>2, <3>1, <3>2, OwnStep DEF Coming
    <2>6. CASE Enter(t)
        <3>1. /\ sectors' = [sectors EXCEPT ![at[t]] = @ \cup {i}]
              /\ pc'[t] = "greet" /\ at'[t] = at[t] /\ pc[t] = "enter"
            BY <1>0, <2>1, <2>6 DEF Enter
        <3>2. Placed(c)'
            BY <1>0, <2>1, <2>2, <2>3, <2>4, <3>1 DEF Placed, Coming, Crossing
        <3> QED
            BY <1>0, <2>1, <2>2, <3>1, <3>2, OwnStep DEF Coming
    <2> QED
        BY <1>9, <2>5, <2>6
<1> QED
    BY <1>1, <1>2, <1>3, <1>4, <1>5, <1>6, <1>7, <1>8, <1>9 DEF Next, AcceptStep

\* The invariant of the sectors holds in every reachable state.
LEMMA SectorInductive == Spec => []SectorInv
<1>1. Init => SectorInv
    BY NoIdAssumption DEF Init, SectorInv, Placed, Holds, Coming, Crossing
<1> QED
    BY <1>1, NextSector, Inductive, ArrivalInductive, TableInductive, KickInductive, PTL
       DEF Spec

\* A player that nobody is moving is in the sector it stands in and in no
\* other, and an id in the pool is in none, unless a player with that id was
\* kicked by a failed send, or moved or left before it was entered.
THEOREM SectorsKeepFollowing == Spec => []SectorsFollowPlayers
<1>1. IInv /\ ArrivalInv /\ SectorInv => SectorsFollowPlayers
    <2> SUFFICES ASSUME IInv, ArrivalInv, SectorInv, NEW i \in Ids, Clean(i)
                 PROVE  /\ \A c \in Conns :
                            /\ players[i] = c
                            /\ ~Unsettled(c)
                            /\ \A t \in Threads : conn[t] = c => pc[t] \notin AcceptStage \ {"greet"}
                            => {s \in Sectors : i \in sectors[s]} = {pos[c]}
                        /\ InPool(i) => \A s \in Sectors : i \notin sectors[s]
        BY DEF SectorsFollowPlayers, Clean
    <2>1. ASSUME NEW c \in Conns, players[i] = c, ~Unsettled(c),
                 \A t \in Threads : conn[t] = c => pc[t] \notin AcceptStage \ {"greet"}
          PROVE  {s \in Sectors : i \in sectors[s]} = {pos[c]}
        <3>1. Holds(c) /\ idOf[c] = i /\ Placed(c) /\ pos[c] \in Sectors
            BY <2>1 DEF IInv, SlotInv, SectorInv, TypeOK
        <3>2. ASSUME NEW t \in Threads, Coming(t) \/ Crossing(t), conn[t] = c PROVE FALSE
            <4>1. CASE Coming(t)
                BY <2>1, <3>2, <4>1 DEF Coming, AcceptStage
            <4>2. CASE Crossing(t)
                <5>1. me[t] = c /\ key[t] = i
                    BY <3>1, <3>2, <4>2 DEF IInv, RegsInv, Receiving, Crossing, CloseStage, MoveStage
                <5>2. pc[t] # "push"
                    BY <2>1, <5>1, NoConnAssumption DEF IInv, RegsInv
                <5> QED
                    BY <2>1, <4>2, <5>1, <5>2 DEF Unsettled, Crossing
            <4> QED
                BY <3>2, <4>1, <4>2
        <3>3. \A s \in Sectors : i \in sectors[s] <=> s = pos[c]
            BY <3>1, <3>2 DEF Placed
        <3> QED
            BY <3>1, <3>3
    <2>2. InPool(i) => \A s \in Sectors : i \notin sectors[s]
        BY DEF SectorInv
    <2> QED
        BY <2>1, <2>2
<1> QED
    BY <1>1, Inductive, ArrivalInductive, SectorInductive, PTL

-----------------------------------------------------------------------------
(* Which sectors a scan visits: a scan finds what is close, for every map,
   view and unit.  The columns and the rows are chosen alike, so the argument
   is about one axis: the sector of a position is an interval of fractions,
   and what is close is in the same interval, or in the next one on the side
   whose edge the position is in. *)

USE UnitAssumption

\* A product grows with its second factor.
LEMMA Monotone ==
    ASSUME NEW d \in Nat, NEW a \in Int, NEW b \in Int, a <= b
    PROVE  d * a <= d * b
  <1>1. d * (b - a) >= 0
    OBVIOUS
  <1>2. d * (b - a) = d * b - d * a
    OBVIOUS
  <1> QED BY <1>1, <1>2, SMT

\* Division and remainder
LEMMA Division ==
    ASSUME NEW a \in Int, NEW d \in Nat \ {0}
    PROVE  /\ a \div d \in Int /\ a % d \in 0 .. d - 1
           /\ a = d * (a \div d) + (a % d)
  OBVIOUS

\* A factor of a positive product
LEMMA Positive ==
    ASSUME NEW u \in Nat \ {0}, NEW s \in Int, NEW v \in Nat, v >= u, 2 * v <= u * s
    PROVE  s > 0
  <1>1. SUFFICES ASSUME s <= 0 PROVE FALSE
    OBVIOUS
  <1>2. u * s <= 0
    BY <1>1, SMT
  <1> QED BY <1>2, SMT

\* An offset and a whole unit fit into the length of a sector.
LEMMA OffsetBound ==
    ASSUME NEW u \in Nat \ {0}, NEW s \in Nat, NEW o \in 0 .. s - 1
    PROVE  0 <= u * o /\ u * o + u <= u * s
  <1>1. u * (o + 1) <= u * s
    BY Monotone
  <1>2. u * (o + 1) = u * o + u
    OBVIOUS
  <1> QED BY <1>1, <1>2, SMT

LEMMA InBounds ==
    ASSUME NEW u \in Nat \ {0}, NEW m \in Nat, NEW i \in 0 .. m - 1
    PROVE  i * u \in 0 .. (m - 1) * u
  <1>1. u * i <= u * (m - 1)
    BY Monotone
  <1>2. u * i \in Nat /\ u * i = i * u /\ u * (m - 1) = (m - 1) * u
    OBVIOUS
  <1> QED BY <1>1, <1>2

LEMMA Expand ==
    ASSUME NEW u \in Int, NEW s \in Int, NEW c \in Int, NEW o \in Int,
           NEW q \in Int, q = s * c + o
    PROVE  u * q = u * o + (u * s) * c
  BY SMT

\* Only one interval of length d holds a number.
LEMMA OneInterval ==
    ASSUME NEW d \in Nat \ {0}, NEW a \in Int, NEW b \in Int, NEW v \in Int,
           d * a <= v, v < d * (b + 1)
    PROVE  a <= b
  <1>1. SUFFICES ASSUME b + 1 <= a PROVE FALSE
    OBVIOUS
  <1>2. d * (b + 1) <= d * a
    BY <1>1, Monotone
  <1> QED BY <1>2, SMT

LEMMA SizePositive ==
    ASSUME NEW view \in Nat, view >= Unit
    PROVE  /\ SectorSize(view) \in Nat \ {0}
           /\ 2 * view <= Unit * SectorSize(view)
  <1> DEFINE size == SectorSize(view)
  <1>0. 4 * view \in Int
    OBVIOUS
  <1>1. size \in Int /\ 4 * view = Unit * size + ((4 * view) % Unit)
    BY <1>0, Division DEF SectorSize
  <1>2. (4 * view) % Unit \in 0 .. Unit - 1
    BY <1>0, Division
  <1>3. 2 * view <= Unit * size
    BY <1>1, <1>2, SMT
  <1>4. size > 0
    BY <1>1, <1>3, Positive
  <1> QED BY <1>1, <1>3, <1>4

\* A position lies in the interval of its sector, and its whole part has the
\* offset that the edges are compared with.
LEMMA Located ==
    ASSUME NEW view \in Nat, view >= Unit, NEW p \in Nat
    PROVE  LET size == SectorSize(view)
               c == Cell(p, view)
               off == (p \div Unit) % size
           IN  /\ c \in Int /\ off \in 0 .. size - 1
               /\ Unit * off + (Unit * size) * c <= p
               /\ p < Unit * off + (Unit * size) * c + Unit
  <1> DEFINE size == SectorSize(view)
             q == p \div Unit
             c == Cell(p, view)
             off == q % size
  <1>1. size \in Nat \ {0}
    BY SizePositive
  <1>2. q \in Int /\ p % Unit \in 0 .. Unit - 1 /\ p = Unit * q + (p % Unit)
    BY Division
  <1>3. c \in Int /\ off \in 0 .. size - 1 /\ q = size * c + off
    BY <1>1, <1>2, Division DEF Cell
  <1> HIDE DEF size, q, c, off
  <1>4. Unit * q = Unit * off + (Unit * size) * c
    BY <1>1, <1>2, <1>3, Expand
  <1>5. Unit * off + (Unit * size) * c <= p /\ p < Unit * off + (Unit * size) * c + Unit
    BY <1>1, <1>2, <1>3, <1>4, SMT
  <1> QED BY <1>3, <1>5 DEF size, q, c, off

\* The sector of what is close is the sector itself, or the one on the side
\* whose edge the position is in.
LEMMA AxisFinds ==
    ASSUME NEW view \in Nat, view >= Unit, NEW p \in Nat, NEW o \in Nat,
           o \in CloseBy(p, view)
    PROVE  LET size == SectorSize(view)
               c == Cell(p, view)
               off == (p \div Unit) % size
           IN  \/ Cell(o, view) = c
               \/ Cell(o, view) = c - 1 /\ InLowEdge(off, view)
               \/ /\ Cell(o, view) = c + 1
                  /\ InHighEdge(off, view) /\ ~InLowEdge(off, view)
  <1> DEFINE size == SectorSize(view)
             d == Unit * size
             c == Cell(p, view)
             b == Cell(o, view)
             off == (p \div Unit) % size
             ooff == (o \div Unit) % size
             dc == d * c
             db == d * b
             uo == Unit * off
             vo == Unit * ooff
  <1>1. size \in Nat \ {0} /\ 2 * view <= d
    BY SizePositive
  <1>2. c \in Int /\ off \in 0 .. size - 1 /\ uo + dc <= p /\ p < uo + dc + Unit
    BY Located
  <1>3. b \in Int /\ ooff \in 0 .. size - 1 /\ vo + db <= o /\ o < vo + db + Unit
    BY Located
  <1>4. p - view <= o /\ o <= p + view - Unit
    BY DEF CloseBy
  <1> HIDE DEF size, c, b, off, ooff
  <1>5. d \in Nat \ {0}
    BY <1>1, SMT
  <1>6. uo \in Nat /\ uo + Unit <= d
    BY <1>1, <1>2, OffsetBound
  <1>7. vo \in Nat /\ vo + Unit <= d
    BY <1>1, <1>3, OffsetBound
  <1>8. dc \in Int /\ db \in Int
    BY <1>2, <1>3, <1>5
  <1>9. /\ d * (c + 1) = dc + d /\ d * (c + 2) = dc + d + d
        /\ d * (b + 1) = db + d /\ d * (b + 2) = db + d + d
    BY <1>2, <1>3, <1>5
  <1> HIDE DEF d, dc, db, uo, vo
  <1>10. b <= c + 1
    <2>1. db <= o /\ o < dc + d + d
      BY <1>1, <1>2, <1>3, <1>4, <1>5, <1>6, <1>7, <1>8
    <2>2. d * b <= o /\ o < d * ((c + 1) + 1)
      BY <2>1, <1>2, <1>9 DEF db
    <2> QED BY <2>2, <1>2, <1>3, <1>5, OneInterval
  <1>11. c <= b + 1
    <2>1. dc <= p /\ p < db + d + d
      BY <1>1, <1>2, <1>3, <1>4, <1>5, <1>6, <1>7, <1>8
    <2>2. d * c <= p /\ p < d * ((b + 1) + 1)
      BY <2>1, <1>3, <1>9 DEF dc
    <2> QED BY <2>2, <1>2, <1>3, <1>5, OneInterval
  <1>12. ASSUME b = c - 1 PROVE uo < view
    <2>1. db + d = dc
      BY <1>12, <1>2, <1>9 DEF dc
    <2> QED BY <2>1, <1>2, <1>3, <1>4, <1>5, <1>6, <1>7, <1>8
  <1>13. ASSUME b = c + 1 PROVE d - view < uo /\ view <= uo
    <2>1. db = dc + d
      BY <1>13, <1>2, <1>9 DEF db
    <2> QED BY <2>1, <1>1, <1>2, <1>3, <1>4, <1>5, <1>6, <1>7, <1>8
  <1>14. b = c \/ b = c - 1 \/ b = c + 1
    BY <1>2, <1>3, <1>10, <1>11
  <1>15. /\ off * Unit = uo /\ size * Unit = d
    BY <1>1, <1>2 DEF uo, d
  <1> QED BY <1>12, <1>13, <1>14, <1>15, <1>5, <1>6
         DEF InLowEdge, InHighEdge, size, c, b, off

\* A position of the map is in a column and a row of the array.
LEMMA CellInMap ==
    ASSUME NEW view, NEW map, Fits(map, view), NEW o \in 0 .. (map - 1) * Unit
    PROVE  Cell(o, view) \in 0 .. NumSectors(map, view) - 1
  <1> DEFINE size == SectorSize(view)
             d == Unit * size
             b == Cell(o, view)
             n == NumSectors(map, view)
             off == (o \div Unit) % size
  <1>1. view \in Nat /\ view >= Unit /\ map \in Nat \ {0} /\ map % size = 0
    BY DEF Fits
  <1>2. o \in Nat /\ o <= (map - 1) * Unit
    BY <1>1
  <1>3. size \in Nat \ {0}
    BY <1>1, SizePositive
  <1>4. b \in Int /\ off \in 0 .. size - 1 /\ Unit * off + d * b <= o
        /\ o < Unit * off + d * b + Unit
    BY <1>1, <1>2, Located
  <1>5. n \in Int /\ map = size * n
    <2>1. n \in Int /\ map = size * n + (map % size)
      <3>1. map \in Int /\ n = map \div size
        BY <1>1 DEF NumSectors
      <3> HIDE DEF size, n
      <3> QED BY <3>1, <1>3, Division
    <2>2. size * n \in Int
      BY <1>3, <2>1
    <2> QED BY <1>1, <2>1, <2>2
  <1> HIDE DEF size, b, n, off
  <1>6. d \in Nat \ {0}
    BY <1>3, SMT
  <1>7. 0 <= Unit * off /\ Unit * off + Unit <= d
    BY <1>3, <1>4, OffsetBound
  <1>8. d * n = Unit * map
    BY <1>3, <1>5, SMT
  <1>9. o < d * n
    <2>1. (map - 1) * Unit = Unit * map - Unit
      BY <1>1
    <2> QED BY <2>1, <1>1, <1>2, <1>8
  <1>10. b <= n - 1
    <2>1. d * b \in Int /\ Unit * off \in Int
      BY <1>4, <1>6
    <2>2. d * b <= o
      BY <2>1, <1>2, <1>4, <1>7
    <2>3. o < d * ((n - 1) + 1)
      BY <1>9, <1>5
    <2> QED BY <2>2, <2>3, <1>2, <1>4, <1>5, <1>6, OneInterval
  <1>11. 0 <= b
    <2>1. d * b \in Int /\ Unit * off \in Int /\ d * (b + 1) = d * b + d
      BY <1>4, <1>6
    <2>2. d * 0 <= o /\ o < d * (b + 1)
      BY <2>1, <1>2, <1>4, <1>6, <1>7
    <2> QED BY <2>2, <1>2, <1>4, <1>6, OneInterval
  <1> QED BY <1>4, <1>5, <1>10, <1>11 DEF b, n

\* So a scan of the columns, or of the rows, has it.
LEMMA CellsFind ==
    ASSUME NEW view, NEW map, Fits(map, view), NEW p \in 0 .. (map - 1) * Unit,
           NEW o \in 0 .. (map - 1) * Unit, o \in CloseBy(p, view)
    PROVE  Cell(o, view) \in Cells(p, view, map)
  <1>1. view \in Nat /\ view >= Unit /\ (map - 1) * Unit \in Int
    BY DEF Fits
  <1>2. p \in Nat /\ o \in Nat
    BY <1>1
  <1>3. Cell(o, view) \in 0 .. NumSectors(map, view) - 1
    BY CellInMap
  <1> QED BY <1>1, <1>2, <1>3, AxisFinds DEF Cells

-----------------------------------------------------------------------------
(* The scans *)

ScanIInv == OnMap(x, y) /\ found = Get_near_sector(x, y)

\* A player is on the map, and what was found is what is around it.
THEOREM ScanInductive == ScanSpec => []ScanIInv
  <1>1. ScanInit => ScanIInv
    <2> SUFFICES ASSUME ScanInit PROVE ScanIInv
      OBVIOUS
    <2>1. PICK i \in 0 .. MapW - 1, j \in 0 .. MapH - 1 : x = i * Unit /\ y = j * Unit
      BY DEF ScanInit
    <2>2. MapW \in Nat /\ MapH \in Nat
      BY ViewAssumption DEF Fits
    <2>3. x \in 0 .. (MapW - 1) * Unit
      BY <2>1, <2>2, InBounds
    <2>4. y \in 0 .. (MapH - 1) * Unit
      BY <2>1, <2>2, InBounds
    <2> QED BY <2>3, <2>4 DEF ScanInit, ScanIInv, OnMap
  <1>2. ScanIInv /\ [ScanNext]_scanVars => ScanIInv'
    <2> SUFFICES ASSUME ScanIInv, [ScanNext]_scanVars PROVE ScanIInv'
      OBVIOUS
    <2>1. ASSUME NEW nx, NEW ny, ScanMove(nx, ny) PROVE ScanIInv'
      BY <2>1 DEF ScanMove, ScanIInv, OnMap, Get_near_sector
    <2>2. CASE UNCHANGED scanVars
      BY <2>2 DEF scanVars, ScanIInv, OnMap, Get_near_sector
    <2> QED BY <2>1, <2>2 DEF ScanNext
  <1> QED BY <1>1, <1>2, PTL DEF ScanSpec

\* A scan visits the sector of everything that is close, for every size of
\* the map, of the view and of the unit.
THEOREM ScansFindClose == ScanSpec => []FindsClose
  <1>1. ScanIInv => FindsClose
    <2> SUFFICES ASSUME ScanIInv, NEW ox \in CloseBy(x, ViewW), NEW oy \in CloseBy(y, ViewH),
                        OnMap(ox, oy)
                 PROVE  Get_Sector(ox, oy) \in found
      BY DEF FindsClose
    <2>1. Cell(ox, ViewW) \in Cells(x, ViewW, MapW)
      BY ViewAssumption, CellsFind DEF ScanIInv, OnMap
    <2>2. Cell(oy, ViewH) \in Cells(y, ViewH, MapH)
      BY ViewAssumption, CellsFind DEF ScanIInv, OnMap
    <2> QED BY <2>1, <2>2 DEF ScanIInv, Get_Sector, Get_near_sector
  <1> QED BY <1>1, ScanInductive, PTL

=============================================================================
