------------------------------- MODULE Session -------------------------------
(***************************************************************************)
(* The life of a client session in the server: the overlapped accept, the  *)
(* pool of player ids, the object and player tables, the completions the   *)
(* worker threads take from the I/O completion port, the membership of the *)
(* sectors, and the removal of a player by the end of its stream or by a   *)
(* send that failed.                                                       *)
(*                                                                         *)
(* A connection stands for the accepted socket and for the Player object   *)
(* built on it: the server makes one Player per socket and never moves a   *)
(* socket to another one.  A worker thread takes one completion at a time  *)
(* (pc = "idle" in GetQueuedCompletionStatus); every access to shared data *)
(* inside a handler is a step of its own.  Packets, positions inside a     *)
(* sector and the text of the notifications are abstracted.                *)
(***************************************************************************)
EXTENDS Naturals, Sequences, FiniteSets

CONSTANTS
    Threads,    \* worker threads (NUMBER_OF_THREAD__SERVER_PROCESS of them)
    Conns,      \* sockets the server may create, with their Player objects
    Ids,        \* player ids, 0 .. MAX_PLAYER - 1
    Sectors,    \* sectors a player may stand in
    NoConn,     \* a null pointer, or no socket
    NoId,       \* a Player that does not exist yet has no id
    NoSector,   \* no sector read yet
    IdQueue     \* the ids in the order the constructor pushes them

ASSUME NoConnAssumption == NoConn \notin Conns
ASSUME NoIdAssumption == NoId \notin Ids
ASSUME IdQueueAssumption ==
    /\ IdQueue \in Seq(Ids)
    /\ \A i, j \in 1 .. Len(IdQueue) : IdQueue[i] = IdQueue[j] => i = j

VARIABLES
    pool,           \* Login_Manager::queue
    players,        \* Object_Manager::players
    objects,        \* Object_Manager::objects, the slots of the players
    sectors,        \* Sector_Base::set of each sector, the players in it
    acceptsocket,   \* Server::acceptsocket
    connected,      \* the completion of the pending AcceptEx is queued
    sock,           \* state of each socket
    recv,           \* state of the one overlapped receive of each Player
    idOf,           \* Player::id
    pos,            \* the sector that holds Player::x, Player::y
    pc, conn, key, me, at, tgt, back,   \* registers of the worker threads
    kicked,         \* history: players removed because a send failed
    early           \* history: players that moved or left before their
                    \* accept handler had put them into a sector

tables == <<pool, players, objects, sectors>>
net    == <<acceptsocket, connected, sock, recv>>
who    == <<idOf, pos>>
regs   == <<pc, conn, key, me, at, tgt, back>>
hist   == <<kicked, early>>
vars   == <<tables, net, who, regs, hist>>

-----------------------------------------------------------------------------
(* Types *)

SockState == {"unused", "listening", "open", "hungup", "closed"}

\* "unbound": posted by the constructor, socket not yet bound to the port;
\* "data", "eof": its completion is in the port's queue; "busy": a thread
\* handles that completion; "dead": no completion will ever be handled and
\* the id stays taken; "returned": the id went back to the pool.
RecvState ==
    {"none", "unbound", "posted", "data", "eof", "busy", "dead", "returned"}

AcceptStage ==
    {"pop", "login", "fetch", "publish", "bind", "locate", "enter", "greet"}
CloseStage  == {"close", "unlist", "unslot", "leave", "push"}
MoveStage   == {"moved", "entered"}
SendStage   == {"check", "send", "drop", "dropslot"}
PcState     == {"idle", "work", "crashed"}
                   \cup AcceptStage \cup CloseStage \cup MoveStage \cup SendStage

\* The tables hold connections, the pool and the sectors ids, and a register
\* is empty or holds what its name says.
TypeOK ==
    /\ pool \in Seq(Ids)
    /\ players \in [Ids -> Conns \cup {NoConn}]
    /\ objects \in [Ids -> Conns \cup {NoConn}]
    /\ sectors \in [Sectors -> SUBSET Ids]
    /\ acceptsocket \in Conns \cup {NoConn}
    /\ connected \in BOOLEAN
    /\ sock \in [Conns -> SockState]
    /\ recv \in [Conns -> RecvState]
    /\ idOf \in [Conns -> Ids \cup {NoId}]
    /\ pos \in [Conns -> Sectors]
    /\ pc \in [Threads -> PcState]
    /\ conn \in [Threads -> Conns \cup {NoConn}]
    /\ key \in [Threads -> Ids \cup {NoId}]
    /\ me \in [Threads -> Conns \cup {NoConn}]
    /\ at \in [Threads -> Sectors \cup {NoSector}]
    /\ tgt \in [Threads -> Conns \cup {NoConn}]
    /\ back \in [Threads -> {"idle", "work", "greet"}]
    /\ kicked \subseteq Conns
    /\ early \subseteq Conns

-----------------------------------------------------------------------------
(* Initial state: Login_Manager's constructor has filled the pool, Do_Connect
   and the first Do_Acceptex have run, the worker threads wait. *)

Init ==
    /\ pool = IdQueue
    /\ players = [i \in Ids |-> NoConn]
    /\ objects = [i \in Ids |-> NoConn]
    /\ sectors = [s \in Sectors |-> {}]
    /\ acceptsocket \in Conns
    /\ connected = FALSE
    /\ sock = [c \in Conns |-> IF c = acceptsocket THEN "listening" ELSE "unused"]
    /\ recv = [c \in Conns |-> "none"]
    /\ idOf = [c \in Conns |-> NoId]
    /\ pos \in [Conns -> Sectors]
    /\ pc = [t \in Threads |-> "idle"]
    /\ conn = [t \in Threads |-> NoConn]
    /\ key = [t \in Threads |-> NoId]
    /\ me = [t \in Threads |-> NoConn]
    /\ at = [t \in Threads |-> NoSector]
    /\ tgt = [t \in Threads |-> NoConn]
    /\ back = [t \in Threads |-> "idle"]
    /\ kicked = {}
    /\ early = {}

Goto(t, label) == pc' = [pc EXCEPT ![t] = label]

\* The handler returns: its locals are gone.
Return(t) ==
    /\ Goto(t, "idle")
    /\ conn' = [conn EXCEPT ![t] = NoConn]
    /\ key' = [key EXCEPT ![t] = NoId]
    /\ me' = [me EXCEPT ![t] = NoConn]
    /\ at' = [at EXCEPT ![t] = NoSector]
    /\ UNCHANGED <<tgt, back>>

-----------------------------------------------------------------------------
(* The network and the kernel *)

\* A client connects: AcceptEx completes and its completion is queued.
Connect ==
    /\ acceptsocket # NoConn
    /\ ~connected
    /\ connected' = TRUE
    /\ sock' = [sock EXCEPT ![acceptsocket] = "open"]
    /\ UNCHANGED <<acceptsocket, recv, tables, who, regs, hist>>

\* The peer closes or resets its connection.
HangUp(c) ==
    /\ sock[c] = "open"
    /\ sock' = [sock EXCEPT ![c] = "hungup"]
    /\ UNCHANGED <<acceptsocket, connected, recv, tables, who, regs, hist>>

\* The posted receive of a socket bound to the port completes: with data, or
\* with zero bytes once the peer is gone.
Complete(c) ==
    /\ recv[c] = "posted"
    /\ \/ sock[c] = "open" /\ recv' = [recv EXCEPT ![c] = "data"]
       \/ sock[c] = "hungup" /\ recv' = [recv EXCEPT ![c] = "eof"]
    /\ UNCHANGED <<acceptsocket, connected, sock, tables, who, regs, hist>>

\* The receive the constructor posted completes before the socket is bound
\* to the port: the kernel queues no completion for it.
CompleteUnbound(c) ==
    /\ recv[c] = "unbound"
    /\ sock[c] \in {"open", "hungup"}
    /\ recv' = [recv EXCEPT ![c] = "dead"]
    /\ UNCHANGED <<acceptsocket, connected, sock, tables, who, regs, hist>>

\* WSARecv: pending, or refused at once when the connection is broken.  The
\* code looks at no result, so a refused receive leaves no completion.
Posted(c, state) ==
    \/ recv' = [recv EXCEPT ![c] = state]
    \/ sock[c] = "hungup" /\ recv' = [recv EXCEPT ![c] = "dead"]

-----------------------------------------------------------------------------
(* Process_Accept *)

\* Bug variant: the next AcceptEx is armed before acceptsocket is copied.
AcceptTakeLate(t) ==
    /\ pc[t] = "idle" /\ connected
    /\ connected' = FALSE
    /\ \E c \in Conns :
        /\ sock[c] = "unused"
        /\ acceptsocket' = c
        /\ sock' = [sock EXCEPT ![c] = "listening"]
        /\ conn' = [conn EXCEPT ![t] = c]
    /\ Goto(t, "pop")
    /\ UNCHANGED <<recv, key, me, at, tgt, back, tables, who, hist>>

\* The thread takes the accept completion, copies acceptsocket to a local and
\* arms the next AcceptEx with a new socket, if Conns still holds one.
AcceptTake(t) ==
    /\ pc[t] = "idle"
    /\ connected
    /\ connected' = FALSE
    /\ conn' = [conn EXCEPT ![t] = acceptsocket]
    /\ \/ \E c \in Conns :
            /\ sock[c] = "unused"
            /\ acceptsocket' = c
            /\ sock' = [sock EXCEPT ![c] = "listening"]
       \/ /\ \A c \in Conns : sock[c] # "unused"
          /\ acceptsocket' = NoConn
          /\ UNCHANGED sock
    /\ Goto(t, "pop")
    /\ UNCHANGED <<recv, key, me, at, tgt, back, tables, who, hist>>

\* Login_Manager::Pop; without an id the login fails, and the socket is left
\* open with nothing posted on it.
PopId(t) ==
    /\ pc[t] = "pop"
    /\ \/ /\ pool = <<>>
          /\ Return(t)
          /\ UNCHANGED pool
       \/ /\ pool # <<>>
          /\ key' = [key EXCEPT ![t] = Head(pool)]
          /\ pool' = Tail(pool)
          /\ Goto(t, "login")
          /\ UNCHANGED <<conn, me, at, tgt, back>>
    /\ UNCHANGED <<players, objects, sectors, net, who, hist>>

\* Object_Manager::Login, first statement: the Player is built, which posts
\* its first receive and picks its place, and stored in players.
LoginPlayer(t) ==
    /\ pc[t] = "login"
    /\ players' = [players EXCEPT ![key[t]] = conn[t]]
    /\ idOf' = [idOf EXCEPT ![conn[t]] = key[t]]
    /\ Posted(conn[t], "unbound")
    /\ Goto(t, "fetch")
    /\ UNCHANGED <<pool, objects, sectors, acceptsocket, connected, sock, pos,
                   conn, key, me, at, tgt, back, hist>>

\* Object_Manager::Login: p_player = players[id].get() ...
LoginFetch(t) ==
    /\ pc[t] = "fetch"
    /\ me' = [me EXCEPT ![t] = players[key[t]]]
    /\ Goto(t, "publish")
    /\ UNCHANGED <<tables, net, who, conn, key, at, tgt, back, hist>>

\* ... and objects[id] = p_player.
LoginObject(t) ==
    /\ pc[t] = "publish"
    /\ objects' = [objects EXCEPT ![key[t]] = me[t]]
    /\ Goto(t, "bind")
    /\ UNCHANGED <<pool, players, sectors, net, who, conn, key, me, at, tgt,
                   back, hist>>

\* The player is read back through its slot, without a counted reference, and
\* the socket is bound to the port.  A null pointer is dereferenced next and
\* ends the process.
Bind(t) ==
    /\ pc[t] = "bind"
    /\ me' = [me EXCEPT ![t] = players[key[t]]]
    /\ recv' = IF recv[conn[t]] = "unbound"
                   THEN [recv EXCEPT ![conn[t]] = "posted"] ELSE recv
    /\ Goto(t, IF me'[t] = NoConn THEN "crashed" ELSE "locate")
    /\ UNCHANGED <<acceptsocket, connected, sock, tables, who, conn, key, at,
                   tgt, back, hist>>

\* Sector_Manager::insert: Get_Sector reads the position ...
Locate(t) ==
    /\ pc[t] = "locate"
    /\ at' = [at EXCEPT ![t] = pos[me[t]]]
    /\ Goto(t, "enter")
    /\ UNCHANGED <<tables, net, who, conn, key, me, tgt, back, hist>>

\* ... and the id goes into that sector, under its lock.
Enter(t) ==
    /\ pc[t] = "enter"
    /\ sectors' = [sectors EXCEPT ![at[t]] = @ \cup {idOf[me[t]]}]
    /\ Goto(t, "greet")
    /\ UNCHANGED <<pool, players, objects, net, who, conn, key, me, at, tgt,
                   back, hist>>

\* The notifications of the login are sent; the handler returns.
AcceptDone(t) ==
    /\ pc[t] = "greet"
    /\ Return(t)
    /\ UNCHANGED <<tables, net, who, hist>>

-----------------------------------------------------------------------------
(* Process_Receive *)

\* The thread takes a receive completion and looks the player up by the id
\* that the port delivers with it.  Nobody there: the handler returns and no
\* receive is posted again.
ReceiveTake(t, c) ==
    /\ pc[t] = "idle"
    /\ recv[c] \in {"data", "eof"}
    /\ LET p == players[idOf[c]] IN
       \/ /\ p = NoConn
          /\ recv' = [recv EXCEPT ![c] = "dead"]
          /\ UNCHANGED regs
       \/ /\ p # NoConn
          /\ recv' = [recv EXCEPT ![c] = "busy"]
          /\ conn' = [conn EXCEPT ![t] = c]
          /\ key' = [key EXCEPT ![t] = idOf[c]]
          /\ me' = [me EXCEPT ![t] = p]
          /\ Goto(t, IF recv[c] = "eof" THEN "close" ELSE "work")
          /\ UNCHANGED <<at, tgt, back>>
    /\ UNCHANGED <<acceptsocket, connected, sock, tables, who, hist>>

\* An accept handler has not yet put player c into a sector.
Entering(c) ==
    \E u \in Threads : pc[u] \in {"locate", "enter"} /\ me[u] = c

\* Do_Disconnect
Close(t) ==
    /\ pc[t] = "close"
    /\ sock' = [sock EXCEPT ![me[t]] = "closed"]
    /\ Goto(t, "unlist")
    /\ UNCHANGED <<acceptsocket, connected, recv, tables, who, conn, key, me,
                   at, tgt, back, hist>>

\* Bug variant: Logout forgets the object table.
UnlistForgotten(t) ==
    /\ pc[t] = "unlist"
    /\ Goto(t, "unslot")
    /\ UNCHANGED <<tables, net, who, conn, key, me, at, tgt, back, hist>>

\* Object_Manager::Logout, first statement
Unlist(t) ==
    /\ pc[t] = "unlist"
    /\ objects' = [objects EXCEPT ![idOf[me[t]]] = NoConn]
    /\ Goto(t, "unslot")
    /\ UNCHANGED <<pool, players, sectors, net, who, conn, key, me, at, tgt,
                   back, hist>>

\* Bug variant: Logout forgets the player table.
UnslotForgotten(t) ==
    /\ pc[t] = "unslot"
    /\ Goto(t, "leave")
    /\ UNCHANGED <<tables, net, who, conn, key, me, at, tgt, back, hist>>

\* Object_Manager::Logout, second statement
Unslot(t) ==
    /\ pc[t] = "unslot"
    /\ players' = [players EXCEPT ![idOf[me[t]]] = NoConn]
    /\ Goto(t, "leave")
    /\ UNCHANGED <<pool, objects, sectors, net, who, conn, key, me, at, tgt,
                   back, hist>>

\* Sector_Manager::erase: only this handler moves the player, so reading its
\* position and erasing the id there is one step.
Leave(t) ==
    /\ pc[t] = "leave"
    /\ sectors' = [sectors EXCEPT ![pos[me[t]]] = @ \ {idOf[me[t]]}]
    /\ early' = IF Entering(me[t]) THEN early \cup {me[t]} ELSE early
    /\ Goto(t, "push")
    /\ UNCHANGED <<pool, players, objects, net, who, conn, key, me, at, tgt,
                   back, kicked>>

\* Bug variant: the id is used after the handler has given up its locals.
PushIdCleared(t) ==
    /\ pc[t] = "push"
    /\ Return(t)
    /\ pool' = Append(pool, key'[t])
    /\ recv' = [recv EXCEPT ![conn[t]] = "returned"]
    /\ UNCHANGED <<players, objects, sectors, acceptsocket, connected, sock, who,
                   hist>>

\* Bug variant: the id is not pushed back.
PushIdForgotten(t) ==
    /\ pc[t] = "push"
    /\ recv' = [recv EXCEPT ![conn[t]] = "returned"]
    /\ Return(t)
    /\ UNCHANGED <<tables, acceptsocket, connected, sock, who, hist>>

\* Login_Manager::Push
PushId(t) ==
    /\ pc[t] = "push"
    /\ pool' = Append(pool, key[t])
    /\ recv' = [recv EXCEPT ![conn[t]] = "returned"]
    /\ Return(t)
    /\ UNCHANGED <<players, objects, sectors, acceptsocket, connected, sock, who,
                   hist>>

\* A move packet carries the player over a sector boundary: Update_position,
\* then Can_move either resets the position (Reset) or lets
\* Sector_Manager::Update_Sector insert the id into the new sector and erase
\* it from the old one.
Move(t, s) ==
    /\ pc[t] = "work"
    /\ s # pos[me[t]]
    /\ at' = [at EXCEPT ![t] = pos[me[t]]]
    /\ pos' = [pos EXCEPT ![me[t]] = s]
    /\ early' = IF Entering(me[t]) THEN early \cup {me[t]} ELSE early
    /\ Goto(t, "moved")
    /\ UNCHANGED <<tables, net, idOf, conn, key, me, tgt, back, kicked>>

ResetMove(t) ==
    /\ pc[t] = "moved"
    /\ pos' = [pos EXCEPT ![me[t]] = at[t]]
    /\ at' = [at EXCEPT ![t] = NoSector]
    /\ Goto(t, "work")
    /\ UNCHANGED <<tables, net, idOf, conn, key, me, tgt, back, hist>>

MoveIn(t) ==
    /\ pc[t] = "moved"
    /\ sectors' = [sectors EXCEPT ![pos[me[t]]] = @ \cup {idOf[me[t]]}]
    /\ Goto(t, "entered")
    /\ UNCHANGED <<pool, players, objects, net, who, conn, key, me, at, tgt,
                   back, hist>>

\* Bug variant: Update_Sector erases from the new sector.
MoveOutCurrent(t) ==
    /\ pc[t] = "entered"
    /\ sectors' = [sectors EXCEPT ![pos[me[t]]] = @ \ {idOf[me[t]]}]
    /\ at' = [at EXCEPT ![t] = NoSector]
    /\ Goto(t, "work")
    /\ UNCHANGED <<pool, players, objects, net, who, conn, key, me, tgt, back,
                   hist>>

MoveOut(t) ==
    /\ pc[t] = "entered"
    /\ sectors' = [sectors EXCEPT ![at[t]] = @ \ {idOf[me[t]]}]
    /\ at' = [at EXCEPT ![t] = NoSector]
    /\ Goto(t, "work")
    /\ UNCHANGED <<pool, players, objects, net, who, conn, key, me, tgt, back,
                   hist>>

\* Bug variant: the receive is posted while packets are still being processed.
RepostEarly(t) ==
    /\ pc[t] = "work"
    /\ Posted(conn[t], "posted")
    /\ UNCHANGED <<regs, acceptsocket, connected, sock, tables, who, hist>>

\* Bug variant: no receive is posted.
RepostForgotten(t) ==
    /\ pc[t] = "work"
    /\ Return(t)
    /\ UNCHANGED <<net, tables, who, hist>>

\* Do_Assemble_packet has processed what arrived and posts the next receive;
\* the handler returns.
Repost(t) ==
    /\ pc[t] = "work"
    /\ Posted(conn[t], "posted")
    /\ Return(t)
    /\ UNCHANGED <<acceptsocket, connected, sock, tables, who, hist>>

-----------------------------------------------------------------------------
(* Send_Packet, called by the notifications of a receive handler ("work"), of
   an accept handler ("greet") and of the monsters' handlers (a thread that is
   "idle" here). *)

\* A pointer to the player to notify is obtained from the tables, or is the
\* handler's own player.
PickTarget(t, d) ==
    /\ pc[t] \in {"idle", "work", "greet"}
    /\ \/ \E i \in Ids : d \in {objects[i], players[i]}
       \/ d = me[t]
    /\ d # NoConn
    /\ tgt' = [tgt EXCEPT ![t] = d]
    /\ back' = [back EXCEPT ![t] = pc[t]]
    /\ Goto(t, "check")
    /\ UNCHANGED <<tables, net, who, conn, key, me, at, hist>>

\* Send_Packet is left.
EndSend(t) ==
    /\ Goto(t, back[t])
    /\ tgt' = [tgt EXCEPT ![t] = NoConn]
    /\ back' = [back EXCEPT ![t] = "idle"]

\* The player must still be the one that objects holds under its id.
CheckTarget(t) ==
    /\ pc[t] = "check"
    /\ \/ /\ objects[idOf[tgt[t]]] = tgt[t]
          /\ Goto(t, "send")
          /\ UNCHANGED <<tgt, back>>
       \/ /\ objects[idOf[tgt[t]]] # tgt[t]
          /\ EndSend(t)
    /\ UNCHANGED <<tables, net, who, conn, key, me, at, hist>>

\* Bug variant: WSA_IO_PENDING is taken for a failure.
SendPacketPending(t) ==
    /\ pc[t] = "send"
    /\ Goto(t, "drop")
    /\ UNCHANGED <<tgt, back, tables, net, who, conn, key, me, at, hist>>

\* WSASend succeeds, or fails because the connection is gone by now.
SendPacket(t) ==
    /\ pc[t] = "send"
    /\ \/ EndSend(t)
       \/ /\ sock[tgt[t]] \in {"hungup", "closed"}
          /\ Goto(t, "drop")
          /\ UNCHANGED <<tgt, back>>
    /\ UNCHANGED <<tables, net, who, conn, key, me, at, hist>>

\* Logout after the failure, first statement: whoever holds the id by now.
DropObject(t) ==
    /\ pc[t] = "drop"
    /\ objects' = [objects EXCEPT ![idOf[tgt[t]]] = NoConn]
    /\ Goto(t, "dropslot")
    /\ UNCHANGED <<pool, players, sectors, net, who, conn, key, me, at, tgt,
                   back, hist>>

\* Bug variant: the failed send also gives the id back.
DropPlayerPush(t) ==
    /\ pc[t] = "dropslot"
    /\ LET i == idOf[tgt[t]] IN
       /\ players' = [players EXCEPT ![i] = NoConn]
       /\ kicked' = kicked \cup ({players[i]} \ {NoConn})
       /\ pool' = Append(pool, i)
    /\ EndSend(t)
    /\ UNCHANGED <<objects, sectors, net, who, conn, key, me, at, early>>

\* Logout after the failure, second statement
DropPlayer(t) ==
    /\ pc[t] = "dropslot"
    /\ LET i == idOf[tgt[t]] IN
       /\ players' = [players EXCEPT ![i] = NoConn]
       /\ kicked' = kicked \cup ({players[i]} \ {NoConn})
    /\ EndSend(t)
    /\ UNCHANGED <<pool, objects, sectors, net, who, conn, key, me, at, early>>

-----------------------------------------------------------------------------

Running == \A t \in Threads : pc[t] # "crashed"

Network == Connect \/ \E c \in Conns : HangUp(c) \/ Complete(c) \/ CompleteUnbound(c)

AcceptStep(t) ==
    \/ AcceptTake(t) \/ PopId(t) \/ LoginPlayer(t) \/ LoginFetch(t)
    \/ LoginObject(t) \/ Bind(t) \/ Locate(t) \/ Enter(t) \/ AcceptDone(t)

CloseStep(t) == Close(t) \/ Unlist(t) \/ Unslot(t) \/ Leave(t) \/ PushId(t)

MoveStep(t) ==
    \/ \E s \in Sectors : Move(t, s)
    \/ ResetMove(t) \/ MoveIn(t) \/ MoveOut(t)

ReceiveStep(t) ==
    (\E c \in Conns : ReceiveTake(t, c)) \/ CloseStep(t) \/ MoveStep(t) \/ Repost(t)

SendStep(t) ==
    \/ \E d \in Conns : PickTarget(t, d)
    \/ CheckTarget(t) \/ SendPacket(t) \/ DropObject(t) \/ DropPlayer(t)

Next ==
    /\ Running
    /\ \/ Network
       \/ \E t \in Threads : AcceptStep(t) \/ ReceiveStep(t) \/ SendStep(t)

Spec == Init /\ [][Next]_vars

\* The kernel completes what it can, the port is a queue, so every queued
\* completion is handed to a thread in the end, and the scheduler runs every
\* thread.  The vectors the notifications run over are finite, and packets
\* are processed one by one until none is left, so a handler comes to its end
\* however often it sends or moves on the way.
Fairness ==
    /\ \A c \in Conns :
        /\ WF_vars(Running /\ Complete(c))
        /\ SF_vars(Running /\ \E t \in Threads : ReceiveTake(t, c))
    /\ \A t \in Threads :
        /\ WF_vars(Running /\ (AcceptStep(t) \/ CloseStep(t)))
        /\ WF_vars(Running /\ (ResetMove(t) \/ MoveIn(t) \/ MoveOut(t)))
        /\ WF_vars(Running /\ (CheckTarget(t) \/ SendPacket(t)
                                  \/ DropObject(t) \/ DropPlayer(t)))
        /\ SF_vars(Running /\ (Repost(t) \/ AcceptDone(t)))

FairSpec == Spec /\ Fairness

-----------------------------------------------------------------------------
(* Properties *)

\* Connection c holds the id of its Player: from the moment the Player is
\* built until the handler of its last completion pushes the id back.
Holds(c) == recv[c] \notin {"none", "returned"}

\* An accept handler has popped id i and not yet built a Player on it.
Popped(t, i) == pc[t] = "login" /\ key[t] = i

InPool(i) == \E n \in 1 .. Len(pool) : pool[n] = i

\* Thread t runs Process_Receive for the completion of conn[t].
Receiving(t) ==
    \/ pc[t] \in {"work"} \cup CloseStage \cup MoveStage
    \/ pc[t] \in SendStage /\ back[t] = "work"

\* An id has at most one holder: it is in the pool once, or one accept handler
\* has just popped it, or one connection holds it.  (Pop and Push run in
\* different threads; a second Push of an id would give it to two players.)
IdHeldOnce ==
    /\ \A m, n \in 1 .. Len(pool) : pool[m] = pool[n] => m = n
    /\ \A t \in Threads, i \in Ids :
        Popped(t, i) =>
            /\ ~InPool(i)
            /\ \A u \in Threads : Popped(u, i) => u = t
            /\ \A c \in Conns : ~(Holds(c) /\ idOf[c] = i)
    /\ \A c \in Conns :
        Holds(c) =>
            /\ ~InPool(idOf[c])
            /\ \A d \in Conns : Holds(d) /\ idOf[d] = idOf[c] => d = c

\* No id falls between pool, handlers and connections: an id out of use is
\* always accounted for by a connection whose receive is dead.
IdNotForgotten ==
    \A n \in 1 .. Len(IdQueue) :
        \/ InPool(IdQueue[n])
        \/ \E t \in Threads : Popped(t, IdQueue[n])
        \/ \E c \in Conns : Holds(c) /\ idOf[c] = IdQueue[n]

\* The port delivers only an id with a completion, and the handler looks its
\* player up by it: the player it finds is the one whose receive completed,
\* and no second thread works on that player's receive buffer.
HandlerServesItsPlayer ==
    \A t \in Threads :
        Receiving(t) =>
            /\ me[t] = conn[t]
            /\ recv[conn[t]] = "busy"
            /\ \A u \in Threads : Receiving(u) /\ me[u] = me[t] => u = t

\* A socket taken from acceptsocket is handled once, and is no longer the one
\* the pending AcceptEx will fill.
AcceptedOnce ==
    \A t \in Threads :
        pc[t] \in AcceptStage \ {"greet"} =>
            /\ conn[t] # acceptsocket
            /\ \A u \in Threads :
                pc[u] \in AcceptStage \ {"greet"} /\ conn[u] = conn[t] => u = t

\* A login never replaces another player in its slot: a slot is emptied by a
\* Logout before the next player is stored.
SlotNeverReplaced ==
    [][\A i \in Ids : players[i] # NoConn => players'[i] \in {players[i], NoConn}]_players

\* objects names only the player its slot in players owns; where it names
\* another one, that player was kicked by a failed send.
TablesAgree ==
    \A i \in Ids :
        objects[i] # NoConn => objects[i] = players[i] \/ objects[i] \in kicked

\* A player whose connection is healthy is kicked only by a sender that held
\* on to an earlier player of the same id: Send_Packet compares the pointer
\* before it sends and Logout goes by the id after the send has failed.
HealthyKickNeedsReuse ==
    \A c \in kicked :
        \/ sock[c] \in {"hungup", "closed"}
        \/ \E d \in Conns \ {c} : idOf[d] = idOf[c] /\ sock[d] = "closed"

\* Some thread is about to change the sectors on behalf of player c.
Unsettled(c) ==
    \E t \in Threads :
        me[t] = c /\ pc[t] \in {"locate", "enter", "leave", "moved", "entered"}

\* Sector membership follows the players: a player is in the sector it stands
\* in and in no other, and an id nobody uses is in no sector.  The exceptions
\* are the ids of players that a failed send kicked (no sector is erased) and
\* of players that moved or left before their accept handler entered them.
SectorsFollowPlayers ==
    \A i \in Ids :
        (\A c \in kicked \cup early : idOf[c] # i) =>
            /\ \A c \in Conns :
                /\ players[i] = c
                /\ ~Unsettled(c)
                /\ \A t \in Threads : conn[t] = c => pc[t] \notin AcceptStage \ {"greet"}
                => {s \in Sectors : i \in sectors[s]} = {pos[c]}
            /\ InPool(i) => \A s \in Sectors : i \notin sectors[s]

\* A client that hung up gives its id back, unless its player was kicked or
\* no completion is left to handle its end.
HungUpReturnsId ==
    \A c \in Conns :
        (sock[c] = "hungup" /\ Holds(c)) ~>
            (recv[c] \in {"returned", "dead"} \/ ~Running)

=============================================================================
