------------------------------- MODULE NearSet -------------------------------
(***************************************************************************)
(* Who sees whom.  A player that logs in or moves scans the sectors around *)
(* it, one lock after the other; puts itself into the near set of whom it  *)
(* finds; brings its own near set up to date; and then sends the packets   *)
(* that make the clients add and remove each other.  Other players move,   *)
(* log in and log out between any two of these steps.                      *)
(*                                                                         *)
(* A player has one receive in flight, so its moves follow one another;    *)
(* but the client may move as soon as it has LOGIN_SUCCESS, while the      *)
(* thread that accepted it still sends the packets about those it found.   *)
(* Packets to one client arrive in order: sending and receiving one is a   *)
(* step, as are the two packets about one element.  A player logs in and   *)
(* out once; monsters, and players dropped by a failing send, are left to  *)
(* the modules Monster and Session.                                        *)
(***************************************************************************)
EXTENDS Integers, Sequences, FiniteSets, SequencesExt

CONSTANTS
    Players,    \* ids
    Spots,      \* positions, as numbers on a line
    View,       \* is_near: how far a player sees
    Reach,      \* how far one move takes a player
    SectorOf,   \* Get_Sector of each spot
    Scans       \* Get_near_sector of each spot: its sector, and those whose
                \* edge is close, which is closer than View

\* Ids of players are those below MAX_PLAYER.
ASSUME PlayersAssumption == IsFiniteSet(Players)

ASSUME SpotsAssumption == Spots \subseteq Int
ASSUME ScansAssumption ==
    \A s \in Spots : \E i \in DOMAIN Scans[s] : Scans[s][i] = SectorOf[s]

VARIABLES
    objects,    \* ids with a pointer in Object_Manager::objects
    players,    \* ids with a shared pointer in Object_Manager::players
    pos,        \* Object::x of each player
    sectors,    \* the ids in each sector
    near,       \* Player::near_set
    table,      \* the ids in each client's objects
    pc,         \* where the accept or receive handler of each player stands
    from,       \* pred_x
    todo,       \* sectors still to scan, then elements still to visit
    res,        \* vec_near_objects, vec_objects: what the handler has found
    how,        \* which of the two Notify functions it ends with
    greet,      \* the packets <<to, about>> the accept handler has to send
    overtaken,  \* history: players whose handler held a player that logged out
    hasty       \* history: players that moved before they were greeted

places == <<players, objects, pos, sectors>>
regs   == <<from, todo, res, how>>
hist   == <<overtaken, hasty>>
vars   == <<places, near, table, pc, regs, greet, hist>>

Sectors == {SectorOf[s] : s \in Spots}
Others(p) == Players \ {p}

Init ==
    /\ players = {} /\ objects = {}
    /\ pos \in [Players -> {CHOOSE s \in Spots : TRUE}]
    /\ sectors = [s \in Sectors |-> {}]
    /\ near = [p \in Players |-> {}]
    /\ table = [p \in Players |-> {}]
    /\ pc = [p \in Players |-> "new"]
    /\ from = pos
    /\ todo = [p \in Players |-> <<>>]
    /\ res = [p \in Players |-> <<>>]
    /\ how = [p \in Players |-> "move"]
    /\ greet = [p \in Players |-> <<>>]
    /\ overtaken = {} /\ hasty = {}

\* A null pointer that is used ends the server.
Up == \A q \in Players : pc[q] # "crashed"
At(p, stage) == pc[p] = stage /\ Up
Goto(p, stage) == pc' = [pc EXCEPT ![p] = stage]
IsNear(p, q) == pos[p] - pos[q] <= View /\ pos[q] - pos[p] <= View

\* The players a scan finds in a sector: in the table, and near.
Found(p, sector) ==
    {q \in sectors[sector] \cap players : q # p /\ IsNear(p, q)}

\* Elements of the vector of results, in the order of a walk over some ids.
Sighted(ids) ==
    LET s == SetToSeq(ids) IN [i \in DOMAIN s |-> <<s[i], "in">>]

Ids(s) == {s[i][1] : i \in DOMAIN s}

\* One sector, under its lock; after the last one the handler goes on with
\* what it has found.
Scan(p, next) ==
    /\ res' = [res EXCEPT ![p] = @ \o Sighted(Found(p, Head(todo[p])))]
    /\ IF Len(todo[p]) > 1
       THEN todo' = [todo EXCEPT ![p] = Tail(@)] /\ UNCHANGED pc
       ELSE todo' = [todo EXCEPT ![p] = res'[p]] /\ Goto(p, next)

-----------------------------------------------------------------------------
(* Process_Accept *)

\* Object_Manager::Login fills both tables; Update_Near_set_Sight_in begins.
Login(p) ==
    /\ At(p, "new")
    /\ players' = players \cup {p} /\ objects' = objects \cup {p}
    /\ \E s \in Spots :
        /\ pos' = [pos EXCEPT ![p] = s]
        /\ todo' = [todo EXCEPT ![p] = Scans[s]]
    /\ Goto(p, "login")
    /\ UNCHANGED <<sectors, near, table, from, res, how, greet, hist>>

LoginScan(p) ==
    /\ At(p, "login")
    /\ Scan(p, "enter")
    /\ UNCHANGED <<places, near, table, from, how, greet, hist>>

\* Into the near set of each it found, by the pointer it holds.
LoginIntroduce(p) ==
    /\ At(p, "enter") /\ todo[p] # <<>>
    /\ near' = [near EXCEPT ![Head(todo[p])[1]] = @ \cup {p}]
    /\ todo' = [todo EXCEPT ![p] = Tail(@)]
    /\ UNCHANGED <<places, table, pc, from, res, how, greet, hist>>

LoginInsert(p) ==
    /\ At(p, "enter") /\ todo[p] = <<>>
    /\ near' = [near EXCEPT ![p] = @ \cup Ids(res[p])]
    /\ Goto(p, "sector")
    /\ UNCHANGED <<places, table, regs, greet, hist>>

\* Two packets about each of the objects found, to p and to the other.
Welcome(p, s) ==
    [k \in 1 .. 2 * Len(s) |->
        LET q == s[(k + 1) \div 2][1] IN IF k % 2 = 1 THEN <<p, q>> ELSE <<q, p>>]

\* SctMgr->insert, then LOGIN_SUCCESS: from now on the client may move.
LoginDone(p) ==
    /\ At(p, "sector")
    /\ sectors' = [sectors EXCEPT ![SectorOf[pos[p]]] = @ \cup {p}]
    /\ greet' = [greet EXCEPT ![p] = Welcome(p, res[p])]
    /\ res' = [res EXCEPT ![p] = <<>>]
    /\ Goto(p, "idle")
    /\ UNCHANGED <<players, objects, pos, near, table, from, todo, how, hist>>

\* SIGHT_IN and SIGHT_OUT of y, sent to and received by x.  Send_Packet sends
\* nothing to a player whose pointer is no longer in objects.
Show(x, y) ==
    table' = IF x \in objects THEN [table EXCEPT ![x] = @ \cup {y}] ELSE table
Hide(x, y) ==
    table' = IF x \in objects THEN [table EXCEPT ![x] = @ \ {y}] ELSE table

\* Send_World_in_Player
Greet(p) ==
    /\ greet[p] # <<>> /\ Up
    /\ Show(Head(greet[p])[1], Head(greet[p])[2])
    /\ greet' = [greet EXCEPT ![p] = Tail(@)]
    /\ UNCHANGED <<places, near, pc, regs, hist>>

-----------------------------------------------------------------------------
(* Process__Packet_Move, _Move_Target and _TEST_Move *)

\* Update_position: the new place is visible before it is tested.
Move(p) ==
    /\ At(p, "idle")
    /\ \E s \in Spots :
        /\ s - pos[p] <= Reach /\ pos[p] - s <= Reach
        /\ pos' = [pos EXCEPT ![p] = s]
    /\ from' = [from EXCEPT ![p] = pos[p]]
    /\ hasty' = IF greet[p] # <<>> THEN hasty \cup {p} ELSE hasty
    /\ Goto(p, "moved")
    /\ UNCHANGED <<players, objects, sectors, near, table, todo, res, how,
                   greet, overtaken>>

\* TrnMgr->Can_move refuses, Reset_position takes the player back.
Refuse(p) ==
    /\ At(p, "moved")
    /\ pos' = [pos EXCEPT ![p] = from[p]]
    /\ Goto(p, "idle")
    /\ UNCHANGED <<players, objects, sectors, near, table, regs, greet, hist>>

\* Update_Sector enters the new sector, and then leaves the old one.
EnterSector(p) ==
    /\ At(p, "moved")
    /\ sectors' = [sectors EXCEPT ![SectorOf[pos[p]]] = @ \cup {p}]
    /\ Goto(p, IF SectorOf[pos[p]] = SectorOf[from[p]] THEN "scan" ELSE "leave")
    /\ todo' = [todo EXCEPT ![p] = Scans[pos[p]]]
    /\ UNCHANGED <<players, objects, pos, near, table, from, res, how, greet,
                   hist>>

LeaveSector(p) ==
    /\ At(p, "leave")
    /\ sectors' = [sectors EXCEPT ![SectorOf[from[p]]] = @ \ {p}]
    /\ Goto(p, "scan")
    /\ UNCHANGED <<players, objects, pos, near, table, regs, greet, hist>>

\* History: p has found somebody in the middle of Logout.
Overtake(p) ==
    overtaken' =
        IF \E i \in DOMAIN res'[p] : res'[p][i][1] \in players \ objects
        THEN overtaken \cup {p} ELSE overtaken

\* Get_Objects__Update_Near_set: the sectors around the new position
MoveScan(p) ==
    /\ At(p, "scan")
    /\ Scan(p, "classify")
    /\ Overtake(p)
    /\ UNCHANGED <<places, near, table, from, how, greet, hasty>>

\* The walk over a near set: the first element with the id of someone that
\* exists becomes "near"; those that the scan has not met are out of sight,
\* and those that do not exist get an element that says so.
Marked(s, ids) ==
    [i \in DOMAIN s |->
        IF s[i][1] \in ids /\ \A j \in 1 .. i - 1 : s[j][1] # s[i][1]
        THEN <<s[i][1], "near">> ELSE s[i]]
Compared(s, known, exist) ==
    LET rest == SetToSeq(known \ (Ids(s) \cap exist))
    IN  Marked(s, known \cap exist)
        \o [i \in DOMAIN rest |->
                <<rest[i], IF rest[i] \in exist THEN "out" ELSE "unexist">>]

\* Bug variant: the walk over the near set does not look whether a player
\* still exists.
ClassifyBlind(p) ==
    /\ At(p, "classify")
    /\ res' = [res EXCEPT ![p] = Compared(@, near[p], Players)]
    /\ todo' = [todo EXCEPT ![p] = res'[p]]
    /\ Goto(p, "introduce")
    /\ Overtake(p)
    /\ UNCHANGED <<places, near, table, from, how, greet, hasty>>

\* The walk over the near set, under its lock.
Classify(p) ==
    /\ At(p, "classify")
    /\ res' = [res EXCEPT ![p] = Compared(@, near[p], players)]
    /\ todo' = [todo EXCEPT ![p] = res'[p]]
    /\ Goto(p, "introduce")
    /\ Overtake(p)
    /\ UNCHANGED <<places, near, table, from, how, greet, hasty>>

\* The next element of someone that comes into sight.
NextIn(s, i) ==
    i \in DOMAIN s /\ s[i][2] = "in" /\ \A j \in 1 .. i - 1 : s[j][2] # "in"

\* Into the near sets of those that come into sight: they are looked up by
\* id once more, and used without a test.
Introduce(p) ==
    /\ At(p, "introduce")
    /\ \E i \in DOMAIN todo[p] :
        /\ NextIn(todo[p], i)
        /\ LET q == todo[p][i][1]
           IN  IF q \in objects
               THEN near' = [near EXCEPT ![q] = @ \cup {p}] /\ UNCHANGED pc
               ELSE Goto(p, "crashed") /\ UNCHANGED near
        /\ todo' = [todo EXCEPT ![p] = SubSeq(@, i + 1, Len(@))]
    /\ UNCHANGED <<places, table, from, res, how, greet, hist>>

\* Near_set::Update takes the elements in their order: who is out of sight or
\* does not exist comes after all that the scan has met.
Updated(set, s) ==
    (set \cup {s[i][1] : i \in {j \in DOMAIN s : s[j][2] = "in"}})
        \ {s[i][1] : i \in {j \in DOMAIN s : s[j][2] \in {"out", "unexist"}}}

Update(p) ==
    /\ At(p, "introduce") /\ ~ \E i \in DOMAIN todo[p] : NextIn(todo[p], i)
    /\ near' = [near EXCEPT ![p] = Updated(@, res[p])]
    /\ todo' = [todo EXCEPT ![p] = res[p]]
    /\ res' = [res EXCEPT ![p] = <<>>]
    /\ \E notify \in {"move", "target"} : how' = [how EXCEPT ![p] = notify]
    /\ Goto(p, "tell")
    /\ UNCHANGED <<places, table, from, greet, hist>>

\* One element of Notify_Player_Move ("move") or Notify_Player_Move_Target:
\* the other is looked up and told, and then the mover.  A player that is gone
\* is skipped by the second function, and used by the first.
Tell(p) ==
    /\ At(p, "tell") /\ todo[p] # <<>>
    /\ LET q == Head(todo[p])[1]
           kind == Head(todo[p])[2]
       IN  \/ /\ kind = "unexist"
              /\ Goto(p, "tell_self")
              /\ UNCHANGED <<table, todo>>
           \/ /\ kind # "unexist" /\ q \notin objects
              /\ IF how[p] = "move" THEN Goto(p, "crashed") ELSE UNCHANGED pc
              /\ todo' = [todo EXCEPT ![p] = Tail(@)]
              /\ UNCHANGED table
           \/ /\ kind = "near" /\ q \in objects
              /\ todo' = [todo EXCEPT ![p] = Tail(@)]
              /\ UNCHANGED <<table, pc>>
           \/ /\ kind \in {"in", "out"} /\ q \in objects
              /\ IF kind = "in" THEN Show(q, p) ELSE Hide(q, p)
              /\ Goto(p, "tell_self")
              /\ UNCHANGED todo
    /\ UNCHANGED <<places, near, from, res, how, greet, hist>>

\* Bug variant: a SIGHT_OUT goes to the other only.
TellSelfForgets(p) ==
    /\ At(p, "tell_self")
    /\ LET e == Head(todo[p])
       IN  IF e[2] = "in" THEN Show(p, e[1]) ELSE UNCHANGED table
    /\ todo' = [todo EXCEPT ![p] = Tail(@)]
    /\ Goto(p, "tell")
    /\ UNCHANGED <<places, near, from, res, how, greet, hist>>

\* The second packet of an element, and the only one about a player that is
\* gone.
TellSelf(p) ==
    /\ At(p, "tell_self")
    /\ LET e == Head(todo[p])
       IN  IF e[2] = "in" THEN Show(p, e[1]) ELSE Hide(p, e[1])
    /\ todo' = [todo EXCEPT ![p] = Tail(@)]
    /\ Goto(p, "tell")
    /\ UNCHANGED <<places, near, from, res, how, greet, hist>>

Told(p) ==
    /\ At(p, "tell") /\ todo[p] = <<>>
    /\ how' = [how EXCEPT ![p] = "move"]
    /\ from' = [from EXCEPT ![p] = pos[p]]
    /\ Goto(p, "idle")
    /\ UNCHANGED <<places, near, table, todo, res, greet, hist>>

-----------------------------------------------------------------------------
(* Process_Receive of the end of the stream: nobody is told *)

\* q has found p, and has not done with it.
Holds(q, p) ==
    \/ \E i \in DOMAIN res[q] : res[q][i][1] = p
    \/ /\ pc[q] \in {"introduce", "tell", "tell_self"}
       /\ \E i \in DOMAIN todo[q] : todo[q][i][1] = p

Unlist(p) ==
    /\ At(p, "idle")
    /\ objects' = objects \ {p}
    /\ overtaken' = overtaken \cup {q \in Others(p) : Holds(q, p)}
    /\ Goto(p, "unslot")
    /\ UNCHANGED <<players, pos, sectors, near, table, regs, greet, hasty>>

Unslot(p) ==
    /\ At(p, "unslot")
    /\ players' = players \ {p}
    /\ Goto(p, "quit")
    /\ UNCHANGED <<objects, pos, sectors, near, table, regs, greet, hist>>

Quit(p) ==
    /\ At(p, "quit")
    /\ sectors' = [sectors EXCEPT ![SectorOf[pos[p]]] = @ \ {p}]
    /\ table' = [table EXCEPT ![p] = {}]
    /\ Goto(p, "out")
    /\ UNCHANGED <<objects, players, pos, near, regs, greet, hist>>

-----------------------------------------------------------------------------

Next ==
    \E p \in Players :
        \/ Login(p) \/ LoginScan(p) \/ LoginIntroduce(p) \/ LoginInsert(p)
        \/ LoginDone(p) \/ Greet(p)
        \/ Move(p) \/ Refuse(p) \/ EnterSector(p) \/ LeaveSector(p)
        \/ MoveScan(p) \/ Classify(p) \/ Introduce(p) \/ Update(p)
        \/ Tell(p) \/ TellSelf(p) \/ Told(p)
        \/ Unlist(p) \/ Unslot(p) \/ Quit(p)

Spec == Init /\ [][Next]_vars

-----------------------------------------------------------------------------
(* Properties *)

\* The missing tests of Get_Objects__Update_Near_set and Notify_Player_Move
\* are fatal only when a player logs out while the handler holds what it has
\* found: an id that stayed behind in a near set is never used.
NullNeedsLogout == \A p \in Players : pc[p] = "crashed" => p \in overtaken

Leaving(p) == pc[p] \in {"unslot", "quit", "out"}
Recalls(p, q) ==
    /\ pc[p] \in {"tell", "tell_self"}
    /\ \E i \in DOMAIN todo[p] : todo[p][i] = <<q, "out">>

\* No ghosts: while the server is up and both are logged in, a client shows a
\* player only if one of the two still has the other in its near set, and so
\* will send the SIGHT_OUT, or if that packet is about to be sent.  A client
\* that moved before it was greeted may be shown things of the past.
EntryTracked ==
    \A p \in Players : \A q \in table[p] :
        Up /\ {p, q} \cap hasty = {} /\ ~Leaving(p) /\ ~Leaving(q) =>
            \/ q \in near[p] \/ p \in near[q]
            \/ Recalls(p, q) \/ Recalls(q, p)

=============================================================================
