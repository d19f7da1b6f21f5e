-------------------------------- MODULE Combat -------------------------------
(***************************************************************************)
(* Players that attack one monster at the same time, and what the client  *)
(* of another player, the watcher, shows of it.  The hit points fall by    *)
(* compare-and-swap; the death is a flag set a step later; the packets are *)
(* made from that flag, later still; and what a client shows comes from    *)
(* the damages it was told of, a spell's when its bullet has arrived, or   *)
(* from the hit points in a SIGHT_IN packet.  Two handlers send those, the *)
(* one that moves the watcher and the one that moves the monster, both by  *)
(* the watcher's near set.                                                 *)
(*                                                                         *)
(* The watcher has been welcomed, and stays in the near sets of the        *)
(* attackers.  The monster has one chain of events, and its handler ends   *)
(* before the event it pushed fires.  The packets to a client arrive in    *)
(* the order in which they are sent, so sending one and receiving it is    *)
(* one step.  Distances, cool times and init_moving are left open: whether *)
(* a blow is tried, and who is met, may go either way.                     *)
(***************************************************************************)
EXTENDS Integers, FiniteSets

CONSTANTS
    Attackers,  \* players, each with a worker thread that handles its packet
    InitHp,     \* Get_init_hp of the monster
    Str,        \* Object::str of the players
    Unseen      \* the watcher's client does not know the monster

ASSUME InitHpAssumption == InitHp \in Nat \ {0}
ASSUME StrAssumption == Str \in Nat \ {0}
ASSUME UnseenAssumption == Unseen \notin Int

VARIABLES
    Hp, die,    \* of the monster in the server
    pc,         \* where the handler of each attacker's packet stands
    how,        \* what the attacker uses: its fist or a spell
    cur,        \* current_hp in Object::Hurt
    damage,     \* what the handler reports
    mine,       \* the RESULT packet to the attacker says KILL
    theirs,     \* the packet to the others says KILL
    near,       \* the monster is in the watcher's near_set
    sight,      \* where the handlers that move the watcher and the monster
                \* stand
    seen,       \* the hit points in the SIGHT_IN packet each of them made
    shown,      \* hit points of the monster in the watcher's client
    bullets,    \* spells that fly towards the monster in that client
    dealt,      \* history: the sum of the damages of all blows that hit
    killers,    \* history: the attackers whose blow took the last hit point
    unclean,    \* history: the last SIGHT_IN overtook a blow or its bullet
    raced       \* history: the monster came into the near set while a
                \* SIGHT_OUT was on its way, or left it while a SIGHT_IN was

server  == <<Hp, die>>
handler == <<pc, how, cur, damage, mine, theirs>>
watch   == <<near, sight, seen>>
client  == <<shown, bullets>>
blows   == <<dealt, killers>>
hist    == <<blows, unclean, raced>>
vars    == <<server, handler, watch, client, hist>>

Ways == {"normal", "spell"}
Damage(way) == IF way = "normal" THEN Str ELSE 2 * Str
Less(hp, d) == IF hp < d THEN 0 ELSE hp - d
Stages == {"idle", "load", "swap", "dying", "mine", "theirs", "tell"}
Movers == {"watcher", "monster"}
SightStages == {"idle", "begin", "enter", "leave", "read", "send", "hide"}

Types ==
    /\ Hp \in Int /\ die \in BOOLEAN
    /\ pc \in [Attackers -> Stages]
    /\ how \in [Attackers -> Ways]
    /\ cur \in [Attackers -> Int]
    /\ damage \in [Attackers -> Nat]
    /\ mine \in [Attackers -> BOOLEAN]
    /\ theirs \in [Attackers -> BOOLEAN]
    /\ near \in BOOLEAN
    /\ sight \in [Movers -> SightStages]
    /\ seen \in [Movers -> Int \cup {Unseen}]
    /\ shown \in Int \cup {Unseen}
    /\ bullets \in Nat
    /\ dealt \in Nat
    /\ killers \subseteq Attackers
    /\ unclean \in BOOLEAN /\ raced \in BOOLEAN

Init ==
    /\ Hp = InitHp /\ die = FALSE
    /\ pc = [a \in Attackers |-> "idle"]
    /\ how = [a \in Attackers |-> "normal"]
    /\ cur = [a \in Attackers |-> 0]
    /\ damage = [a \in Attackers |-> 0]
    /\ mine = [a \in Attackers |-> FALSE]
    /\ theirs = [a \in Attackers |-> FALSE]
    /\ near = FALSE
    /\ sight = [m \in Movers |-> "idle"]
    /\ seen = [m \in Movers |-> Unseen]
    /\ shown = Unseen /\ bullets = 0
    /\ dealt = 0 /\ killers = {} /\ unclean = FALSE /\ raced = FALSE

At(a, stage) == pc[a] = stage
Goto(a, stage) == pc' = [pc EXCEPT ![a] = stage]

-----------------------------------------------------------------------------
(* Process__Packet_Normal_Attack and Process__Packet_Spell *)

\* Is_die; then Can_Hurt and the distance let the blow through, or the damage
\* stays 0 and is reported all the same.
Attack(a) ==
    /\ At(a, "idle")
    /\ ~die
    /\ \E way \in Ways : how' = [how EXCEPT ![a] = way]
    /\ \E next \in {"load", "mine"} : Goto(a, next)
    /\ UNCHANGED <<server, cur, damage, mine, theirs, watch, client, hist>>

\* Object::Hurt reads the hit points.  Without any left the blow misses: a
\* fist is not reported, a spell is, with the damage 0.
Load(a) ==
    /\ At(a, "load")
    /\ cur' = [cur EXCEPT ![a] = Hp]
    /\ Goto(a, IF Hp < 1 THEN IF how[a] = "normal" THEN "idle" ELSE "mine"
                         ELSE "swap")
    /\ UNCHANGED <<server, how, damage, mine, theirs, watch, client, hist>>

\* Bug variant: the new hit points are stored without a compare.
SwapStores(a) ==
    /\ At(a, "swap")
    /\ LET d == Damage(how[a])
           newHp == Less(cur[a], d)
       IN  /\ Hp' = newHp
           /\ dealt' = dealt + d
           /\ damage' = [damage EXCEPT ![a] = d]
           /\ killers' = IF newHp = 0 THEN killers \cup {a} ELSE killers
           /\ Goto(a, IF newHp = 0 THEN "dying" ELSE "mine")
    /\ UNCHANGED <<die, how, cur, mine, theirs, watch, client, unclean, raced>>

\* CAS_Hp: the blow hits, or the loop begins again.
Swap(a) ==
    /\ At(a, "swap")
    /\ IF Hp # cur[a]
       THEN Goto(a, "load") /\ UNCHANGED <<Hp, damage, dealt, killers>>
       ELSE LET d == Damage(how[a])
                newHp == Less(cur[a], d)
            IN  /\ Hp' = newHp
                /\ dealt' = dealt + d
                /\ damage' = [damage EXCEPT ![a] = d]
                /\ killers' = IF newHp = 0 THEN killers \cup {a} ELSE killers
                /\ Goto(a, IF newHp = 0 THEN "dying" ELSE "mine")
    /\ UNCHANGED <<die, how, cur, mine, theirs, watch, client, unclean, raced>>

\* Bug variant: the flag is set after the packets were made from it.
DyingLate(a) ==
    /\ At(a, "dying")
    /\ mine' = [mine EXCEPT ![a] = die]
    /\ theirs' = [theirs EXCEPT ![a] = die]
    /\ die' = TRUE
    /\ Goto(a, "tell")
    /\ UNCHANGED <<Hp, how, cur, damage, watch, client, hist>>

\* The last lines of Object::Hurt.
Dying(a) ==
    /\ At(a, "dying")
    /\ die' = TRUE
    /\ Goto(a, "mine")
    /\ UNCHANGED <<Hp, how, cur, damage, mine, theirs, watch, client, hist>>

\* Create_Packet_..._Result, for the attacker, looks whether the monster died.
MakeResult(a) ==
    /\ At(a, "mine")
    /\ mine' = [mine EXCEPT ![a] = die]
    /\ Goto(a, "theirs")
    /\ UNCHANGED <<server, how, cur, damage, theirs, watch, client, hist>>

\* Create_Packet_Normal_Attack and _Spell, for the others, look again.
MakeAttack(a) ==
    /\ At(a, "theirs")
    /\ theirs' = [theirs EXCEPT ![a] = die]
    /\ Goto(a, "tell")
    /\ UNCHANGED <<server, how, cur, damage, mine, watch, client, hist>>

\* Bug variant: a spell hurts when it is told of and again when it lands.
TellSpellHurts(a) ==
    /\ At(a, "tell")
    /\ IF shown = Unseen \/ damage[a] = 0
       THEN UNCHANGED <<shown, bullets>>
       ELSE /\ shown' = Less(shown, damage[a])
            /\ bullets' = IF how[a] = "normal" THEN bullets ELSE bullets + 1
    /\ Goto(a, "idle")
    /\ damage' = [damage EXCEPT ![a] = 0]
    /\ cur' = [cur EXCEPT ![a] = 0]
    /\ mine' = [mine EXCEPT ![a] = FALSE]
    /\ theirs' = [theirs EXCEPT ![a] = FALSE]
    /\ UNCHANGED <<server, how, watch, hist>>

\* The packet reaches the watcher: a fist hurts at once, a spell is a bullet
\* (one without damage is left out).  An unknown monster is ignored.
\* The locals of the handler end here.
Tell(a) ==
    /\ At(a, "tell")
    /\ IF shown = Unseen \/ damage[a] = 0
       THEN UNCHANGED <<shown, bullets>>
       ELSE IF how[a] = "normal"
       THEN shown' = Less(shown, damage[a]) /\ UNCHANGED bullets
       ELSE bullets' = bullets + 1 /\ UNCHANGED shown
    /\ Goto(a, "idle")
    /\ damage' = [damage EXCEPT ![a] = 0]
    /\ cur' = [cur EXCEPT ![a] = 0]
    /\ mine' = [mine EXCEPT ![a] = FALSE]
    /\ theirs' = [theirs EXCEPT ![a] = FALSE]
    /\ UNCHANGED <<server, how, watch, hist>>

-----------------------------------------------------------------------------
(* The handlers that move the watcher and the monster *)

SightAt(m, stage) == sight[m] = stage
Go(m, stage) == sight' = [sight EXCEPT ![m] = stage]

\* Get_Objects__Update_Near_set for the watcher: the scan meets the monster
\* or not; the walk over the near set, under its lock, compares.
Classify ==
    /\ SightAt("watcher", "idle")
    /\ \E met \in BOOLEAN :
        /\ met # near
        /\ Go("watcher", IF met THEN "enter" ELSE "leave")
    /\ UNCHANGED <<server, handler, near, seen, client, hist>>

\* Bug variant: what is out of sight stays in the near set.
UpdateKeeps ==
    /\ sight["watcher"] \in {"enter", "leave"}
    /\ near' = TRUE
    /\ Go("watcher", IF SightAt("watcher", "enter") THEN "read" ELSE "hide")
    /\ raced' = IF SightAt("watcher", "enter") THEN raced
                ELSE sight["monster"] \in {"read", "send"}
    /\ UNCHANGED <<server, handler, seen, client, blows, unclean>>

\* Near_set::Update, under its lock once more.
Update ==
    /\ sight["watcher"] \in {"enter", "leave"}
    /\ near' = SightAt("watcher", "enter")
    /\ Go("watcher", IF SightAt("watcher", "enter") THEN "read" ELSE "hide")
    /\ raced' = IF SightAt("watcher", "enter") THEN raced
                ELSE sight["monster"] \in {"read", "send"}
    /\ UNCHANGED <<server, handler, seen, client, blows, unclean>>

\* A monster that is alive moves.
MonsterMoves ==
    /\ SightAt("monster", "idle")
    /\ ~die
    /\ Go("monster", "begin")
    /\ UNCHANGED <<server, handler, near, seen, client, hist>>

\* Is_Sleep__Update_Move: if the watcher is near, try_insert__near_set says
\* whether the monster was in its near set already.
TryInsert ==
    /\ SightAt("monster", "begin")
    /\ \/ /\ near' = TRUE
          /\ Go("monster", IF near THEN "idle" ELSE "read")
          /\ raced' = (raced \/ (~near /\ SightAt("watcher", "hide")))
       \/ Go("monster", "idle") /\ UNCHANGED <<near, raced>>
    /\ UNCHANGED <<server, handler, seen, client, blows, unclean>>

\* Change_Packet_data and Create_Packet_Sight_in read the hit points.
MakeSight(m) ==
    /\ SightAt(m, "read")
    /\ seen' = [seen EXCEPT ![m] = Hp]
    /\ Go(m, "send")
    /\ UNCHANGED <<server, handler, near, client, hist>>

\* A blow that hit and that the watcher was not told of.
Untold(a) == pc[a] \in {"dying", "mine", "theirs", "tell"} /\ damage[a] > 0

\* The client makes the monster, or overwrites what it shows of it.
SendSight(m) ==
    /\ SightAt(m, "send")
    /\ shown' = seen[m]
    /\ seen' = [seen EXCEPT ![m] = Unseen]
    /\ Go(m, "idle")
    /\ unclean' = (\/ seen[m] # Hp \/ bullets > 0
                   \/ \E a \in Attackers : Untold(a))
    /\ raced' = (raced /\ m = "monster")
    /\ UNCHANGED <<server, handler, near, bullets, blows>>

\* SIGHT_OUT: the bullets still fly, but hit the object that was erased.
SightOut ==
    /\ SightAt("watcher", "hide")
    /\ shown' = Unseen
    /\ bullets' = 0
    /\ Go("watcher", "idle")
    /\ UNCHANGED <<server, handler, near, seen, hist>>

-----------------------------------------------------------------------------
(* The watcher's client *)

\* Bullet::attack: every bullet carries the damage of a spell.
BulletLands ==
    /\ bullets > 0
    /\ bullets' = bullets - 1
    /\ shown' = Less(shown, Damage("spell"))
    /\ UNCHANGED <<server, handler, watch, hist>>

-----------------------------------------------------------------------------

Next ==
    \/ \E a \in Attackers :
        \/ Attack(a) \/ Load(a) \/ Swap(a) \/ Dying(a)
        \/ MakeResult(a) \/ MakeAttack(a) \/ Tell(a)
    \/ Classify \/ Update \/ SightOut
    \/ MonsterMoves \/ TryInsert
    \/ \E m \in Movers : MakeSight(m) \/ SendSight(m)
    \/ BulletLands

Spec == Init /\ [][Next]_vars

-----------------------------------------------------------------------------
(* Properties *)

\* No blow is lost and none counts twice, however the attackers interleave:
\* the hit points are what all blows that hit have left.  The dead have no
\* hit points, and who has none is dead or about to be marked.
BlowsAddUp ==
    /\ Types
    /\ Hp = Less(InitHp, dealt)
    /\ die => Hp = 0
    /\ Hp = 0 => die \/ \E a \in Attackers : At(a, "dying")

\* KILL is told only of a monster without hit points, though it was read from
\* a flag that others set; one attacker at most took the last hit point, and
\* that one says KILL to everybody; and what an attacker claims for itself it
\* tells the others too.
KillTold ==
    /\ \A a, b \in killers : a = b
    /\ \A a \in Attackers :
        /\ At(a, "theirs") /\ mine[a] => die
        /\ At(a, "tell") =>
            /\ theirs[a] => Hp = 0
            /\ mine[a] => theirs[a]
            /\ a \in killers => mine[a]

\* When every blow was told and every bullet has landed, a client shows the
\* hit points the server has, unless the last SIGHT_IN raced with a blow.
ShownHp ==
    /\ shown # Unseen /\ ~unclean
    /\ bullets = 0
    /\ \A a \in Attackers : ~Untold(a)
    => shown = Hp

\* When no handler is at work between the two, the client shows the monster if
\* and only if it is in the watcher's near set, unless a SIGHT_OUT crossed
\* with a SIGHT_IN of the monster's handler.  Such a crossing leaves a monster
\* that is not shown though it is near, or one that is shown though it is
\* gone, and lasts until the watcher's own handler sends the next of the two.
SightKept ==
    sight = [m \in Movers |-> "idle"] /\ ~raced => (near <=> shown # Unseen)

=============================================================================
