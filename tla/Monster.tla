------------------------------- MODULE Monster -------------------------------
(***************************************************************************)
(* The life of one monster: falling asleep when no player is near, being   *)
(* woken by a player that comes near, and the chain of timer events and    *)
(* completions that moves it while it is awake.  A handler of the chain    *)
(* ends by pushing the next event, or ends the chain.  No lock protects a  *)
(* monster: its fields are read and written by every worker thread.        *)
(*                                                                         *)
(* Of the position only "arrived" is kept: the monster stands on its       *)
(* target.  What depends on where players are, on their health, on the     *)
(* attack's cool time and on the terrain is left open.  The monster never  *)
(* comes back from the dead: no code pushes a respawn event.               *)
(***************************************************************************)
EXTENDS Naturals, FiniteSets

CONSTANTS
    Threads,    \* the worker threads
    Players,    \* players that may attack the monster
    NoPlayer,   \* target_player_id = -1
    MaxChains   \* bound: no player comes near when there are so many chains

ASSUME ThreadsAssumption == IsFiniteSet(Threads)
ASSUME NoPlayerAssumption == NoPlayer \notin Players
ASSUME MaxChainsAssumption == MaxChains \in Nat

VARIABLES
    kind,           \* which of the three subclasses the monster is
    sleep, die, init_moving,    \* fields of Monster_Base and Object
    arrived,        \* x = target_x and y = target_y
    target,         \* Monster_type1::target_player_id
    timer,          \* events of each type in the timer
    moves,          \* queued completions that use the monster's move_exover
    exover,         \* move_exover.type
    awakes,         \* queued EX_MONSTER_AWAKE completions
    pc, cur, saw,   \* of each thread: its stage, curr_target_player_id, and
                    \* whether Get_Nearest_Player met a player
    badIndex,       \* Get_Player(-1) was called: the run ends here
    rewoken         \* history: a player woke the monster while a chain ran

flags == <<kind, sleep, die, init_moving, arrived, target>>
chain == <<timer, moves, exover, awakes>>
regs  == <<pc, cur, saw>>
hist  == <<badIndex, rewoken>>
vars  == <<flags, chain, regs, hist>>

Kinds == {"type1", "type2", "type3"}
EventType == {"move", "start"}
Handler == {"begin", "lookup", "forget", "follow", "can", "step", "look",
            "doze", "gohome", "rouse", "far", "push", "rest"}
PlayerStage == {"waking", "posting", "hurt", "blow"}

TypeOK ==
    /\ kind \in Kinds
    /\ sleep \in BOOLEAN /\ die \in BOOLEAN /\ init_moving \in BOOLEAN
    /\ arrived \in BOOLEAN
    /\ target \in Players \cup {NoPlayer}
    /\ timer \in [EventType -> Nat]
    /\ moves \in Nat
    /\ exover \in EventType
    /\ awakes \in Nat
    /\ pc \in [Threads -> {"idle"} \cup Handler \cup PlayerStage]
    /\ cur \in [Threads -> Players \cup {NoPlayer}]
    /\ saw \in [Threads -> BOOLEAN]
    /\ badIndex \in BOOLEAN /\ rewoken \in BOOLEAN

Init ==
    /\ kind \in Kinds
    /\ sleep = TRUE /\ die = FALSE /\ init_moving = FALSE
    /\ arrived = TRUE
    /\ target = NoPlayer
    /\ timer = [k \in EventType |-> 0]
    /\ moves = 0 /\ exover = "move" /\ awakes = 0
    /\ pc = [t \in Threads |-> "idle"]
    /\ cur = [t \in Threads |-> NoPlayer]
    /\ saw = [t \in Threads |-> FALSE]
    /\ badIndex = FALSE /\ rewoken = FALSE

\* The threads that will push an event, post a completion or end a chain.
InChain(t) == pc[t] \in Handler \cup {"posting"}

Chains ==
    timer["move"] + timer["start"] + moves + awakes
        + Cardinality({t \in Threads : InChain(t)})

At(t, stage) == pc[t] = stage
Goto(t, stage) == pc' = [pc EXCEPT ![t] = stage]

-----------------------------------------------------------------------------
(* The timer, and the completions a worker takes *)

\* Bug variant: the timer's switch has no case for EV_MONSTER_MOVE_START.
FireMoveOnly(k) ==
    /\ k = "move"
    /\ timer[k] > 0
    /\ timer' = [timer EXCEPT ![k] = @ - 1]
    /\ moves' = moves + 1
    /\ exover' = k
    /\ UNCHANGED <<flags, awakes, regs, hist>>

\* Process_Monster_Move and Process_Monster_Move_Start of the timer: all
\* events of the monster are posted with the one overlapped it has.
Fire(k) ==
    /\ timer[k] > 0
    /\ timer' = [timer EXCEPT ![k] = @ - 1]
    /\ moves' = moves + 1
    /\ exover' = k
    /\ UNCHANGED <<flags, awakes, regs, hist>>

\* The first lines of Server::Process_Monster_Move (start = FALSE) and
\* Process_Monster_Move_Start: the dead stop here; Awake__Set_Move_target
\* gives a wanderer a new place to go to.
Enter(t, start) ==
    /\ Goto(t, IF die THEN "idle" ELSE "begin")
    /\ IF ~die /\ start /\ kind = "type1"
       THEN arrived' \in BOOLEAN
       ELSE UNCHANGED arrived
    /\ UNCHANGED <<kind, sleep, die, init_moving, target, timer, exover, cur,
                   saw, hist>>

TakeMove(t) ==
    /\ At(t, "idle")
    /\ moves > 0
    /\ moves' = moves - 1
    /\ Enter(t, exover = "start")
    /\ UNCHANGED awakes

TakeAwake(t) ==
    /\ At(t, "idle")
    /\ awakes > 0
    /\ awakes' = awakes - 1
    /\ Enter(t, TRUE)
    /\ UNCHANGED moves

-----------------------------------------------------------------------------
(* Move_or_Attack *)

\* A monster on its way back to its place looks for nobody.
BeginReturning(t) ==
    /\ At(t, "begin")
    /\ init_moving
    /\ Goto(t, "can")
    /\ UNCHANGED <<flags, chain, cur, saw, hist>>

\* Get_exist_target_object reads target_player_id for the first time; without
\* a target Set_Move_New_Target chooses a place.
BeginWanderer(t) ==
    /\ At(t, "begin")
    /\ ~init_moving /\ kind = "type1"
    /\ cur' = [cur EXCEPT ![t] = target]
    /\ IF target = NoPlayer
       THEN arrived' \in BOOLEAN /\ Goto(t, "can")
       ELSE UNCHANGED arrived /\ Goto(t, "lookup")
    /\ UNCHANGED <<kind, sleep, die, init_moving, target, chain, saw, hist>>

\* Get_Nearest_Player meets players or none, and finds one alive or none;
\* then Set_Move_Init_Target.
BeginHunter(t) ==
    /\ At(t, "begin")
    /\ ~init_moving /\ kind # "type1"
    /\ \E met, found \in BOOLEAN :
        /\ found => met
        /\ saw' = [saw EXCEPT ![t] = met]
        /\ IF found
           THEN UNCHANGED arrived /\ Goto(t, "follow")
           ELSE arrived' \in BOOLEAN /\ Goto(t, "can")
    /\ UNCHANGED <<kind, sleep, die, init_moving, target, chain, cur, hist>>

\* Get_Player(target_player_id): the field is read again.  The player is
\* there, or is gone or dead.
LookUp(t) ==
    /\ At(t, "lookup")
    /\ IF target = NoPlayer
       THEN badIndex' = TRUE /\ UNCHANGED pc
       ELSE \/ UNCHANGED badIndex /\ Goto(t, "follow")
            \/ UNCHANGED badIndex /\ Goto(t, "forget")
    /\ UNCHANGED <<flags, chain, cur, saw, rewoken>>

\* CAS_ID to -1, then Set_Move_New_Target.
Forget(t) ==
    /\ At(t, "forget")
    /\ target' = IF target = cur[t] THEN NoPlayer ELSE target
    /\ arrived' \in BOOLEAN
    /\ Goto(t, "can")
    /\ UNCHANGED <<kind, sleep, die, init_moving, chain, cur, saw, hist>>

\* Follow_Target: too far to attack, so go where the player goes; or close,
\* so stand still: attack or wait for the cool time ("push"), or hurt a
\* player that cannot be hurt ("can").
Follow(t) ==
    /\ At(t, "follow")
    /\ \/ arrived' \in BOOLEAN /\ Goto(t, "can")
       \/ arrived' = TRUE /\ \E next \in {"push", "can"} : Goto(t, next)
    /\ UNCHANGED <<kind, sleep, die, init_moving, target, chain, cur, saw,
                   hist>>

\* The third type, told to go back in the meantime, does not follow.
FollowNot(t) ==
    /\ At(t, "follow")
    /\ kind = "type3" /\ init_moving
    /\ Goto(t, "can")
    /\ UNCHANGED <<flags, chain, cur, saw, hist>>

\* Can_Move: on its target there is nothing to do but to end the way back.
CanMove(t) ==
    /\ At(t, "can")
    /\ IF arrived
       THEN /\ target' = IF init_moving /\ kind = "type1" THEN NoPlayer
                                                          ELSE target
            /\ init_moving' = FALSE
            /\ Goto(t, "rest")
       ELSE UNCHANGED <<target, init_moving>> /\ Goto(t, "step")
    /\ UNCHANGED <<kind, sleep, die, arrived, chain, cur, saw, hist>>

\* Update_position; a place the terrain refuses is left by Reset_position.
Step(t) ==
    /\ At(t, "step")
    /\ \/ arrived' \in BOOLEAN /\ Goto(t, "look")
       \/ arrived' = TRUE /\ Goto(t, "rest")
    /\ UNCHANGED <<kind, sleep, die, init_moving, target, chain, cur, saw,
                   hist>>

\* Get_Near_Player adds to what Get_Nearest_Player put into the vector.
Look(t) ==
    /\ At(t, "look")
    /\ \/ ~saw[t] /\ Goto(t, "doze")
       \/ Goto(t, "rouse")
    /\ saw' = [saw EXCEPT ![t] = FALSE]
    /\ UNCHANGED <<flags, chain, cur, hist>>

\* Sleep: a compare-and-swap; who made it sets the target to the init place.
Doze(t) ==
    /\ At(t, "doze")
    /\ sleep' = TRUE
    /\ Goto(t, IF sleep THEN "far" ELSE "gohome")
    /\ UNCHANGED <<kind, die, init_moving, arrived, target, chain, cur, saw,
                   hist>>

GoHome(t) ==
    /\ At(t, "gohome")
    /\ arrived' \in BOOLEAN
    /\ Goto(t, "far")
    /\ UNCHANGED <<kind, sleep, die, init_moving, target, chain, cur, saw,
                   hist>>

\* Bug variant: the handler posts a completion like a player does.
RousePosts(t) ==
    /\ At(t, "rouse")
    /\ sleep' = (sleep /\ die)
    /\ awakes' = IF sleep /\ ~die THEN awakes + 1 ELSE awakes
    /\ Goto(t, "far")
    /\ UNCHANGED <<kind, die, init_moving, arrived, target, timer, moves,
                   exover, cur, saw, hist>>

\* Awake, by the handler itself: it goes on anyway and posts nothing.
Rouse(t) ==
    /\ At(t, "rouse")
    /\ sleep' = (sleep /\ die)
    /\ Goto(t, "far")
    /\ UNCHANGED <<kind, die, init_moving, arrived, target, chain, cur, saw,
                   hist>>

\* Is_far_from_init_position, Set_move_init_position.
Far(t) ==
    /\ At(t, "far")
    /\ \/ init_moving' = TRUE /\ arrived' \in BOOLEAN
       \/ UNCHANGED <<init_moving, arrived>>
    /\ Goto(t, "push")
    /\ UNCHANGED <<kind, sleep, die, target, chain, cur, saw, hist>>

-----------------------------------------------------------------------------
(* The last lines of the two handlers *)

\* RMM_MOVE_TARGET, RMM_COLLISION, RMM_ATTACK.
Push(t) ==
    /\ At(t, "push")
    /\ timer' = [timer EXCEPT !["move"] = @ + 1]
    /\ Goto(t, "idle")
    /\ saw' = [saw EXCEPT ![t] = FALSE]
    /\ UNCHANGED <<flags, moves, exover, awakes, cur, hist>>

\* Bug variant: the test of sleep is the wrong way round.
RestInverted(t) ==
    /\ At(t, "rest")
    /\ timer' = IF ~sleep THEN timer ELSE [timer EXCEPT !["start"] = @ + 1]
    /\ Goto(t, "idle")
    /\ saw' = [saw EXCEPT ![t] = FALSE]
    /\ UNCHANGED <<flags, moves, exover, awakes, cur, hist>>

\* RMM_CANT_MOVE: the chain of a sleeping monster ends.
Rest(t) ==
    /\ At(t, "rest")
    /\ timer' = IF sleep THEN timer ELSE [timer EXCEPT !["start"] = @ + 1]
    /\ Goto(t, "idle")
    /\ saw' = [saw EXCEPT ![t] = FALSE]
    /\ UNCHANGED <<flags, moves, exover, awakes, cur, hist>>

-----------------------------------------------------------------------------
(* The handlers of players *)

\* A player came near: Awake reads sleep and die.
ComeNear(t) ==
    /\ At(t, "idle")
    /\ Chains + Cardinality({u \in Threads : At(u, "waking")}) < MaxChains
    /\ sleep /\ ~die
    /\ Goto(t, "waking")
    /\ UNCHANGED <<flags, chain, cur, saw, hist>>

\* Its compare-and-swap: of many players one wakes the monster.
WakeUp(t) ==
    /\ At(t, "waking")
    /\ sleep' = FALSE
    /\ Goto(t, IF sleep THEN "posting" ELSE "idle")
    /\ rewoken' = (rewoken \/ (sleep /\ Chains > 0))
    /\ UNCHANGED <<kind, die, init_moving, arrived, target, chain, cur, saw,
                   badIndex>>

PostAwake(t) ==
    /\ At(t, "posting")
    /\ awakes' = awakes + 1
    /\ Goto(t, "idle")
    /\ UNCHANGED <<flags, timer, moves, exover, cur, saw, hist>>

\* Process__Packet_Normal_Attack, Process__Packet_Spell: Is_die, Can_Hurt.
Attack(t) ==
    /\ At(t, "idle")
    /\ ~die /\ ~init_moving
    /\ Goto(t, "hurt")
    /\ UNCHANGED <<flags, chain, cur, saw, hist>>

\* Monster_type1::Hurt makes the attacker the target.
Hurt(t) ==
    /\ At(t, "hurt")
    /\ IF kind = "type1" THEN target' \in Players ELSE UNCHANGED target
    /\ Goto(t, "blow")
    /\ UNCHANGED <<kind, sleep, die, init_moving, arrived, chain, cur, saw,
                   hist>>

\* Object::Hurt: the blow may be the last one.
Blow(t) ==
    /\ At(t, "blow")
    /\ die' \in {die, TRUE}
    /\ Goto(t, "idle")
    /\ UNCHANGED <<kind, sleep, init_moving, arrived, target, chain, cur, saw,
                   hist>>

-----------------------------------------------------------------------------
(* The specification *)

Handle(t) ==
    \/ BeginReturning(t) \/ BeginWanderer(t) \/ BeginHunter(t)
    \/ LookUp(t) \/ Forget(t) \/ Follow(t) \/ FollowNot(t)
    \/ CanMove(t) \/ Step(t) \/ Look(t)
    \/ Doze(t) \/ GoHome(t) \/ Rouse(t) \/ Far(t) \/ Push(t) \/ Rest(t)
    \/ WakeUp(t) \/ PostAwake(t) \/ Hurt(t) \/ Blow(t)

Next ==
    /\ ~badIndex
    /\ \/ \E k \in EventType : Fire(k)
       \/ \E t \in Threads :
            \/ TakeMove(t) \/ TakeAwake(t) \/ ComeNear(t) \/ Attack(t)
            \/ Handle(t)

Spec == Init /\ [][Next]_vars

\* A timer event fires, a handler that runs goes on, and the port hands its
\* completions out in order: none waits for ever while threads come back.
FairSpec ==
    /\ Spec
    /\ \A k \in EventType : WF_vars(~badIndex /\ Fire(k))
    /\ \A t \in Threads : WF_vars(~badIndex /\ Handle(t))
    /\ SF_vars(~badIndex /\ \E t \in Threads : TakeMove(t))
    /\ SF_vars(~badIndex /\ \E t \in Threads : TakeAwake(t))

-----------------------------------------------------------------------------
(* Properties *)

\* A monster that is awake and alive has a chain: an event, a completion, or
\* a thread that will make one.  Only such a monster can fall asleep, and no
\* player wakes a monster that is awake: without a chain it stands for ever.
AwakeHasChain ==
    ~sleep /\ ~die =>
        \/ \E k \in EventType : timer[k] > 0
        \/ moves > 0
        \/ awakes > 0
        \/ \E t \in Threads : InChain(t)

\* Two chains run a monster, at twice the pace and racing for its fields and
\* its one overlapped, only after a player woke it on its way to bed; and
\* only then can the target vanish between the two reads of its id.
SecondChainNeedsWalker == Chains > 1 \/ badIndex => rewoken

\* The chain of a monster that stays awake never stalls: handlers of it begin
\* again and again, whatever the players do.
AwakeIsServed ==
    []<>(sleep \/ die \/ badIndex \/ \E t \in Threads : At(t, "begin"))

=============================================================================
