----------------------------- MODULE CombatProofs ----------------------------
(***************************************************************************)
(* For any number of attackers, any hit points and any strength: the blows *)
(* add up, and whoever says KILL speaks of a monster without hit points;   *)
(* and a client shows the monsters that are near, with the hit points they *)
(* have, but for the races that the histories unclean and raced name.      *)
(***************************************************************************)
EXTENDS Combat, FiniteSetTheorems, TLAPS

USE InitHpAssumption, StrAssumption, UnseenAssumption

\* What a thread knows at each stage of its handler.
Knows ==
    /\ \A a \in Attackers :
        /\ At(a, "swap") => cur[a] >= 1
        /\ At(a, "dying") => Hp = 0 /\ a \in killers
        /\ damage[a] > 0 => damage[a] = Damage(how[a])
        /\ pc[a] \in {"idle", "load", "swap"} =>
             damage[a] = 0 /\ ~mine[a] /\ ~theirs[a]
        /\ mine[a] => die
        /\ theirs[a] => die
        /\ At(a, "tell") /\ mine[a] => theirs[a]
        /\ a \in killers =>
             /\ Hp = 0
             /\ At(a, "dying") \/ die
             /\ pc[a] \in {"theirs", "tell"} => mine[a]
    /\ \A a, b \in killers : a = b
    /\ Hp = 0 => killers # {}
    /\ bullets > 0 => shown \in Int

\* A SIGHT_IN packet that is sent was made.
Made == \A m \in Movers : SightAt(m, "send") => seen[m] \in Int

IInv == BlowsAddUp /\ Knows /\ Made

\* The damage of a blow is positive.
LEMMA DamagePositive ==
    ASSUME NEW way \in Ways
    PROVE  Damage(way) \in Nat /\ Damage(way) > 0
BY DEF Damage, Ways

\* Blows taken one after the other leave what their sum leaves.
LEMMA LessAdds ==
    ASSUME NEW h \in Nat, NEW c \in Nat, NEW d \in Nat
    PROVE  /\ Less(Less(h, c), d) = Less(h, c + d)
           /\ Less(h, c) \in Nat
BY DEF Less

\* The fight starts with a monster that is whole.
LEMMA InitInv == Init => IInv
<1> SUFFICES ASSUME Init PROVE IInv
  OBVIOUS
<1>1. Types
  <2>1. pc \in [Attackers -> Stages] /\ how \in [Attackers -> Ways]
    BY DEF Init, Stages, Ways
  <2>2. cur \in [Attackers -> Int]
    BY DEF Init
  <2>4. damage \in [Attackers -> Nat]
    BY DEF Init
  <2>3. mine \in [Attackers -> BOOLEAN] /\ theirs \in [Attackers -> BOOLEAN]
    BY DEF Init
  <2>5. /\ Hp \in Int /\ dealt \in Nat /\ bullets \in Nat
        /\ shown = Unseen /\ near = FALSE
        /\ die = FALSE /\ unclean = FALSE /\ raced = FALSE /\ killers = {}
    BY DEF Init
  <2>6. /\ sight \in [Movers -> SightStages]
        /\ seen \in [Movers -> Int \cup {Unseen}]
    BY DEF Init, SightStages
  <2> QED BY <2>1, <2>2, <2>3, <2>4, <2>5, <2>6 DEF Types
<1>2. BlowsAddUp
  BY <1>1 DEF Init, BlowsAddUp, Less
<1>3. Knows
  BY DEF Init, Knows, At
<1>4. Made
  BY DEF Init, Made, SightAt
<1> QED BY <1>2, <1>3, <1>4 DEF IInv

\* Every step keeps the types.
LEMMA StepTypes == IInv /\ [Next]_vars => Types'
<1> SUFFICES ASSUME IInv, [Next]_vars PROVE Types'
  OBVIOUS
<1> USE DEF IInv, BlowsAddUp, Types, Goto, At, server, handler, watch,
       client, blows, hist, Stages
<1>1. ASSUME NEW a \in Attackers, Attack(a) PROVE Types'
  BY <1>1 DEF Attack
<1>2. ASSUME NEW a \in Attackers, Load(a) PROVE Types'
  BY <1>2 DEF Load
<1>3. ASSUME NEW a \in Attackers, Swap(a) PROVE Types'
  <2>1. Damage(how[a]) \in Nat
    BY DamagePositive
  <2> HIDE DEF BlowsAddUp
  <2>2. CASE Hp # cur[a]
    BY <1>3, <2>2 DEF Swap, BlowsAddUp
  <2>3. CASE Hp = cur[a]
    <3>1. Less(cur[a], Damage(how[a])) \in Int
      BY <2>1, <2>3 DEF Less, BlowsAddUp
    <3> QED BY <1>3, <2>1, <2>3, <3>1 DEF Swap, BlowsAddUp
  <2> QED BY <2>2, <2>3
<1>4. ASSUME NEW a \in Attackers, Dying(a) PROVE Types'
  BY <1>4 DEF Dying
<1>5. ASSUME NEW a \in Attackers, MakeResult(a) PROVE Types'
  BY <1>5 DEF MakeResult
<1>6. ASSUME NEW a \in Attackers, MakeAttack(a) PROVE Types'
  BY <1>6 DEF MakeAttack
<1>7. ASSUME NEW a \in Attackers, Tell(a) PROVE Types'
  BY <1>7 DEF Tell, Less
<1>8. CASE BulletLands
  <2>0. shown \in Int
    BY <1>8 DEF BulletLands, Knows
  <2>1. Less(shown, Damage("spell")) \in Int
    BY <2>0 DEF Less, Damage
  <2> QED BY <1>8, <2>1 DEF BulletLands
<1> USE DEF Go, SightAt, SightStages
<1>9. CASE Classify
  BY <1>9 DEF Classify, Movers
<1>10. CASE Update
  <2>1. near' \in BOOLEAN /\ raced' \in BOOLEAN
    <3>1. CASE sight["watcher"] = "enter"
      BY <1>10, <3>1 DEF Update
    <3>2. CASE sight["watcher"] # "enter"
      <4>1. near' = FALSE
        BY <1>10, <3>2, Zenon DEF Update
      <4>2. raced' = (sight["monster"] \in {"read", "send"})
        BY <1>10, <3>2, Zenon DEF Update
      <4>3. (sight["monster"] \in {"read", "send"}) \in BOOLEAN
        OBVIOUS
      <4>4. raced' \in BOOLEAN
        BY <4>2, <4>3, Zenon
      <4> QED BY <4>1, <4>4
    <3> QED BY <3>1, <3>2
  <2>2. /\ sight' = [sight EXCEPT !["watcher"] = sight'["watcher"]]
        /\ sight'["watcher"] \in {"read", "hide"}
    BY <1>10 DEF Update, Movers
  <2>3. sight' \in [Movers -> SightStages]
    BY <2>2
  <2> QED BY <1>10, <2>1, <2>3 DEF Update
<1>11. CASE SightOut
  BY <1>11 DEF SightOut, Movers
<1>12. CASE MonsterMoves
  BY <1>12 DEF MonsterMoves, Movers
<1>13. CASE TryInsert
  BY ZenonT(30), <1>13 DEF TryInsert, Movers
<1>14. ASSUME NEW m \in Movers, MakeSight(m) PROVE Types'
  BY <1>14 DEF MakeSight
<1>15. ASSUME NEW m \in Movers, SendSight(m) PROVE Types'
  <2>1. seen[m] \in Int \cup {Unseen}
    OBVIOUS
  <2> QED BY <1>15, <2>1 DEF SendSight
<1>16. CASE UNCHANGED vars
  BY <1>16 DEF vars
<1> QED
  BY <1>1, <1>2, <1>3, <1>4, <1>5, <1>6, <1>7, <1>8, <1>9, <1>10, <1>11,
     <1>12, <1>13, <1>14, <1>15, <1>16 DEF Next

\* The steps that neither strike nor tell of a blow.
Bystanding ==
    \/ Classify \/ Update \/ SightOut
    \/ MonsterMoves \/ TryInsert
    \/ \E m \in Movers : MakeSight(m) \/ SendSight(m)
    \/ BulletLands
    \/ UNCHANGED vars

\* They leave the monster, the handlers of the blows and the history of the
\* blows alone, and never make a bullet.
LEMMA BystandingLeaves ==
    ASSUME Bystanding, Types, Made, bullets > 0 => shown \in Int
    PROVE  /\ UNCHANGED <<server, handler, blows>>
           /\ bullets' > 0 => shown' \in Int
<1>1. CASE Classify
  BY <1>1 DEF Classify, client, hist
<1>2. CASE Update
  BY <1>2 DEF Update, client
<1>3. CASE SightOut
  BY <1>3 DEF SightOut, hist
<1>4. CASE MonsterMoves
  BY <1>4 DEF MonsterMoves, client, hist
<1>5. CASE TryInsert
  BY <1>5 DEF TryInsert, client
<1>6. ASSUME NEW m \in Movers, MakeSight(m)
      PROVE  /\ UNCHANGED <<server, handler, blows>>
             /\ bullets' > 0 => shown' \in Int
  BY <1>6 DEF MakeSight, client, hist
<1>7. ASSUME NEW m \in Movers, SendSight(m)
      PROVE  /\ UNCHANGED <<server, handler, blows>>
             /\ bullets' > 0 => shown' \in Int
  BY <1>7 DEF SendSight, Made
<1>8. CASE BulletLands
  BY <1>8 DEF BulletLands, Less, Damage, hist
<1>9. CASE UNCHANGED vars
  BY <1>9 DEF vars, client, hist
<1> QED BY <1>1, <1>2, <1>3, <1>4, <1>5, <1>6, <1>7, <1>8, <1>9 DEF Bystanding

\* A blow takes what it takes from the hit points it has compared.
LEMMA StepBlows == IInv /\ [Next]_vars => BlowsAddUp'
<1> SUFFICES ASSUME IInv, [Next]_vars PROVE BlowsAddUp'
  OBVIOUS
<1>t. Types /\ Types'
  BY StepTypes DEF IInv, BlowsAddUp
<1>1. ASSUME NEW a \in Attackers, Swap(a) PROVE BlowsAddUp'
  <2>1. CASE Hp # cur[a]
    BY <1>1, <1>t, <2>1 DEF Swap, Goto, At, IInv, BlowsAddUp, Types
  <2>2. CASE Hp = cur[a]
    <3> DEFINE d == Damage(how[a])
    <3>1. d \in Nat /\ d > 0 /\ dealt \in Nat /\ InitHp \in Nat
      BY <1>t, DamagePositive DEF Types
    <3>2. /\ Hp' = Less(cur[a], d) /\ dealt' = dealt + d
          /\ die' = die
          /\ pc' = [pc EXCEPT ![a] = IF Less(cur[a], d) = 0 THEN "dying"
                                                          ELSE "mine"]
      BY <1>1, <2>2 DEF Swap, Goto
    <3>3. Hp' = Less(InitHp, dealt')
      <4>1. Hp = Less(InitHp, dealt)
        BY DEF IInv, BlowsAddUp
      <4>2. Less(Less(InitHp, dealt), d) = Less(InitHp, dealt + d)
        BY <3>1, LessAdds
      <4> QED BY <2>2, <3>2, <4>1, <4>2
    <3>4. Hp >= 1 /\ ~die
      BY <1>1, <2>2, <1>t DEF Swap, IInv, Knows, BlowsAddUp, Types
    <3>5. Hp' = 0 => At(a, "dying")'
      BY <1>t, <3>2 DEF At, Types
    <3> QED BY <1>t, <3>2, <3>3, <3>4, <3>5 DEF BlowsAddUp
  <2> QED BY <2>1, <2>2
<1>2. ASSUME NEW a \in Attackers, Dying(a) PROVE BlowsAddUp'
  <2>1. Hp = 0 /\ Hp' = 0 /\ dealt' = dealt /\ die'
    BY <1>2 DEF Dying, IInv, Knows, hist, blows
  <2> QED BY <1>t, <2>1 DEF IInv, BlowsAddUp
<1>3. ASSUME NEW a \in Attackers,
             Attack(a) \/ Load(a) \/ MakeResult(a) \/ MakeAttack(a) \/ Tell(a)
      PROVE  BlowsAddUp'
  <2>1. UNCHANGED <<Hp, die, dealt>>
    BY <1>3 DEF Attack, Load, MakeResult, MakeAttack, Tell, server, hist, blows
  <2>2. \A b \in Attackers : At(b, "dying") => At(b, "dying")'
    BY <1>3, <1>t DEF Attack, Load, MakeResult, MakeAttack, Tell, At, Goto,
       Types
  <2> QED BY <1>t, <2>1, <2>2 DEF IInv, BlowsAddUp
<1>4. CASE Bystanding
  <2>1. UNCHANGED <<server, handler, blows>>
    BY <1>4, <1>t, BystandingLeaves DEF IInv, Knows
  <2> QED BY <1>t, <2>1 DEF IInv, BlowsAddUp, At, server, handler, blows
<1> QED BY <1>1, <1>2, <1>3, <1>4 DEF Next, Bystanding

\* What the threads know stays true: the flag never falls, and a thread that
\* took the last hit point sets it before it looks at it.
LEMMA StepKnows == IInv /\ [Next]_vars => Knows'
<1> SUFFICES ASSUME IInv, [Next]_vars PROVE Knows'
  OBVIOUS
<1>t. Types /\ Types'
  BY StepTypes DEF IInv, BlowsAddUp
<1>k. Knows /\ BlowsAddUp
  BY DEF IInv
<1>1. ASSUME NEW a \in Attackers, Attack(a) PROVE Knows'
  <2>1. /\ UNCHANGED <<Hp, die, cur, damage, mine, theirs, killers, shown,
                       bullets>>
        /\ At(a, "idle") /\ ~die
        /\ pc' = [pc EXCEPT ![a] = pc'[a]] /\ pc'[a] \in {"load", "mine"}
        /\ how' = [how EXCEPT ![a] = how'[a]]
    BY <1>1, <1>t DEF Attack, Goto, Types, server, client, hist, blows
  <2>2. damage[a] = 0 /\ a \notin killers
    BY <1>k, <2>1 DEF Knows, At
  <2> QED BY <1>k, <1>t, <2>1, <2>2 DEF Knows, At, Types
<1>2. ASSUME NEW a \in Attackers, Load(a) PROVE Knows'
  <2>1. /\ UNCHANGED <<Hp, die, how, damage, mine, theirs, killers, shown,
                       bullets>>
        /\ At(a, "load")
        /\ pc' = [pc EXCEPT ![a] = pc'[a]]
        /\ pc'[a] \in {"idle", "mine", "swap"}
        /\ cur' = [cur EXCEPT ![a] = Hp]
        /\ pc'[a] = "swap" => Hp >= 1
    BY <1>2, <1>t DEF Load, Goto, Types, server, client, hist, blows
  <2> QED BY <1>k, <1>t, <2>1 DEF Knows, At, Types
<1>3. ASSUME NEW a \in Attackers, Swap(a) PROVE Knows'
  <2>1. CASE Hp # cur[a]
    <3>1. /\ UNCHANGED <<Hp, die, how, cur, damage, mine, theirs, killers,
                         shown, bullets>>
          /\ At(a, "swap")
          /\ pc' = [pc EXCEPT ![a] = "load"]
      BY <1>3, <2>1 DEF Swap, Goto, client
    <3> QED BY <1>k, <1>t, <3>1 DEF Knows, At, Types
  <2>2. CASE Hp = cur[a]
    <3> DEFINE d == Damage(how[a])
               new == Less(cur[a], d)
    <3>1. /\ UNCHANGED <<die, how, cur, mine, theirs, shown, bullets>>
          /\ At(a, "swap")
          /\ Hp' = new
          /\ damage' = [damage EXCEPT ![a] = d]
          /\ killers' = IF new = 0 THEN killers \cup {a} ELSE killers
          /\ pc' = [pc EXCEPT ![a] = IF new = 0 THEN "dying" ELSE "mine"]
      BY <1>3, <2>2 DEF Swap, Goto, client
    <3>2. Hp >= 1 /\ ~die /\ d > 0 /\ new \in Int /\ new # Hp
      BY <1>k, <1>t, <2>2, <3>1, DamagePositive
      DEF Knows, BlowsAddUp, Types, Less
    <3>3. killers = {}
      BY <1>k, <3>2, <1>t DEF Knows, Types
    <3>4. \A b \in Attackers : ~mine[b] /\ ~theirs[b] /\ ~At(b, "dying")
      BY <1>k, <3>2 DEF Knows
    <3> HIDE DEF d, new
    <3>5. damage'[a] = Damage(how'[a]) /\ how' = how
      BY <1>t, <3>1 DEF d, Types
    <3>6. CASE new = 0
      <4>1. killers' = {a} /\ Hp' = 0 /\ At(a, "dying")'
        BY <1>t, <3>1, <3>3, <3>6 DEF At, Types
      <4> QED BY <1>k, <1>t, <3>1, <3>4, <3>5, <4>1 DEF Knows, At, Types
    <3>7. CASE new # 0
      <4>1. killers' = {} /\ Hp' # 0 /\ At(a, "mine")'
        BY <1>t, <3>1, <3>3, <3>7 DEF At, Types
      <4> QED BY <1>k, <1>t, <3>1, <3>4, <3>5, <4>1 DEF Knows, At, Types
    <3> QED BY <3>6, <3>7
  <2> QED BY <2>1, <2>2
<1>4. ASSUME NEW a \in Attackers, Dying(a) PROVE Knows'
  <2>1. /\ UNCHANGED <<Hp, how, cur, damage, mine, theirs, killers, shown,
                       bullets>>
        /\ At(a, "dying") /\ die'
        /\ pc' = [pc EXCEPT ![a] = "mine"]
    BY <1>4 DEF Dying, Goto, client, hist, blows
  <2> QED BY <1>k, <1>t, <2>1 DEF Knows, At, Types
<1>5. ASSUME NEW a \in Attackers, MakeResult(a) PROVE Knows'
  <2>1. /\ UNCHANGED <<Hp, die, how, cur, damage, theirs, killers, shown,
                       bullets>>
        /\ At(a, "mine")
        /\ mine' = [mine EXCEPT ![a] = die]
        /\ pc' = [pc EXCEPT ![a] = "theirs"]
    BY <1>5 DEF MakeResult, Goto, client, server, hist, blows
  <2> QED BY <1>k, <1>t, <2>1 DEF Knows, At, Types
<1>6. ASSUME NEW a \in Attackers, MakeAttack(a) PROVE Knows'
  <2>1. /\ UNCHANGED <<Hp, die, how, cur, damage, mine, killers, shown,
                       bullets>>
        /\ At(a, "theirs")
        /\ theirs' = [theirs EXCEPT ![a] = die]
        /\ pc' = [pc EXCEPT ![a] = "tell"]
    BY <1>6 DEF MakeAttack, Goto, client, server, hist, blows
  <2> QED BY <1>k, <1>t, <2>1 DEF Knows, At, Types
<1>7. ASSUME NEW a \in Attackers, Tell(a) PROVE Knows'
  <2>1. /\ UNCHANGED <<Hp, die, how, killers>>
        /\ At(a, "tell")
        /\ cur' = [cur EXCEPT ![a] = 0]
        /\ damage' = [damage EXCEPT ![a] = 0]
        /\ mine' = [mine EXCEPT ![a] = FALSE]
        /\ theirs' = [theirs EXCEPT ![a] = FALSE]
        /\ pc' = [pc EXCEPT ![a] = "idle"]
    BY <1>7 DEF Tell, Goto, server, hist, blows
  <2>2. bullets' > 0 => shown' \in Int
    BY <1>7, <1>k, <1>t DEF Tell, Knows, Types, Less
  <2> QED BY <1>k, <1>t, <2>1, <2>2 DEF Knows, At, Types
<1>8. CASE Bystanding
  <2>1. UNCHANGED <<server, handler, blows>> /\ (bullets' > 0 => shown' \in Int)
    BY <1>8, <1>t, BystandingLeaves DEF IInv, Knows
  <2> QED BY <1>k, <2>1 DEF Knows, At, server, handler, blows
<1> QED BY <1>1, <1>2, <1>3, <1>4, <1>5, <1>6, <1>7, <1>8
        DEF Next, Bystanding

\* Only the one step that makes a packet leads to sending it.
LEMMA StepMade == IInv /\ [Next]_vars => Made'
<1> SUFFICES ASSUME IInv, [Next]_vars PROVE Made'
  OBVIOUS
<1>t. Types /\ Made
  BY DEF IInv, BlowsAddUp
<1>1. ASSUME NEW a \in Attackers,
             \/ Attack(a) \/ Load(a) \/ Swap(a) \/ Dying(a)
             \/ MakeResult(a) \/ MakeAttack(a) \/ Tell(a)
      PROVE  Made'
  <2>1. UNCHANGED watch
    BY <1>1 DEF Attack, Load, Swap, Dying, MakeResult, MakeAttack, Tell
  <2> QED BY <1>t, <2>1 DEF Made, SightAt, watch
<1>2. CASE Classify \/ Update \/ SightOut \/ MonsterMoves
  <2>1. /\ seen' = seen
        /\ \/ sight' = [sight EXCEPT !["watcher"] = sight'["watcher"]]
              /\ sight'["watcher"] # "send"
           \/ sight' = [sight EXCEPT !["monster"] = "begin"]
    BY <1>2, <1>t DEF Classify, Update, SightOut, MonsterMoves, Go, Types,
       Movers
  <2> QED BY <1>t, <2>1 DEF Made, SightAt, Types
<1>3. CASE TryInsert
  <2>1. /\ seen' = seen
        /\ sight' = [sight EXCEPT !["monster"] = sight'["monster"]]
        /\ sight'["monster"] # "send"
    BY <1>3, <1>t DEF TryInsert, Go, Types, Movers
  <2> QED BY <1>t, <2>1 DEF Made, SightAt, Types
<1>4. ASSUME NEW m \in Movers, MakeSight(m) PROVE Made'
  <2>1. seen' = [seen EXCEPT ![m] = Hp] /\ sight' = [sight EXCEPT ![m] = "send"]
    BY <1>4 DEF MakeSight, Go
  <2> QED BY <1>t, <2>1 DEF Made, SightAt, Types
<1>5. ASSUME NEW m \in Movers, SendSight(m) PROVE Made'
  <2>1. /\ seen' = [seen EXCEPT ![m] = Unseen]
        /\ sight' = [sight EXCEPT ![m] = "idle"]
    BY <1>5 DEF SendSight, Go
  <2> QED BY <1>t, <2>1 DEF Made, SightAt, Types
<1>6. CASE BulletLands \/ UNCHANGED vars
  <2>1. UNCHANGED watch
    BY <1>6 DEF BulletLands, vars
  <2> QED BY <1>t, <2>1 DEF Made, SightAt, watch
<1> QED BY <1>1, <1>2, <1>3, <1>4, <1>5, <1>6 DEF Next

\* Every reachable state satisfies the inductive invariant.
THEOREM Invariant == Spec => []IInv
<1>1. Init => IInv
  BY InitInv
<1>2. IInv /\ [Next]_vars => IInv'
  BY StepBlows, StepKnows, StepMade DEF IInv
<1> QED BY <1>1, <1>2, PTL DEF Spec

\* The hit points are what the blows have left; the dead have none.
THEOREM BlowsAlwaysAddUp == Spec => []BlowsAddUp
<1>1. IInv => BlowsAddUp
  BY DEF IInv
<1> QED BY <1>1, Invariant, PTL

\* KILL is told of the dead only, by the killer always, and of one killer.
THEOREM KillToldRight == Spec => []KillTold
<1>1. ASSUME IInv PROVE KillTold
  <2>1. \A a, b \in killers : a = b
    BY <1>1 DEF IInv, Knows
  <2>2. ASSUME NEW a \in Attackers
        PROVE  /\ At(a, "theirs") /\ mine[a] => die
               /\ At(a, "tell") =>
                    /\ theirs[a] => Hp = 0
                    /\ mine[a] => theirs[a]
                    /\ a \in killers => mine[a]
    <3>1. (mine[a] => die) /\ (theirs[a] => die) /\ (die => Hp = 0)
      BY <1>1 DEF IInv, Knows, BlowsAddUp
    <3>2. (At(a, "tell") /\ mine[a] => theirs[a])
          /\ (At(a, "tell") /\ a \in killers => mine[a])
      BY <1>1 DEF IInv, Knows, At
    <3> QED BY <3>1, <3>2
  <2> QED BY <2>1, <2>2 DEF KillTold
<1> QED BY <1>1, Invariant, PTL

-----------------------------------------------------------------------------
(* Who is shown *)

\* A handler is about to send a SIGHT_IN.
Fetching(m) == sight[m] \in {"read", "send"}

\* Only the watcher's handler takes the monster out of the near set.  Without
\* a crossing, the monster is in it if and only if the client shows it or will
\* be told of it; but for the time until the SIGHT_OUT is sent.
SightInv ==
    /\ sight["monster"] \in {"idle", "begin", "read", "send"}
    /\ Fetching("watcher") => near
    /\ ~raced =>
        IF SightAt("watcher", "hide")
        THEN ~near /\ ~Fetching("monster")
        ELSE near <=> (shown # Unseen \/ \E m \in Movers : Fetching(m))

\* A step that moves no handler keeps it, if it shows nothing and hides
\* nothing.
LEMMA SightFrame ==
    ASSUME SightInv, UNCHANGED <<near, sight, raced>>,
           (shown' = Unseen) = (shown = Unseen)
    PROVE  SightInv'
BY DEF SightInv, Fetching, SightAt

\* The packets that are sent say what the near set has.
LEMMA StepSight == IInv /\ SightInv /\ [Next]_vars => SightInv'
<1> SUFFICES ASSUME IInv, SightInv, [Next]_vars PROVE SightInv'
  OBVIOUS
<1> USE DEF server, handler, watch, client, blows, hist, Go
<1>t. Types /\ Types' /\ Made
  BY StepTypes DEF IInv, BlowsAddUp
<1>n. /\ sight \in [Movers -> SightStages] /\ sight' \in [Movers -> SightStages]
      /\ "watcher" \in Movers /\ "monster" \in Movers
      /\ \A m \in Movers : m = "watcher" \/ m = "monster"
      /\ near \in BOOLEAN /\ raced \in BOOLEAN
  BY <1>t DEF Types, Movers
<1>1. ASSUME NEW a \in Attackers,
             \/ Attack(a) \/ Load(a) \/ Swap(a) \/ Dying(a)
             \/ MakeResult(a) \/ MakeAttack(a)
      PROVE  SightInv'
  BY <1>1, SightFrame DEF Attack, Load, Swap, Dying, MakeResult, MakeAttack
<1>2. ASSUME NEW a \in Attackers, Tell(a) PROVE SightInv'
  <2>1. (shown' = Unseen) = (shown = Unseen)
    BY <1>2, <1>t DEF Tell, Less, Types
  <2> QED BY <1>2, <2>1, SightFrame DEF Tell
<1>3. CASE BulletLands
  <2>1. shown \in Int /\ shown' \in Int
    BY <1>3, <1>t DEF BulletLands, Less, Damage, IInv, Knows
  <2> QED BY <1>3, <2>1, SightFrame DEF BulletLands
<1>4. CASE Classify
  <2>1. /\ UNCHANGED <<near, raced, shown>> /\ SightAt("watcher", "idle")
        /\ \/ ~near /\ sight' = [sight EXCEPT !["watcher"] = "enter"]
           \/ near /\ sight' = [sight EXCEPT !["watcher"] = "leave"]
    BY <1>4, <1>n DEF Classify
  <2>2. /\ sight'["monster"] = sight["monster"]
        /\ sight'["watcher"] \in {"enter", "leave"}
    BY <1>n, <2>1
  <2> QED BY <1>n, <2>1, <2>2 DEF SightInv, Fetching, SightAt
<1>5. CASE Update
  <2>1. CASE SightAt("watcher", "enter")
    <3>1. near' /\ raced' = raced /\ shown' = shown
          /\ sight' = [sight EXCEPT !["watcher"] = "read"]
      BY <1>5, <2>1 DEF Update
    <3>2. sight'["monster"] = sight["monster"] /\ sight'["watcher"] = "read"
      BY <1>n, <3>1
    <3> QED BY <1>n, <2>1, <3>1, <3>2 DEF SightInv, Fetching, SightAt
  <2>2. CASE ~SightAt("watcher", "enter")
    <3>1. ~near' /\ raced' = Fetching("monster")
          /\ sight' = [sight EXCEPT !["watcher"] = "hide"]
      BY <1>5, <2>2, Zenon DEF Update, Fetching
    <3>2. sight'["monster"] = sight["monster"] /\ sight'["watcher"] = "hide"
      BY <1>n, <3>1
    <3> QED BY <1>n, <2>2, <3>1, <3>2 DEF SightInv, Fetching, SightAt
  <2> QED BY <2>1, <2>2
<1>6. CASE SightOut
  <2>1. /\ SightAt("watcher", "hide") /\ UNCHANGED <<near, raced>>
        /\ shown' = Unseen /\ sight' = [sight EXCEPT !["watcher"] = "idle"]
    BY <1>6 DEF SightOut
  <2>2. sight'["monster"] = sight["monster"] /\ sight'["watcher"] = "idle"
    BY <1>n, <2>1
  <2> QED BY <1>n, <2>1, <2>2 DEF SightInv, Fetching, SightAt
<1>7. CASE MonsterMoves
  <2>1. /\ SightAt("monster", "idle") /\ UNCHANGED <<near, raced, shown>>
        /\ sight' = [sight EXCEPT !["monster"] = "begin"]
    BY <1>7 DEF MonsterMoves
  <2>2. sight'["watcher"] = sight["watcher"] /\ sight'["monster"] = "begin"
    BY <1>n, <2>1
  <2> QED BY <1>n, <2>1, <2>2 DEF SightInv, Fetching, SightAt
<1>8. CASE TryInsert
  <2>0. SightAt("monster", "begin") /\ shown' = shown
    BY <1>8 DEF TryInsert
  <2>1. CASE near' /\ ~near
    <3>1. /\ sight' = [sight EXCEPT !["monster"] = "read"]
          /\ raced' = (raced \/ SightAt("watcher", "hide"))
      BY <1>8, <1>n, <2>1 DEF TryInsert
    <3>2. sight'["watcher"] = sight["watcher"] /\ sight'["monster"] = "read"
      BY <1>n, <3>1
    <3> QED BY <1>n, <2>0, <2>1, <3>1, <3>2 DEF SightInv, Fetching, SightAt
  <2>2. CASE ~(near' /\ ~near)
    <3>1. /\ sight' = [sight EXCEPT !["monster"] = "idle"]
          /\ near' = near /\ raced' = raced
      BY <1>8, <1>n, <2>2 DEF TryInsert
    <3>2. sight'["watcher"] = sight["watcher"] /\ sight'["monster"] = "idle"
      BY <1>n, <3>1
    <3> QED BY <1>n, <2>0, <3>1, <3>2 DEF SightInv, Fetching, SightAt
  <2> QED BY <2>1, <2>2
<1>9. ASSUME NEW m \in Movers, MakeSight(m) PROVE SightInv'
  <2>1. /\ SightAt(m, "read") /\ UNCHANGED <<near, raced, shown>>
        /\ sight' = [sight EXCEPT ![m] = "send"]
    BY <1>9 DEF MakeSight
  <2>2. /\ \A n \in Movers : sight'[n] = IF n = m THEN "send" ELSE sight[n]
        /\ sight[m] = "read"
    BY <1>n, <2>1 DEF SightAt
  <2>3. \A n \in Movers : sight'[n] \in {"read", "send"} <=> sight[n] \in {"read", "send"}
    BY <2>2
  <2>4. (sight'["watcher"] = "hide") <=> (sight["watcher"] = "hide")
    BY <1>n, <2>2
  <2>5. sight'["monster"] \in {"idle", "begin", "read", "send"}
    BY <1>n, <2>2 DEF SightInv
  <2> QED BY <1>n, <2>1, <2>3, <2>4, <2>5 DEF SightInv, Fetching, SightAt
<1>10. ASSUME NEW m \in Movers, SendSight(m) PROVE SightInv'
  <2>1. /\ SightAt(m, "send") /\ near' = near /\ shown' = seen[m]
        /\ raced' = (raced /\ m = "monster")
        /\ sight' = [sight EXCEPT ![m] = "idle"]
    BY <1>10 DEF SendSight
  <2>2. /\ \A n \in Movers : sight'[n] = IF n = m THEN "idle" ELSE sight[n]
        /\ sight[m] = "send" /\ shown' \in Int
    BY <1>n, <1>t, <2>1 DEF SightAt, Made
  <2>3. ~raced' => near /\ sight'["watcher"] # "hide"
    BY <1>n, <2>1, <2>2 DEF SightInv, Fetching, SightAt
  <2> QED BY <1>n, <2>1, <2>2, <2>3 DEF SightInv, Fetching, SightAt
<1>11. CASE UNCHANGED vars
  BY <1>11, SightFrame DEF vars
<1> QED BY <1>1, <1>2, <1>3, <1>4, <1>5, <1>6, <1>7, <1>8, <1>9, <1>10, <1>11
        DEF Next

\* Without a crossing of SIGHT_IN and SIGHT_OUT, and with no handler at work
\* between the two, the client shows the monster if and only if it is in the
\* watcher's near set.
THEOREM SightIsKept == Spec => []SightKept
<1>1. Init => SightInv
  BY DEF Init, SightInv, Fetching, SightAt, Movers
<1>2. SightInv => SightKept
  BY DEF SightInv, SightKept, Fetching, SightAt, Movers
<1> QED BY <1>1, <1>2, StepSight, Invariant, PTL DEF Spec

-----------------------------------------------------------------------------
(* What is shown *)

\* One element for each hit point that the watcher has not been told of.
Strokes(hits) == UNION {{a} \X (1 .. hits[a]) : a \in Attackers}

\* What the packets and the bullets on their way will take.
Owed == Cardinality(Strokes(damage)) + bullets * Damage("spell")

\* Unless a SIGHT_IN raced with a blow, a client shows what the server has but
\* for what is owed.
ShownInv ==
    /\ IsFiniteSet(Strokes(damage))
    /\ shown # Unseen /\ ~unclean => shown \in Nat /\ Hp = Less(shown, Owed)

\* The elements of one blow
LEMMA BlowSize ==
    ASSUME NEW a, NEW d \in Nat
    PROVE  IsFiniteSet({a} \X (1 .. d)) /\ Cardinality({a} \X (1 .. d)) = d
<1>1. IsFiniteSet({a}) /\ Cardinality({a}) = 1
  BY FS_Singleton
<1>2. IsFiniteSet(1 .. d) /\ Cardinality(1 .. d) = d
  BY FS_Interval
<1>3. IsFiniteSet({a} \X (1 .. d)) /\ Cardinality({a} \X (1 .. d)) = 1 * d
  BY <1>1, <1>2, FS_Product
<1> QED BY <1>3

\* A blow adds its damage to what is owed, and no longer owed it takes it off.
LEMMA OneBlow ==
    ASSUME NEW f \in [Attackers -> Nat], NEW a \in Attackers, NEW d \in Nat,
           NEW g, f[a] = 0, g[a] = d, \A b \in Attackers : b # a => g[b] = f[b]
    PROVE  /\ IsFiniteSet(Strokes(f)) <=> IsFiniteSet(Strokes(g))
           /\ IsFiniteSet(Strokes(f)) =>
                /\ Cardinality(Strokes(f)) \in Nat
                /\ Cardinality(Strokes(g)) = Cardinality(Strokes(f)) + d
<1> DEFINE new == {a} \X (1 .. d)
<1>1. \A h : h \in Strokes(f) => h[1] # a
  <2> SUFFICES ASSUME NEW b \in Attackers, NEW h \in {b} \X (1 .. f[b])
               PROVE  h[1] # a
    BY DEF Strokes
  <2>1. h[1] = b /\ h[2] \in 1 .. f[b]
    OBVIOUS
  <2>2. CASE b = a
    BY <2>1, <2>2
  <2> QED BY <2>1, <2>2
<1>2. Strokes(g) = Strokes(f) \cup new
  <2>1. \A b \in Attackers : b # a => g[b] = f[b]
    OBVIOUS
  <2>2. g[a] = d /\ 1 .. f[a] = {}
    OBVIOUS
  <2>3. ASSUME NEW h PROVE h \in Strokes(g) <=> h \in Strokes(f) \cup new
    <3>1. h \in Strokes(g) <=> \E b \in Attackers : h \in {b} \X (1 .. g[b])
      BY DEF Strokes
    <3>2. h \in Strokes(f) <=> \E b \in Attackers : h \in {b} \X (1 .. f[b])
      BY DEF Strokes
    <3>3. h \notin {a} \X (1 .. f[a])
      BY <2>2
    <3> QED BY <2>1, <2>2, <3>1, <3>2, <3>3
  <2> QED BY <2>3
<1>3. Strokes(f) \cap new = {}
  BY <1>1
<1>4. IsFiniteSet(new) /\ Cardinality(new) = d
  BY BlowSize
<1> HIDE DEF new
<1>5. ASSUME IsFiniteSet(Strokes(f))
      PROVE  /\ IsFiniteSet(Strokes(g))
             /\ Cardinality(Strokes(f)) \in Nat
             /\ Cardinality(Strokes(g)) = Cardinality(Strokes(f)) + d
  <2>1. Cardinality(Strokes(f)) \in Nat
    BY <1>5, FS_CardinalityType
  <2>2. /\ IsFiniteSet(Strokes(f) \cup new)
        /\ Cardinality(Strokes(f) \cup new) =
             Cardinality(Strokes(f)) + Cardinality(new) - Cardinality(Strokes(f) \cap new)
    BY <1>4, <1>5, FS_Union
  <2>3. Cardinality(Strokes(f) \cap new) = 0
    <3> PICK both : both = Strokes(f) \cap new
      OBVIOUS
    <3>1. both = {}
      BY <1>3
    <3>2. Cardinality(both) = 0
      BY <3>1, FS_EmptySet
    <3> QED BY <3>2
  <2> QED BY <1>2, <1>4, <2>1, <2>2, <2>3
<1>6. ASSUME IsFiniteSet(Strokes(g)) PROVE IsFiniteSet(Strokes(f))
  BY <1>2, <1>6, FS_Subset
<1> QED BY <1>5, <1>6

\* Nothing is owed when every blow was told.
LEMMA NothingOwed ==
    ASSUME NEW f \in [Attackers -> Nat], \A a \in Attackers : f[a] = 0
    PROVE  IsFiniteSet(Strokes(f)) /\ Cardinality(Strokes(f)) = 0
<1>1. \A a \in Attackers : 1 .. f[a] = {}
  OBVIOUS
<1>2. Strokes(f) = {}
  BY <1>1 DEF Strokes
<1> QED BY <1>2, FS_EmptySet

\* A step that strikes and tells nothing.
LEMMA ShownFrame ==
    ASSUME ShownInv, UNCHANGED <<Hp, damage, shown, bullets, unclean>>
    PROVE  ShownInv'
BY DEF ShownInv, Owed

\* What the client shows and what the server has are lowered alike.
LEMMA StepShown == IInv /\ ShownInv /\ [Next]_vars => ShownInv'
<1> SUFFICES ASSUME IInv, ShownInv, [Next]_vars PROVE ShownInv'
  OBVIOUS
<1> USE DEF server, handler, watch, client, blows, hist
<1>t. /\ Types /\ Types' /\ Knows
      /\ damage \in [Attackers -> Nat] /\ bullets \in Nat
      /\ Damage("spell") \in Nat
  BY StepTypes, DamagePositive DEF IInv, BlowsAddUp, Types, Ways
<1>h. Hp \in Nat
  BY <1>t, LessAdds DEF IInv, BlowsAddUp, Types
<1>c. IsFiniteSet(Strokes(damage)) /\ Cardinality(Strokes(damage)) \in Nat
  BY FS_CardinalityType DEF ShownInv
<1>b. bullets * Damage("spell") \in Nat
  BY <1>t
<1>1. ASSUME NEW a \in Attackers, Swap(a) PROVE ShownInv'
  <2>1. CASE Hp # cur[a]
    BY <1>1, <2>1, ShownFrame DEF Swap
  <2>2. CASE Hp = cur[a]
    <3> DEFINE d == Damage(how[a])
    <3>1. /\ Hp' = Less(Hp, d) /\ damage' = [damage EXCEPT ![a] = d]
          /\ UNCHANGED <<shown, bullets, unclean>> /\ damage[a] = 0
      BY <1>1, <1>t, <2>2 DEF Swap, Knows, At
    <3>2. d \in Nat
      BY <1>t, DamagePositive DEF Types
    <3> HIDE DEF d
    <3>3. /\ IsFiniteSet(Strokes(damage'))
          /\ Cardinality(Strokes(damage')) = Cardinality(Strokes(damage)) + d
      <4> PICK f, g : f = damage /\ g = damage'
        OBVIOUS
      <4>1. /\ f \in [Attackers -> Nat] /\ f[a] = 0
            /\ g[a] = d /\ \A b \in Attackers : b # a => g[b] = f[b]
        BY <1>t, <3>1
      <4>2. /\ IsFiniteSet(Strokes(f)) <=> IsFiniteSet(Strokes(g))
            /\ IsFiniteSet(Strokes(f)) =>
                 Cardinality(Strokes(g)) = Cardinality(Strokes(f)) + d
        BY <3>2, <4>1, OneBlow
      <4> QED BY <1>c, <4>2
    <3>4. Owed \in Nat /\ Owed' = Owed + d
      BY <1>b, <1>c, <3>1, <3>2, <3>3 DEF Owed
    <3>5. shown \in Nat => Less(Less(shown, Owed), d) = Less(shown, Owed + d)
      BY <3>2, <3>4, LessAdds
    <3> QED BY <3>1, <3>3, <3>4, <3>5 DEF ShownInv
  <2> QED BY <2>1, <2>2
<1>2. ASSUME NEW a \in Attackers, Tell(a) PROVE ShownInv'
  <2>1. /\ UNCHANGED <<Hp, unclean>>
        /\ damage' = [damage EXCEPT ![a] = 0]
        /\ damage[a] \in Nat
    BY <1>2, <1>t DEF Tell
  <2>2. /\ damage' \in [Attackers -> Nat] /\ damage'[a] = 0
        /\ damage = [damage' EXCEPT ![a] = damage[a]]
    BY <1>t, <2>1
  <2>3. /\ IsFiniteSet(Strokes(damage')) /\ Cardinality(Strokes(damage')) \in Nat
        /\ Cardinality(Strokes(damage)) = Cardinality(Strokes(damage')) + damage[a]
    <3> PICK f, g, d : f = damage' /\ g = damage /\ d = damage[a]
      OBVIOUS
    <3>1. /\ f \in [Attackers -> Nat] /\ f[a] = 0 /\ d \in Nat
          /\ g[a] = d /\ \A b \in Attackers : b # a => g[b] = f[b]
      BY <2>1, <2>2
    <3>2. /\ IsFiniteSet(Strokes(f)) <=> IsFiniteSet(Strokes(g))
          /\ IsFiniteSet(Strokes(f)) =>
                /\ Cardinality(Strokes(f)) \in Nat
                /\ Cardinality(Strokes(g)) = Cardinality(Strokes(f)) + d
      BY <3>1, OneBlow
    <3> QED BY <1>c, <3>2
  <2>4. CASE shown = Unseen
    <3>1. shown' = Unseen
      BY <1>2, <2>4 DEF Tell
    <3> QED BY <2>3, <3>1 DEF ShownInv
  <2>5. CASE damage[a] = 0
    <3>1. shown' = shown /\ bullets' = bullets
      BY <1>2, <2>5 DEF Tell
    <3>2. Owed' = Owed
      BY <1>b, <2>3, <2>5, <3>1 DEF Owed
    <3> QED BY <2>1, <2>3, <3>1, <3>2 DEF ShownInv
  <2>6. CASE shown # Unseen /\ damage[a] # 0 /\ how[a] = "normal"
    <3>1. shown' = Less(shown, damage[a]) /\ bullets' = bullets
      BY <1>2, <2>6 DEF Tell
    <3>2. Owed' \in Nat /\ Owed = damage[a] + Owed'
      BY <1>b, <2>1, <2>3, <3>1 DEF Owed
    <3>3. shown \in Nat =>
            /\ Less(Less(shown, damage[a]), Owed') = Less(shown, damage[a] + Owed')
            /\ Less(shown, damage[a]) \in Nat
      <4> PICK h, c, d : h = shown /\ c = damage[a] /\ d = Owed'
        OBVIOUS
      <4>1. c \in Nat /\ d \in Nat
        BY <2>1, <3>2
      <4>2. ASSUME h \in Nat
           PROVE  Less(Less(h, c), d) = Less(h, c + d) /\ Less(h, c) \in Nat
        BY ZenonT(30), <4>1, <4>2, LessAdds
      <4> QED BY <4>2
    <3> QED BY <2>1, <2>3, <2>6, <3>1, <3>2, <3>3 DEF ShownInv
  <2>7. CASE shown # Unseen /\ damage[a] # 0 /\ how[a] # "normal"
    <3>1. shown' = shown /\ bullets' = bullets + 1
      BY <1>2, <2>7 DEF Tell
    <3>2. damage[a] = Damage("spell")
      BY <1>t, <2>1, <2>7 DEF Knows, Types, Ways
    <3>3. (bullets + 1) * Damage("spell") = bullets * Damage("spell") + Damage("spell")
      BY <1>t
    <3>4. Owed' = Owed
      BY <1>b, <2>1, <2>3, <3>1, <3>2, <3>3 DEF Owed, Damage
    <3> QED BY <2>1, <2>3, <3>1, <3>4 DEF ShownInv
  <2> QED BY <2>4, <2>5, <2>6, <2>7
<1>3. CASE BulletLands
  <2>1. /\ UNCHANGED <<Hp, unclean, damage>> /\ bullets > 0
        /\ bullets' = bullets - 1 /\ shown' = Less(shown, Damage("spell"))
    BY <1>3 DEF BulletLands
  <2>2. /\ bullets' \in Nat
        /\ bullets * Damage("spell") = Damage("spell") + bullets' * Damage("spell")
        /\ bullets' * Damage("spell") \in Nat
    BY <1>t, <2>1
  <2>3. Owed' \in Nat /\ Owed = Damage("spell") + Owed'
    BY <1>c, <1>t, <2>1, <2>2 DEF Owed, Damage
  <2>4. shown \in Int
    BY <1>t, <2>1 DEF Knows
  <2>5. shown \in Nat =>
          /\ Less(Less(shown, Damage("spell")), Owed') = Less(shown, Damage("spell") + Owed')
          /\ Less(shown, Damage("spell")) \in Nat
    <3> PICK h, c, d : h = shown /\ c = Damage("spell") /\ d = Owed'
      OBVIOUS
    <3>1. c \in Nat /\ d \in Nat
      BY <1>t, <2>3
    <3>2. ASSUME h \in Nat
         PROVE  Less(Less(h, c), d) = Less(h, c + d) /\ Less(h, c) \in Nat
      BY ZenonT(30), <3>1, <3>2, LessAdds
    <3> QED BY <3>2
  <2> QED BY <2>1, <2>3, <2>4, <2>5 DEF ShownInv
<1>4. ASSUME NEW m \in Movers, SendSight(m) PROVE ShownInv'
  <2>1. /\ UNCHANGED <<Hp, bullets, damage>> /\ shown' = seen[m]
        /\ ~unclean' => /\ seen[m] = Hp /\ ~(bullets > 0)
                        /\ \A a \in Attackers : ~Untold(a)
    BY <1>4 DEF SendSight
  <2>2. ASSUME ~unclean' PROVE shown' \in Nat /\ Hp' = Less(shown', Owed')
    <3>1. \A a \in Attackers : damage[a] = 0
      BY <1>t, <2>1, <2>2 DEF Untold, Knows, Types, Stages
    <3>2. Cardinality(Strokes(damage)) = 0 /\ bullets = 0
      BY <1>t, <2>1, <2>2, <3>1, NothingOwed
    <3>3. Owed' = 0
      BY <1>t, <2>1, <3>2 DEF Owed, Damage
    <3> QED BY <1>h, <2>1, <2>2, <3>3 DEF Less
  <2> QED BY <1>c, <2>1, <2>2 DEF ShownInv
<1>5. CASE SightOut
  BY <1>5 DEF SightOut, ShownInv
<1>6. ASSUME NEW a \in Attackers,
             \/ Attack(a) \/ Load(a) \/ Dying(a) \/ MakeResult(a) \/ MakeAttack(a)
      PROVE  ShownInv'
  BY <1>6, ShownFrame DEF Attack, Load, Dying, MakeResult, MakeAttack
<1>7. CASE Classify \/ Update \/ MonsterMoves \/ TryInsert \/ UNCHANGED vars
  BY <1>7, ShownFrame DEF Classify, Update, MonsterMoves, TryInsert, vars
<1>8. ASSUME NEW m \in Movers, MakeSight(m) PROVE ShownInv'
  BY <1>8, ShownFrame DEF MakeSight
<1> QED BY <1>1, <1>2, <1>3, <1>4, <1>5, <1>6, <1>7, <1>8 DEF Next

\* When every blow was told and every bullet has landed, a client shows the
\* hit points the server has, however many attackers strike and whatever their
\* strength, unless the last SIGHT_IN raced with a blow.
THEOREM ShownIsRight == Spec => []ShownHp
<1>1. Init => ShownInv
  <2> SUFFICES ASSUME Init PROVE ShownInv
    OBVIOUS
  <2>1. damage \in [Attackers -> Nat] /\ (\A a \in Attackers : damage[a] = 0)
        /\ shown = Unseen
    BY DEF Init
  <2> QED BY <2>1, NothingOwed DEF ShownInv
<1>2. IInv /\ ShownInv => ShownHp
  <2> SUFFICES ASSUME IInv, ShownInv, shown # Unseen, ~unclean, bullets = 0,
                      \A a \in Attackers : ~Untold(a)
               PROVE  shown = Hp
    BY DEF ShownHp
  <2>1. Types /\ Knows /\ damage \in [Attackers -> Nat]
    BY DEF IInv, BlowsAddUp, Types
  <2>2. \A a \in Attackers : damage[a] = 0
    BY <2>1 DEF Untold, Knows, Types, Stages
  <2>3. Cardinality(Strokes(damage)) = 0
    BY <2>1, <2>2, NothingOwed
  <2>4. Owed = 0
    BY <2>3 DEF Owed, Damage
  <2> QED BY <2>4 DEF ShownInv, Less
<1> QED BY <1>1, <1>2, StepShown, Invariant, PTL DEF Spec

=============================================================================
