---------------------------- MODULE MonsterProofs ----------------------------
(***************************************************************************)
(* For any number of threads and players: a monster that is awake has a    *)
(* chain, and it gets a second one only from a player that wakes it while  *)
(* the first one runs.                                                     *)
(***************************************************************************)
EXTENDS Monster, FiniteSetTheorems, TLAPS

\* The events and completions of the monster, which no thread holds yet.
Queued == timer["move"] + timer["start"] + moves + awakes

\* One chain at most, without counting: nothing is queued, or one thing is
\* and no thread works for the chain.
OneChain ==
    /\ Queued <= 1
    /\ Queued = 1 => \A t \in Threads : ~InChain(t)
    /\ \A t, u \in Threads : InChain(t) /\ InChain(u) => t = u

\* While there is one chain, its thread finds the target it has read.
Alone ==
    ~rewoken =>
        /\ OneChain
        /\ ~badIndex
        /\ \A t \in Threads : At(t, "lookup") => target # NoPlayer

IInv == TypeOK /\ AwakeHasChain /\ Alone

-----------------------------------------------------------------------------
(* Three shapes of steps *)

\* A handler goes on: nothing is queued or taken, the thread stays in it.
GoesOn(t) ==
    /\ InChain(t) /\ InChain(t)'
    /\ \A u \in Threads \ {t} : pc'[u] = pc[u]
    /\ UNCHANGED <<timer, moves, awakes>>

\* A thread works for a player: no chain is touched.
Aside(t) ==
    /\ ~InChain(t) /\ ~InChain(t)'
    /\ \A u \in Threads \ {t} : pc'[u] = pc[u]
    /\ UNCHANGED <<timer, moves, awakes>>

\* The chains are as they were after a step of either shape.
LEMMA ChainKept ==
    ASSUME TypeOK, NEW t \in Threads, GoesOn(t) \/ Aside(t)
    PROVE  /\ \A u \in Threads : InChain(u)' <=> InChain(u)
           /\ OneChain => OneChain'
<1>1. \A u \in Threads : InChain(u)' <=> InChain(u)
  BY DEF GoesOn, Aside, InChain
<1>2. Queued' = Queued
  BY DEF GoesOn, Aside, Queued
<1> QED BY <1>1, <1>2 DEF OneChain

\* Without a chain nothing is queued and no thread works for one.
LEMMA NoChains ==
    ASSUME TypeOK, ~(Chains > 0)
    PROVE  Queued = 0 /\ \A t \in Threads : ~InChain(t)
<1> DEFINE Busy == {t \in Threads : InChain(t)}
<1>1. IsFiniteSet(Busy)
  BY ThreadsAssumption, FS_Subset
<1>2. Cardinality(Busy) \in Nat /\ (Cardinality(Busy) = 0 <=> Busy = {})
  BY <1>1, FS_CardinalityType, FS_EmptySet
<1>3. timer["move"] \in Nat /\ timer["start"] \in Nat
      /\ moves \in Nat /\ awakes \in Nat
  BY DEF TypeOK, EventType
<1>4. Queued = 0 /\ Cardinality(Busy) = 0
  BY <1>2, <1>3 DEF Chains, Queued
<1> QED BY <1>2, <1>4

\* One chain at most counts at most one.
LEMMA OneChainCounts ==
    ASSUME TypeOK, OneChain
    PROVE  ~(Chains > 1)
<1> DEFINE Busy == {t \in Threads : InChain(t)}
<1>1. Queued \in Nat
  BY DEF TypeOK, EventType, Queued
<1>2. CASE Busy = {}
  <2>1. Cardinality(Busy) = 0
    BY <1>2, FS_EmptySet
  <2> QED BY <1>1, <2>1 DEF OneChain, Queued, Chains, TypeOK, EventType
<1>3. CASE Busy # {}
  <2>1. PICK t \in Threads : InChain(t)
    BY <1>3
  <2>2. Busy = {t}
    BY <2>1 DEF OneChain
  <2>3. Cardinality(Busy) = 1
    BY <2>2, FS_Singleton
  <2>4. Queued = 0
    BY <1>1, <2>1 DEF OneChain
  <2> QED BY <2>3, <2>4 DEF Queued, Chains, TypeOK, EventType
<1> QED BY <1>2, <1>3

-----------------------------------------------------------------------------
(* The steps *)

\* The monster sleeps at first, and nothing is queued.
LEMMA InitInv == Init => IInv
<1> SUFFICES ASSUME Init PROVE IInv
  OBVIOUS
<1>1. TypeOK
  <2>1. timer \in [EventType -> Nat] /\ exover \in EventType
    BY DEF Init, EventType
  <2> QED BY <2>1 DEF Init, TypeOK
<1>2. Queued = 0
  BY DEF Init, Queued, EventType
<1>3. \A t \in Threads : ~InChain(t) /\ ~At(t, "lookup")
  BY DEF Init, InChain, At, Handler
<1>4. Alone
  BY <1>2, <1>3 DEF Init, Alone, OneChain
<1> QED BY <1>1, <1>4 DEF Init, IInv, AwakeHasChain

\* Every step keeps the types.
LEMMA StepType == TypeOK /\ [Next]_vars => TypeOK'
<1> SUFFICES ASSUME TypeOK, [Next]_vars PROVE TypeOK'
  OBVIOUS
<1> USE DEF TypeOK, Handler, PlayerStage, flags, chain, regs, hist, At, Goto
<1>1. ASSUME NEW k \in EventType, Fire(k) PROVE TypeOK'
  BY <1>1 DEF Fire, EventType
<1>2. ASSUME NEW t \in Threads, TakeMove(t) PROVE TypeOK'
  BY <1>2 DEF TakeMove, Enter
<1>3. ASSUME NEW t \in Threads, TakeAwake(t) PROVE TypeOK'
  BY <1>3 DEF TakeAwake, Enter
<1>4. ASSUME NEW t \in Threads, ComeNear(t) PROVE TypeOK'
  BY <1>4 DEF ComeNear
<1>5. ASSUME NEW t \in Threads, Attack(t) PROVE TypeOK'
  BY <1>5 DEF Attack
<1>6. ASSUME NEW t \in Threads, BeginReturning(t) PROVE TypeOK'
  BY <1>6 DEF BeginReturning
<1>7. ASSUME NEW t \in Threads, BeginWanderer(t) PROVE TypeOK'
  BY <1>7 DEF BeginWanderer
<1>8. ASSUME NEW t \in Threads, BeginHunter(t) PROVE TypeOK'
  BY <1>8 DEF BeginHunter
<1>9. ASSUME NEW t \in Threads, LookUp(t) PROVE TypeOK'
  BY <1>9 DEF LookUp
<1>10. ASSUME NEW t \in Threads, Forget(t) PROVE TypeOK'
  BY <1>10 DEF Forget
<1>11. ASSUME NEW t \in Threads, Follow(t) PROVE TypeOK'
  BY <1>11 DEF Follow
<1>12. ASSUME NEW t \in Threads, FollowNot(t) PROVE TypeOK'
  BY <1>12 DEF FollowNot
<1>13. ASSUME NEW t \in Threads, CanMove(t) PROVE TypeOK'
  BY <1>13 DEF CanMove
<1>14. ASSUME NEW t \in Threads, Step(t) PROVE TypeOK'
  BY <1>14 DEF Step
<1>15. ASSUME NEW t \in Threads, Look(t) PROVE TypeOK'
  BY <1>15 DEF Look
<1>16. ASSUME NEW t \in Threads, Doze(t) PROVE TypeOK'
  BY <1>16 DEF Doze
<1>17. ASSUME NEW t \in Threads, GoHome(t) PROVE TypeOK'
  BY <1>17 DEF GoHome
<1>18. ASSUME NEW t \in Threads, Rouse(t) PROVE TypeOK'
  BY <1>18 DEF Rouse
<1>19. ASSUME NEW t \in Threads, Far(t) PROVE TypeOK'
  BY <1>19 DEF Far
<1>20. ASSUME NEW t \in Threads, Push(t) PROVE TypeOK'
  BY <1>20 DEF Push, EventType
<1>21. ASSUME NEW t \in Threads, Rest(t) PROVE TypeOK'
  BY <1>21 DEF Rest, EventType
<1>22. ASSUME NEW t \in Threads, WakeUp(t) PROVE TypeOK'
  BY <1>22 DEF WakeUp
<1>23. ASSUME NEW t \in Threads, PostAwake(t) PROVE TypeOK'
  BY <1>23 DEF PostAwake
<1>24. ASSUME NEW t \in Threads, Hurt(t) PROVE TypeOK'
  BY <1>24 DEF Hurt
<1>25. ASSUME NEW t \in Threads, Blow(t) PROVE TypeOK'
  BY <1>25 DEF Blow
<1>26. CASE UNCHANGED vars
  BY <1>26 DEF vars
<1> QED
  BY <1>1, <1>2, <1>3, <1>4, <1>5, <1>6, <1>7, <1>8, <1>9, <1>10, <1>11,
     <1>12, <1>13, <1>14, <1>15, <1>16, <1>17, <1>18, <1>19, <1>20, <1>21,
     <1>22, <1>23, <1>24, <1>25, <1>26 DEF Next, Handle

\* The handlers go on inside of their chain until Push or Rest.
LEMMA HandlersGoOn ==
    ASSUME TypeOK, NEW t \in Threads,
           \/ BeginReturning(t) \/ BeginWanderer(t) \/ BeginHunter(t)
           \/ LookUp(t) \/ Forget(t) \/ Follow(t) \/ FollowNot(t)
           \/ CanMove(t) \/ Step(t) \/ Look(t) \/ Doze(t) \/ GoHome(t)
           \/ Rouse(t) \/ Far(t)
    PROVE  GoesOn(t) /\ UNCHANGED rewoken
<1> USE DEF GoesOn, InChain, Handler, At, Goto, TypeOK, chain, hist, flags
<1>1. CASE BeginReturning(t) \/ BeginWanderer(t) \/ BeginHunter(t)
  BY <1>1 DEF BeginReturning, BeginWanderer, BeginHunter
<1>2. CASE LookUp(t)
  BY <1>2 DEF LookUp
<1>3. CASE Forget(t) \/ FollowNot(t) \/ CanMove(t)
  BY <1>3 DEF Forget, FollowNot, CanMove
<1>4. CASE Follow(t)
  BY <1>4 DEF Follow
<1>5. CASE Step(t) \/ Look(t)
  BY <1>5 DEF Step, Look
<1>6. CASE Doze(t) \/ GoHome(t) \/ Rouse(t) \/ Far(t)
  BY <1>6 DEF Doze, GoHome, Rouse, Far
<1> QED BY <1>1, <1>2, <1>3, <1>4, <1>5, <1>6

\* The steps of players leave chains and flags alone, or only kill.
LEMMA PlayersStandAside ==
    ASSUME TypeOK, NEW t \in Threads,
           ComeNear(t) \/ Attack(t) \/ Hurt(t) \/ Blow(t)
    PROVE  /\ Aside(t)
           /\ UNCHANGED <<rewoken, badIndex, sleep>>
           /\ die => die'
           /\ target' # target => target' \in Players
           /\ ~At(t, "lookup")'
BY DEF ComeNear, Attack, Hurt, Blow, Aside, InChain, Handler, PlayerStage, At,
       Goto, TypeOK, chain, hist, flags

\* A completion is taken only if there is one.
LEMMA TakesOne ==
    ASSUME TypeOK, NEW t \in Threads, TakeMove(t) \/ TakeAwake(t)
    PROVE  /\ ~InChain(t) /\ ~At(t, "lookup")'
           /\ die \/ InChain(t)'
           /\ \A u \in Threads \ {t} : pc'[u] = pc[u]
           /\ Queued' = Queued - 1
           /\ UNCHANGED <<sleep, die, target, badIndex, rewoken>>
BY DEF TakeMove, TakeAwake, Enter, InChain, Handler, At, Goto, TypeOK, hist,
       Queued, EventType

\* The end of a handler, or the post of a player, leaves one thing queued, or
\* nothing if the monster sleeps.
LEMMA LeavesOne ==
    ASSUME TypeOK, NEW t \in Threads, Push(t) \/ Rest(t) \/ PostAwake(t)
    PROVE  /\ InChain(t) /\ ~InChain(t)' /\ ~At(t, "lookup")'
           /\ \A u \in Threads \ {t} : pc'[u] = pc[u]
           /\ \/ Queued' = Queued + 1
              \/ Queued' = Queued /\ sleep
           /\ \/ timer'["move"] > 0 \/ timer'["start"] > 0 \/ awakes' > 0
              \/ sleep
           /\ UNCHANGED <<sleep, die, target, badIndex, rewoken>>
<1> USE DEF InChain, Handler, At, Goto, TypeOK, hist, Queued, EventType, flags
<1>1. CASE Push(t)
  BY <1>1 DEF Push
<1>2. CASE Rest(t)
  BY <1>2 DEF Rest
<1>3. CASE PostAwake(t)
  BY <1>3 DEF PostAwake
<1> QED BY <1>1, <1>2, <1>3

\* A monster that is awake keeps a chain: a handler passes it on, and only
\* the handler of a monster it found asleep or dead ends it.
LEMMA StepAwake == TypeOK /\ AwakeHasChain /\ [Next]_vars => AwakeHasChain'
<1> SUFFICES ASSUME TypeOK, AwakeHasChain, [Next]_vars,
                    ~sleep', ~die'
             PROVE  \/ \E k \in EventType : timer'[k] > 0
                    \/ moves' > 0
                    \/ awakes' > 0
                    \/ \E t \in Threads : InChain(t)'
  BY DEF AwakeHasChain
<1>1. ASSUME NEW k \in EventType, Fire(k) PROVE moves' > 0
  BY <1>1 DEF Fire, TypeOK
<1>2. ASSUME NEW t \in Threads, TakeMove(t) \/ TakeAwake(t)
      PROVE  InChain(t)'
  BY <1>2, TakesOne
<1>3. ASSUME NEW t \in Threads, GoesOn(t) PROVE InChain(t)'
  BY <1>3 DEF GoesOn
<1>4. ASSUME NEW t \in Threads, Push(t) \/ Rest(t) \/ PostAwake(t)
      PROVE  timer'["move"] > 0 \/ timer'["start"] > 0 \/ awakes' > 0
  BY <1>4, LeavesOne
<1>5. ASSUME NEW t \in Threads,
             ComeNear(t) \/ Attack(t) \/ Hurt(t) \/ Blow(t)
      PROVE  \/ \E k \in EventType : timer'[k] > 0
             \/ moves' > 0
             \/ awakes' > 0
             \/ \E u \in Threads : InChain(u)'
  <2>1. Aside(t) /\ ~sleep /\ ~die
    BY <1>5, PlayersStandAside
  <2> QED BY <2>1, ChainKept DEF AwakeHasChain, Aside
<1>6. ASSUME NEW t \in Threads, WakeUp(t)
      PROVE  \/ \E k \in EventType : timer'[k] > 0
             \/ moves' > 0
             \/ awakes' > 0
             \/ \E u \in Threads : InChain(u)'
  <2>1. CASE sleep
    BY <1>6, <2>1 DEF WakeUp, InChain, Goto, TypeOK
  <2>2. CASE ~sleep
    <3>1. Aside(t) /\ ~die
      BY <1>6, <2>2 DEF WakeUp, Aside, InChain, Handler, At, Goto, TypeOK, chain
    <3> QED BY <2>2, <3>1, ChainKept DEF AwakeHasChain, Aside
  <2> QED BY <2>1, <2>2
<1>7. CASE UNCHANGED vars
  BY <1>7 DEF vars, flags, chain, regs, AwakeHasChain, InChain
<1> QED
  BY <1>1, <1>2, <1>3, <1>4, <1>5, <1>6, <1>7, HandlersGoOn
  DEF Next, Handle, EventType

\* With one chain there is one handler, which finds the target it has read;
\* a second chain begins only where rewoken becomes true.
LEMMA StepAlone == TypeOK /\ Alone /\ [Next]_vars => Alone'
<1> SUFFICES ASSUME TypeOK, Alone, [Next]_vars, ~rewoken'
             PROVE  /\ OneChain'
                    /\ ~badIndex'
                    /\ \A u \in Threads : At(u, "lookup")' => target' # NoPlayer
  BY DEF Alone
<1> DEFINE Goal == /\ OneChain'
                   /\ ~badIndex'
                   /\ \A u \in Threads :
                        At(u, "lookup")' => target' # NoPlayer
<1>0. ASSUME ~rewoken
      PROVE  /\ OneChain /\ ~badIndex
             /\ \A u \in Threads : At(u, "lookup") => target # NoPlayer
             /\ \A u \in Threads : At(u, "lookup") => InChain(u)
  BY <1>0 DEF Alone, At, InChain, Handler
<1>q. Queued \in Nat
  BY DEF TypeOK, Queued, EventType
<1>1. ASSUME NEW k \in EventType, Fire(k) PROVE Goal
  <2>1. UNCHANGED <<pc, target, rewoken, badIndex>>
    BY <1>1 DEF Fire, flags, regs, hist
  <2>2. Queued' = Queued
    BY <1>1 DEF Fire, Queued, TypeOK, EventType
  <2> QED BY <1>0, <2>1, <2>2 DEF OneChain, InChain, At
<1>2. ASSUME NEW t \in Threads, TakeMove(t) \/ TakeAwake(t) PROVE Goal
  <2>1. /\ ~InChain(t) /\ ~At(t, "lookup")'
        /\ \A u \in Threads \ {t} : pc'[u] = pc[u]
        /\ Queued' = Queued - 1
        /\ UNCHANGED <<target, badIndex, rewoken>>
    BY <1>2, TakesOne
  <2>2. OneChain /\ Queued' \in Nat
    BY <1>2, <1>0, <2>1 DEF TakeMove, TakeAwake, Enter, hist, Queued, TypeOK,
       EventType
  <2>3. Queued = 1 /\ Queued' = 0
    BY <1>q, <2>1, <2>2 DEF OneChain
  <2>4. OneChain'
    BY <2>1, <2>2, <2>3 DEF OneChain, InChain
  <2> QED BY <1>0, <2>1, <2>4 DEF At
<1>3. ASSUME NEW t \in Threads,
             \/ BeginReturning(t) \/ BeginWanderer(t) \/ BeginHunter(t)
             \/ LookUp(t) \/ Forget(t) \/ Follow(t) \/ FollowNot(t)
             \/ CanMove(t) \/ Step(t) \/ Look(t) \/ Doze(t) \/ GoHome(t)
             \/ Rouse(t) \/ Far(t)
      PROVE  Goal
  <2>1. GoesOn(t) /\ UNCHANGED rewoken
    BY <1>3, HandlersGoOn
  <2>2. OneChain' /\ \A u \in Threads : InChain(u)' <=> InChain(u)
    BY <1>0, <2>1, ChainKept
  <2>3. \A u \in Threads : InChain(u) => u = t
    BY <1>0, <2>1 DEF OneChain, GoesOn
  <2>4. \A u \in Threads : At(u, "lookup")' => u = t
    BY <2>2, <2>3 DEF At, InChain, Handler
  <2>5. At(t, "lookup")' => target' # NoPlayer
    <3> USE DEF At, Goto, TypeOK
    <3>1. CASE BeginWanderer(t)
      BY <3>1 DEF BeginWanderer
    <3>2. CASE LookUp(t)
      BY <3>2, <1>0, <2>1 DEF LookUp, flags
    <3>3. CASE BeginReturning(t) \/ BeginHunter(t) \/ Forget(t)
      BY <3>3 DEF BeginReturning, BeginHunter, Forget
    <3>4. CASE Follow(t) \/ FollowNot(t) \/ CanMove(t)
      BY <3>4 DEF Follow, FollowNot, CanMove
    <3>5. CASE Step(t) \/ Look(t) \/ Doze(t) \/ GoHome(t) \/ Rouse(t)
               \/ Far(t)
      BY <3>5 DEF Step, Look, Doze, GoHome, Rouse, Far
    <3> QED BY <1>3, <3>1, <3>2, <3>3, <3>4, <3>5
  <2>6. ~badIndex'
    BY <1>3, <1>0, <2>1 DEF BeginReturning, BeginWanderer, BeginHunter, LookUp,
       Forget, Follow, FollowNot, CanMove, Step, Look, Doze, GoHome, Rouse,
       Far, hist
  <2> QED BY <2>2, <2>4, <2>5, <2>6
<1>4. ASSUME NEW t \in Threads, Push(t) \/ Rest(t) \/ PostAwake(t) PROVE Goal
  <2>1. /\ InChain(t) /\ ~InChain(t)' /\ ~At(t, "lookup")'
        /\ \A u \in Threads \ {t} : pc'[u] = pc[u]
        /\ Queued' = Queued + 1 \/ Queued' = Queued
        /\ UNCHANGED <<target, badIndex, rewoken>>
    BY <1>4, LeavesOne
  <2>2. OneChain /\ Queued = 0 /\ \A u \in Threads : InChain(u) => u = t
    BY <1>0, <1>q, <2>1 DEF OneChain
  <2>3. \A u \in Threads : ~InChain(u)'
    BY <2>1, <2>2 DEF InChain
  <2>4. OneChain'
    BY <2>1, <2>2, <2>3 DEF OneChain
  <2> QED BY <1>0, <2>1, <2>4 DEF At
<1>5. ASSUME NEW t \in Threads,
             ComeNear(t) \/ Attack(t) \/ Hurt(t) \/ Blow(t)
      PROVE  Goal
  <2>1. /\ Aside(t) /\ UNCHANGED <<rewoken, badIndex>>
        /\ target' # target => target' \in Players
        /\ ~At(t, "lookup")'
    BY <1>5, PlayersStandAside
  <2>2. OneChain'
    BY <1>0, <2>1, ChainKept
  <2> QED BY <1>0, <2>1, <2>2, NoPlayerAssumption DEF Aside, At
<1>6. ASSUME NEW t \in Threads, WakeUp(t) PROVE Goal
  <2>1. /\ ~rewoken
        /\ UNCHANGED <<timer, moves, awakes, target, badIndex>>
        /\ \A u \in Threads \ {t} : pc'[u] = pc[u]
        /\ ~At(t, "lookup")'
    BY <1>6 DEF WakeUp, At, Goto, TypeOK, chain
  <2>2. OneChain'
    <3>1. CASE sleep
      <4>1. Queued = 0 /\ \A u \in Threads : ~InChain(u)
        BY <1>6, <3>1, NoChains DEF WakeUp
      <4>2. Queued' = 0 /\ \A u \in Threads \ {t} : ~InChain(u)'
        BY <2>1, <4>1 DEF Queued, InChain
      <4> QED BY <4>2 DEF OneChain
    <3>2. CASE ~sleep
      <4>1. Aside(t)
        BY <1>6, <3>2 DEF WakeUp, Aside, InChain, Handler, At, Goto, TypeOK,
           chain
      <4> QED BY <1>0, <2>1, <4>1, ChainKept
    <3> QED BY <3>1, <3>2
  <2> QED BY <1>0, <2>1, <2>2 DEF At
<1>7. CASE UNCHANGED vars
  BY <1>7, <1>0 DEF vars, flags, chain, regs, hist, OneChain, Queued, InChain,
     At
<1> QED
  BY <1>1, <1>2, <1>3, <1>4, <1>5, <1>6, <1>7 DEF Next, Handle

\* Every reachable state satisfies the inductive invariant.
THEOREM Invariant == Spec => []IInv
<1>1. Init => IInv
  BY InitInv
<1>2. IInv /\ [Next]_vars => IInv'
  BY StepType, StepAwake, StepAlone DEF IInv
<1> QED BY <1>1, <1>2, PTL DEF Spec

\* The variables of a monster keep their types.
THEOREM TypeCorrect == Spec => []TypeOK
<1>1. IInv => TypeOK
  BY DEF IInv
<1> QED BY <1>1, Invariant, PTL

\* A monster that is awake and alive is never left without a chain.
THEOREM AwakeMonsterHasChain == Spec => []AwakeHasChain
<1>1. IInv => AwakeHasChain
  BY DEF IInv
<1> QED BY <1>1, Invariant, PTL

\* A second chain, and the lookup of the player with the id -1, come only
\* from a player that woke the monster while its first chain was running.
THEOREM SecondChainFromWalker == Spec => []SecondChainNeedsWalker
<1>1. IInv => SecondChainNeedsWalker
  BY OneChainCounts DEF IInv, Alone, SecondChainNeedsWalker
<1> QED BY <1>1, Invariant, PTL

=============================================================================
