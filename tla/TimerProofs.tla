----------------------------- MODULE TimerProofs -----------------------------
(***************************************************************************)
(* The timer keeps the safety part of its promise, for any number of       *)
(* threads and events: every event that is still owed is in one place, and *)
(* every step is a step, or a stutter, of TimedEvents.                     *)
(***************************************************************************)
EXTENDS Timer, TLAPS

\* What a thread is about to post is due, by the read of the clock it made.
PostsDue == \A t \in Threads : pc[t] = "post" => due[hand[t]] <= now

IInv == OnePlace /\ PostsDue

USE NoEventAssumption, DelaysAssumption, UnsetAssumption, HorizonAssumption

\* The timer starts empty.
LEMMA InitInv == Init => IInv
BY DEF Init, IInv, OnePlace, Types, Places, Holds, PostsDue

\* A popped event is the event of its thread, known to the clock.
LEMMA HandHasTime ==
    ASSUME OnePlace, NEW t \in Threads, hand[t] # NoEvent
    PROVE  /\ hand[t] \in Events
           /\ due[hand[t]] \in Nat
           /\ posted[hand[t]] = 0
BY DEF OnePlace, Types, Holds

\* Every action moves an event from one place to the next.
LEMMA StepInv == IInv /\ [Next]_vars => IInv'
<1> SUFFICES ASSUME IInv, [Next]_vars PROVE IInv'
  OBVIOUS
<1> USE DEF IInv
<1>1. CASE Tick
  BY <1>1 DEF Tick, OnePlace, Types, Holds, PostsDue
<1>2. ASSUME NEW e \in Events, NEW d \in Delays, Push(e, d) PROVE IInv'
  <2>1. Types'
    BY <1>2 DEF Push, OnePlace, Types
  <2>2. \A t \in Threads : ~Holds(t, e)
    BY <1>2 DEF Push, OnePlace
  <2>a. \A f \in Events, t \in Threads : Holds(t, f)' <=> Holds(t, f)
    BY <1>2 DEF Push, Holds
  <2>b. /\ now + d # Unset /\ due[e] = Unset /\ posted[e] = 0
        /\ e \notin shared
    <3>1. now + d \in Nat /\ due[e] = Unset
      BY <1>2 DEF Push, OnePlace, Types
    <3>2. posted[e] = 0
      BY <1>2 DEF Push, OnePlace
    <3> QED BY <3>1, <3>2 DEF OnePlace
  <2>3. OnePlace'
    BY <1>2, <2>1, <2>2, <2>a, <2>b DEF Push, OnePlace, Types
  <2>4. \A t \in Threads : pc[t] = "post" => hand[t] # e
    BY <2>2 DEF Holds
  <2>5. PostsDue'
    BY <1>2, <2>4 DEF Push, PostsDue, OnePlace, Types
  <2> QED BY <2>3, <2>5
<1>3. ASSUME NEW t \in Threads, PopLocal(t) PROVE IInv'
  <2>1. PICK e \in Earliest(local[t]) :
            /\ due[e] < now
            /\ hand' = [hand EXCEPT ![t] = e]
            /\ local' = [local EXCEPT ![t] = @ \ {e}]
    BY <1>3 DEF PopLocal
  <2>2. e \in local[t] /\ e \in Events /\ due[e] \in Nat /\ hand[t] = NoEvent
    BY <1>3, <2>1 DEF Earliest, OnePlace, Types, PopLocal, Holds
  <2>3. /\ UNCHANGED <<now, due, posted, shared>>
        /\ pc' = [pc EXCEPT ![t] = "post"]
    BY <1>3 DEF PopLocal, Goto
  <2>4. Types'
    BY <2>1, <2>2, <2>3 DEF OnePlace, Types, Places
  <2>5. \A f \in Events, u \in Threads : Holds(u, f)' <=> Holds(u, f)
    BY <2>1, <2>2, <2>3 DEF OnePlace, Types, Holds
  <2>6. \A f \in Events : ~(f \in local'[t] /\ hand'[t] = f)
    BY <2>1, <2>2 DEF OnePlace, Types
  <2>7. \A u \in Threads : u # t => local'[u] = local[u] /\ hand'[u] = hand[u]
    BY <2>1, <2>2 DEF OnePlace, Types
  <2>8. OnePlace'
    BY <2>1, <2>2, <2>3, <2>4, <2>5, <2>6, <2>7
    DEF OnePlace, Types
  <2>9. PostsDue'
    BY <2>1, <2>2, <2>3, <2>7 DEF PostsDue, OnePlace, Types
  <2> QED BY <2>8, <2>9
<1>4. ASSUME NEW t \in Threads, LocalNotDue(t) PROVE IInv'
  BY <1>4 DEF LocalNotDue, Goto, OnePlace, Types, Places, Holds, PostsDue
<1>5. ASSUME NEW t \in Threads, TryPop(t) PROVE IInv'
  <2>1. PICK e \in Earliest(shared) :
            /\ hand' = [hand EXCEPT ![t] = e]
            /\ shared' = shared \ {e}
    BY <1>5 DEF TryPop
  <2>2. e \in shared /\ e \in Events /\ hand[t] = NoEvent
    BY <1>5, <2>1 DEF Earliest, OnePlace, Types, TryPop
  <2>3. /\ UNCHANGED <<now, due, posted, local>>
        /\ pc' = [pc EXCEPT ![t] = "test"]
    BY <1>5 DEF TryPop, Goto
  <2>4. Types'
    BY <2>1, <2>2, <2>3 DEF OnePlace, Types, Places
  <2>5. \A u \in Threads : u # t => hand'[u] = hand[u]
    BY <2>1, <2>2 DEF OnePlace, Types
  <2>6. \A u \in Threads : ~Holds(u, e)
    BY <2>2 DEF OnePlace
  <2>7. \A f \in Events, u \in Threads :
            Holds(u, f)' <=> Holds(u, f) \/ (u = t /\ f = e)
    BY <2>1, <2>2, <2>3, <2>5 DEF OnePlace, Types, Holds
  <2>8. OnePlace'
    BY <2>1, <2>2, <2>3, <2>4, <2>5, <2>6, <2>7 DEF OnePlace, Types, Holds
  <2>9. PostsDue'
    BY <2>1, <2>2, <2>3, <2>5 DEF PostsDue, OnePlace, Types
  <2> QED BY <2>8, <2>9
<1>6. ASSUME NEW t \in Threads, TryPopFails(t) PROVE IInv'
  BY <1>6 DEF TryPopFails, Goto, OnePlace, Types, Places, Holds, PostsDue
<1>7. ASSUME NEW t \in Threads, Wakes(t) PROVE IInv'
  BY <1>7 DEF Wakes, Goto, OnePlace, Types, Places, Holds, PostsDue
<1>8. ASSUME NEW t \in Threads, Keep(t) PROVE IInv'
  <2> DEFINE e == hand[t]
  <2>1. e # NoEvent /\ e \in Events
    BY <1>8 DEF Keep, OnePlace, Types
  <2>2. /\ local' = [local EXCEPT ![t] = @ \cup {e}]
        /\ hand' = [hand EXCEPT ![t] = NoEvent]
        /\ UNCHANGED <<now, due, posted, shared>>
        /\ pc' = [pc EXCEPT ![t] = "top"]
    BY <1>8 DEF Keep, Goto
  <2>3. Types'
    BY <2>1, <2>2 DEF OnePlace, Types, Places
  <2>4. \A f \in Events, u \in Threads : Holds(u, f)' <=> Holds(u, f)
    BY <2>1, <2>2 DEF OnePlace, Types, Holds
  <2>5. OnePlace'
    BY <2>1, <2>2, <2>3, <2>4 DEF OnePlace, Types
  <2>6. PostsDue'
    BY <2>2 DEF PostsDue, OnePlace, Types
  <2> QED BY <2>5, <2>6
<1>9. ASSUME NEW t \in Threads, Return(t) PROVE IInv'
  <2>1. due[hand[t]] \in Nat /\ now \in Nat
    BY <1>9, HandHasTime DEF Return, OnePlace, Types
  <2>2. OnePlace'
    BY <1>9 DEF Return, Goto, OnePlace, Types, Places, Holds
  <2>3. PostsDue'
    BY <1>9, <2>1 DEF Return, Goto, PostsDue, OnePlace, Types
  <2> QED BY <2>2, <2>3
<1>10. ASSUME NEW t \in Threads, Post(t) PROVE IInv'
  <2> DEFINE e == hand[t]
  <2>1. e # NoEvent /\ e \in Events /\ posted[e] = 0 /\ Holds(t, e)
    BY <1>10, HandHasTime DEF Post, OnePlace, Types, Holds
  <2>2. /\ posted' = [posted EXCEPT ![e] = 1]
        /\ hand' = [hand EXCEPT ![t] = NoEvent]
        /\ UNCHANGED <<now, due, shared, local>>
        /\ pc' = [pc EXCEPT ![t] = "top"]
    BY <1>10, <2>1 DEF Post, Goto, OnePlace, Types
  <2>3. Types'
    BY <2>1, <2>2 DEF OnePlace, Types, Places
  <2>4. \A f \in Events, u \in Threads :
            Holds(u, f)' <=> Holds(u, f) /\ f # e
    BY <2>1, <2>2 DEF OnePlace, Types, Holds
  <2>5. e \notin shared
    BY <2>1 DEF OnePlace
  <2>6. OnePlace'
    BY <2>1, <2>2, <2>3, <2>4, <2>5 DEF OnePlace, Types
  <2>7. PostsDue'
    BY <2>2 DEF PostsDue, OnePlace, Types
  <2> QED BY <2>6, <2>7
<1>11. CASE UNCHANGED vars
  BY <1>11 DEF vars, OnePlace, Types, Holds, PostsDue
<1> QED
  BY <1>1, <1>2, <1>3, <1>4, <1>5, <1>6, <1>7, <1>8, <1>9, <1>10, <1>11
  DEF Next, Thread

\* Every reachable state satisfies the inductive invariant.
THEOREM Invariant == Spec => []IInv
<1>1. Init => IInv
  BY InitInv
<1>2. IInv /\ [Next]_vars => IInv'
  BY StepInv
<1> QED BY <1>1, <1>2, PTL DEF Spec

\* An event that is still owed is in one place, an event that was posted in
\* none: Pop neither loses nor copies an event.
THEOREM EventInOnePlace == Spec => []OnePlace
<1>1. IInv => OnePlace
  BY DEF IInv
<1> QED BY <1>1, Invariant, PTL

\* The timer with its two kinds of queues implements the simple timer: an
\* event is posted once at most and never before its time.
THEOREM TimerImplements == Spec => Promise!Spec
<1>1. Init => Promise!Init
  BY DEF Init, Promise!Init
<1>2. IInv /\ [Next]_vars => [Promise!Next]_Promise!vars
  <2> SUFFICES ASSUME IInv, [Next]_vars PROVE [Promise!Next]_Promise!vars
    OBVIOUS
  <2>1. CASE Tick
    BY <2>1 DEF Tick, Promise!Tick, Promise!Next
  <2>2. ASSUME NEW e \in Events, NEW d \in Delays, Push(e, d)
        PROVE  Promise!Next
    BY <2>2 DEF Push, Promise!Push, Promise!Next
  <2>3. ASSUME NEW t \in Threads, Post(t) PROVE Promise!Next
    <3>1. /\ hand[t] \in Events /\ due[hand[t]] \in Nat
          /\ posted[hand[t]] = 0
      BY <2>3, HandHasTime DEF Post, IInv, OnePlace
    <3>2. due[hand[t]] <= now
      BY <2>3 DEF Post, IInv, PostsDue
    <3>3. Promise!Fire(hand[t])
      BY <2>3, <3>1, <3>2 DEF Post, Promise!Fire, IInv, OnePlace, Types
    <3> QED BY <3>1, <3>3 DEF Promise!Next
  <2>4. ASSUME NEW t \in Threads, Thread(t), ~Post(t)
        PROVE  UNCHANGED Promise!vars
    BY <2>4 DEF Thread, PopLocal, LocalNotDue, TryPop, TryPopFails, Wakes,
                Keep, Return, Promise!vars
  <2>5. CASE UNCHANGED vars
    BY <2>5 DEF vars, Promise!vars
  <2> QED BY <2>1, <2>2, <2>3, <2>4, <2>5 DEF Next
<1> QED BY <1>1, <1>2, Invariant, PTL DEF Spec, Promise!Spec

=============================================================================
