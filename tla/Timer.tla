-------------------------------- MODULE Timer --------------------------------
(***************************************************************************)
(* The timer of the monsters.  The handlers push events into a concurrent  *)
(* priority queue that all timer threads share.  A timer thread that pops  *)
(* an event whose time has not come keeps it in a priority queue of its    *)
(* own, where no other thread sees it; an event whose time has come is     *)
(* posted to the completion port.  A priority queue is a set from which    *)
(* one of the earliest events is taken; each read of the clock is a step.  *)
(***************************************************************************)
EXTENDS Naturals

CONSTANTS
    Threads,    \* the timer threads
    Events,     \* the events the handlers push
    Delays,     \* S_TIME_UPDATE_OBJECT_MOVE and the cool times of the monsters
    Unset,      \* the time of an event that was not pushed
    Horizon,    \* bound: the clock stops here
    NoEvent     \* ret_ev before anything was popped

ASSUME NoEventAssumption == NoEvent \notin Events
ASSUME DelaysAssumption == Delays \subseteq Nat
ASSUME UnsetAssumption == Unset \notin Nat
ASSUME HorizonAssumption == Horizon \in Nat

VARIABLES
    now,        \* high_resolution_clock::now()
    due,        \* EVENT::process_time
    posted,     \* completions posted to the port for each event
    shared,     \* Timer_Manager::concurrent_queue
    local,      \* local_priority_queue of each thread
    hand,       \* ret_ev, then new_event of each thread
    pc          \* where each thread stands: in front of the top of its local
                \* queue, of try_pop, of the test of what it popped, of the
                \* post, or asleep

vars == <<now, due, posted, shared, local, hand, pc>>

Places == {"top", "try", "test", "post", "asleep"}

Earliest(S) == {e \in S : \A f \in S : due[e] <= due[f]}

Init ==
    /\ now = 0
    /\ due = [e \in Events |-> Unset]
    /\ posted = [e \in Events |-> 0]
    /\ shared = {}
    /\ local = [t \in Threads |-> {}]
    /\ hand = [t \in Threads |-> NoEvent]
    /\ pc = [t \in Threads |-> "top"]

-----------------------------------------------------------------------------
(* The rest of the server *)

Tick ==
    /\ now < Horizon
    /\ now' = now + 1
    /\ UNCHANGED <<due, posted, shared, local, hand, pc>>

\* Push_Event_Monster_Move and Push_Event_Monster_Move_Start, for an event
\* the clock will still reach.
Push(e, d) ==
    /\ due[e] = Unset
    /\ now + d < Horizon
    /\ due' = [due EXCEPT ![e] = now + d]
    /\ shared' = shared \cup {e}
    /\ UNCHANGED <<now, posted, local, hand, pc>>

-----------------------------------------------------------------------------
(* Process and Pop, by timer thread t *)

Goto(t, place) == pc' = [pc EXCEPT ![t] = place]

\* Bug variant: the top is returned and never popped.
PopLocalKeepsTop(t) ==
    /\ pc[t] = "top"
    /\ \E e \in Earliest(local[t]) :
        /\ due[e] < now
        /\ hand' = [hand EXCEPT ![t] = e]
    /\ Goto(t, "post")
    /\ UNCHANGED <<now, due, posted, shared, local>>

\* The top of the local queue is returned if its time lies strictly before
\* the clock.
PopLocal(t) ==
    /\ pc[t] = "top"
    /\ \E e \in Earliest(local[t]) :
        /\ due[e] < now
        /\ hand' = [hand EXCEPT ![t] = e]
        /\ local' = [local EXCEPT ![t] = @ \ {e}]
    /\ Goto(t, "post")
    /\ UNCHANGED <<now, due, posted, shared>>

LocalNotDue(t) ==
    /\ pc[t] = "top"
    /\ \A e \in Earliest(local[t]) : ~(due[e] < now)
    /\ Goto(t, "try")
    /\ UNCHANGED <<now, due, posted, shared, local, hand>>

TryPop(t) ==
    /\ pc[t] = "try"
    /\ \E e \in Earliest(shared) :
        /\ hand' = [hand EXCEPT ![t] = e]
        /\ shared' = shared \ {e}
    /\ Goto(t, "test")
    /\ UNCHANGED <<now, due, posted, local>>

\* Nothing to pop: the thread sleeps for ten milliseconds.
TryPopFails(t) ==
    /\ pc[t] = "try"
    /\ shared = {}
    /\ Goto(t, "asleep")
    /\ UNCHANGED <<now, due, posted, shared, local, hand>>

\* Bug variant: after its sleep the thread looks at the shared queue only.
WakesAtShared(t) ==
    /\ pc[t] = "asleep"
    /\ Goto(t, "try")
    /\ UNCHANGED <<now, due, posted, shared, local, hand>>

Wakes(t) ==
    /\ pc[t] = "asleep"
    /\ Goto(t, "top")
    /\ UNCHANGED <<now, due, posted, shared, local, hand>>

\* Its time has not come: into the local queue, and continue.
Keep(t) ==
    /\ pc[t] = "test"
    /\ now < due[hand[t]]
    /\ local' = [local EXCEPT ![t] = @ \cup {hand[t]}]
    /\ hand' = [hand EXCEPT ![t] = NoEvent]
    /\ Goto(t, "top")
    /\ UNCHANGED <<now, due, posted, shared>>

Return(t) ==
    /\ pc[t] = "test"
    /\ ~(now < due[hand[t]])
    /\ Goto(t, "post")
    /\ UNCHANGED <<now, due, posted, shared, local, hand>>

\* Process: post the completion of the monster, delete the detail.  (The
\* monster is always found: no monster ever leaves the table of objects.)
Post(t) ==
    /\ pc[t] = "post"
    /\ posted' = [posted EXCEPT ![hand[t]] = @ + 1]
    /\ hand' = [hand EXCEPT ![t] = NoEvent]
    /\ Goto(t, "top")
    /\ UNCHANGED <<now, due, shared, local>>

Thread(t) ==
    \/ PopLocal(t) \/ LocalNotDue(t) \/ TryPop(t) \/ TryPopFails(t)
    \/ Wakes(t) \/ Keep(t) \/ Return(t) \/ Post(t)

Next ==
    \/ Tick
    \/ \E e \in Events, d \in Delays : Push(e, d)
    \/ \E t \in Threads : Thread(t)

Spec == Init /\ [][Next]_vars

\* The clock goes on and the operating system runs every thread; nobody has
\* to push.
FairSpec ==
    /\ Spec
    /\ WF_vars(Tick)
    /\ \A t \in Threads : WF_vars(Thread(t))

-----------------------------------------------------------------------------
(* Properties *)

Types ==
    /\ now \in Nat
    /\ due \in [Events -> Nat \cup {Unset}]
    /\ posted \in [Events -> Nat]
    /\ shared \subseteq Events
    /\ local \in [Threads -> SUBSET Events]
    /\ hand \in [Threads -> Events \cup {NoEvent}]
    /\ pc \in [Threads -> Places]

Holds(t, e) == e \in local[t] \/ hand[t] = e

\* An event that was pushed and not posted yet is in exactly one place: in the
\* shared queue, in the local queue of one thread or in one thread's hand; an
\* event that was posted, or was never pushed, is in none (Pop moves events between
\* three containers without a lock that covers two of them).
OnePlace ==
    /\ Types
    /\ \A t \in Threads : pc[t] \in {"test", "post"} <=> hand[t] # NoEvent
    /\ \A e \in Events :
        LET in == (e \in shared) \/ \E t \in Threads : Holds(t, e)
        IN  /\ in <=> due[e] # Unset /\ posted[e] = 0
            /\ due[e] = Unset => posted[e] = 0
    /\ \A e \in Events, t \in Threads :
        Holds(t, e) =>
            /\ e \notin shared
            /\ ~(e \in local[t] /\ hand[t] = e)
            /\ \A u \in Threads \ {t} : ~Holds(u, e)

\* Two queues and many threads keep the promise of one timer: no event fires
\* early or twice, none is lost in a local queue, and each fires eventually.
Promise == INSTANCE TimedEvents WITH fired <- posted
KeepsTime == Promise!FairSpec

=============================================================================
