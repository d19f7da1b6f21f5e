----------------------------- MODULE TimedEvents -----------------------------
(***************************************************************************)
(* What a timer promises to those who push events into it: an event fires  *)
(* exactly once, never before its time, and, once its time has come,       *)
(* eventually.  Nothing is promised about the order of two events whose    *)
(* times have both come.                                                   *)
(***************************************************************************)
EXTENDS Naturals

CONSTANTS
    Events,     \* the events that may be pushed
    Delays,     \* how far ahead an event may be set
    Unset,      \* the time of an event that was not pushed
    Horizon     \* bound: the clock stops here

VARIABLES
    now,        \* the clock
    due,        \* the time of each event
    fired       \* how often each event fired

vars == <<now, due, fired>>

Init ==
    /\ now = 0
    /\ due = [e \in Events |-> Unset]
    /\ fired = [e \in Events |-> 0]

Tick ==
    /\ now < Horizon
    /\ now' = now + 1
    /\ UNCHANGED <<due, fired>>

\* An event whose time lies beyond the bound of the clock is not pushed.
Push(e, d) ==
    /\ due[e] = Unset
    /\ now + d < Horizon
    /\ due' = [due EXCEPT ![e] = now + d]
    /\ UNCHANGED <<now, fired>>

Fire(e) ==
    /\ due[e] # Unset
    /\ due[e] <= now
    /\ fired[e] = 0
    /\ fired' = [fired EXCEPT ![e] = 1]
    /\ UNCHANGED <<now, due>>

Next ==
    \/ Tick
    \/ \E e \in Events, d \in Delays : Push(e, d)
    \/ \E e \in Events : Fire(e)

Spec == Init /\ [][Next]_vars

FairSpec == Spec /\ WF_vars(Tick) /\ \A e \in Events : WF_vars(Fire(e))

=============================================================================
