----------------------------- MODULE BlockPool -----------------------------
(***************************************************************************)
(* What the recycling of control blocks promises: a block is in one place. *)
(* Whoever needs a block takes one that was given back, or a new one; a    *)
(* block is given back by whoever has it, and may then be lost.            *)
(***************************************************************************)
CONSTANT Blocks     \* the control blocks the program may create

VARIABLES
    made,   \* blocks created so far
    free,   \* blocks given back, that can be taken again
    out     \* blocks in use

bpVars == <<made, free, out>>

BPInit == made = {} /\ free = {} /\ out = {}

New(b) ==
    /\ b \notin made
    /\ made' = made \cup {b}
    /\ out' = out \cup {b}
    /\ UNCHANGED free

Take(b) ==
    /\ b \in free
    /\ free' = free \ {b}
    /\ out' = out \cup {b}
    /\ UNCHANGED made

Give(b) ==
    /\ b \in out
    /\ out' = out \ {b}
    /\ free' = free \cup {b}
    /\ UNCHANGED made

Lose(b) ==
    /\ b \in out
    /\ out' = out \ {b}
    /\ UNCHANGED <<made, free>>

BPNext == \E b \in Blocks : New(b) \/ Take(b) \/ Give(b) \/ Lose(b)

BPSpec == BPInit /\ [][BPNext]_bpVars
=============================================================================
