----------------------------- MODULE Ownership -----------------------------
(***************************************************************************)
(* What shared pointers promise: slots and copies own players.  A player   *)
(* goes to the slot it was built for.  A copy that is asked of a slot gets *)
(* what that slot owns at one moment, and keeps it whatever happens to the *)
(* slot; a copy of a copy gets the same player.  A player is deleted once, *)
(* after its last owner is gone.                                           *)
(***************************************************************************)
CONSTANTS
    Slots,      \* the shared pointers that are stored to
    Keepers,    \* the shared pointers that are copies
    Players,    \* what is owned
    Null

VARIABLES
    owner,      \* the player each slot owns, or Null
    kept,       \* the player each copy owns, or Null
    asked,      \* the slot each copy is being made of, or Null
    built,      \* players ever built
    pending,    \* players built and not yet stored, each with its slot
    alive       \* players not deleted

ownVars == <<owner, kept, asked, built, pending, alive>>

OwnInit ==
    /\ owner = [i \in Slots |-> Null]
    /\ kept = [k \in Keepers |-> Null]
    /\ asked = [k \in Keepers |-> Null]
    /\ built = {}
    /\ pending = {}
    /\ alive = {}

Build(i, p) ==
    /\ p \notin built
    /\ built' = built \cup {p}
    /\ pending' = pending \cup {<<i, p>>}
    /\ alive' = alive \cup {p}
    /\ UNCHANGED <<owner, kept, asked>>

\* The player stored replaces the one that was there.
Store(i, p) ==
    /\ <<i, p>> \in pending
    /\ pending' = pending \ {<<i, p>>}
    /\ owner' = [owner EXCEPT ![i] = p]
    /\ UNCHANGED <<kept, asked, built, alive>>

Clear(i) ==
    /\ owner' = [owner EXCEPT ![i] = Null]
    /\ UNCHANGED <<kept, asked, built, pending, alive>>

\* An empty copy is to be made of slot i ...
Ask(k, i) ==
    /\ kept[k] = Null /\ asked[k] = Null
    /\ asked' = [asked EXCEPT ![k] = i]
    /\ UNCHANGED <<owner, kept, built, pending, alive>>

\* ... and gets what that slot owns, be it nothing.
Keep(k, i) ==
    /\ asked[k] = i
    /\ asked' = [asked EXCEPT ![k] = Null]
    /\ kept' = [kept EXCEPT ![k] = owner[i]]
    /\ UNCHANGED <<owner, built, pending, alive>>

\* Copy k is made of copy j.
Share(k, j) ==
    /\ kept[k] = Null /\ asked[k] = Null
    /\ kept[j] # Null
    /\ kept' = [kept EXCEPT ![k] = kept[j]]
    /\ UNCHANGED <<owner, asked, built, pending, alive>>

Forget(k) ==
    /\ kept' = [kept EXCEPT ![k] = Null]
    /\ UNCHANGED <<owner, asked, built, pending, alive>>

Delete(p) ==
    /\ p \in alive
    /\ \A i \in Slots : owner[i] # p /\ <<i, p>> \notin pending
    /\ \A k \in Keepers : kept[k] # p
    /\ alive' = alive \ {p}
    /\ UNCHANGED <<owner, kept, asked, built, pending>>

OwnNext ==
    \/ \E i \in Slots :
        \/ Clear(i)
        \/ \E p \in Players : Build(i, p) \/ Store(i, p)
        \/ \E k \in Keepers : Ask(k, i) \/ Keep(k, i)
    \/ \E k \in Keepers : Forget(k) \/ \E j \in Keepers : Share(k, j)
    \/ \E p \in Players : Delete(p)

OwnSpec == OwnInit /\ [][OwnNext]_ownVars
=============================================================================
