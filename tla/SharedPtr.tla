----------------------------- MODULE SharedPtr -----------------------------
(***************************************************************************)
(* LF::shared_ptr as the server uses it: the slots of                      *)
(* Object_Manager::players own the players, Login stores a new one with    *)
(* make_shared and operator=, Logout stores nullptr, Get_Player and the    *)
(* vectors of near players copy.  Any thread may do any of these at any    *)
(* time, which is what the class is written for.                           *)
(*                                                                         *)
(* ref holds every counted reference to a control block: the slots, the    *)
(* copies, and those a thread has inside an operation.  A loop that reads  *)
(* a count and repeats until its compare-and-swap succeeds takes effect at *)
(* that swap and is one step; so is taking a block from the recycle list   *)
(* and giving it back, which is the module RecycleList.  Weak pointers to  *)
(* players are never made.                                                 *)
(***************************************************************************)
EXTENDS Naturals, FiniteSets

CONSTANTS Threads,
    Slots,      \* the ids of players, indices of players[]
    Copies,     \* the copies a thread may have at a time
    Blocks,     \* the control blocks the program may create
    Players,    \* the players it may create
    Null        \* a null pointer

\* The references a thread holds inside an operation: the shared_ptr that
\* make_shared returns, the count it has taken (get_ctr, other_ctr), and the
\* one it is about to release.
InCall == {"new", "got", "drop"}

Keepers == Threads \X Copies

Holders == Slots \cup (Threads \X (InCall \cup Copies))

ASSUME HoldersAssumption ==
    /\ Null \notin Blocks \cup Players \cup Slots \cup Copies
    /\ Slots \cap (Threads \X (InCall \cup Copies)) = {}
    /\ Copies \cap InCall = {}
    /\ IsFiniteSet(Threads) /\ IsFiniteSet(Slots) /\ IsFiniteSet(Copies)

VARIABLES
    ref,        \* the counted references, each to a block or Null
    use_count, weak_count, ptr,     \* the fields of each control block
    player,     \* state of each player
    made, free, \* blocks created so far; blocks the recycle list offers
    pc, slot,   \* place in an operation, and the slot it works on
    pred,       \* the block it looks at: pred, pred_ctr, new_ctr, this
    copy,       \* the copy it constructs
    built,      \* the player make_shared has built
    back        \* where release() returns to

counts  == <<use_count, weak_count, ptr, player, made, free>>
regs    == <<pc, slot, pred, copy, built, back>>
vars    == <<ref, counts, regs>>

Labels == {"idle", "alloc", "init", "count", "store", "share", "swap", "settle",
           "read", "add", "check", "clear", "null", "release", "delete", "recycle"}

\* References and registers are empty or hold what their name says.
TypeOK ==
    /\ ref \in [Holders -> Blocks \cup {Null}]
    /\ use_count \in [Blocks -> Nat]
    /\ weak_count \in [Blocks -> {0, 1}]
    /\ ptr \in [Blocks -> Players \cup {Null}]
    /\ player \in [Players -> {"unbuilt", "alive", "deleted"}]
    /\ made \subseteq Blocks
    /\ free \subseteq made
    /\ pc \in [Threads -> Labels]
    /\ slot \in [Threads -> Slots \cup {Null}]
    /\ pred \in [Threads -> Blocks \cup {Null}]
    /\ copy \in [Threads -> Copies \cup {Null}]
    /\ built \in [Threads -> Players \cup {Null}]
    /\ back \in [Threads -> {"idle", "store", "settle", "read"}]

Init ==
    /\ ref = [h \in Holders |-> Null]
    /\ use_count = [b \in Blocks |-> 0]
    /\ weak_count = [b \in Blocks |-> 0]
    /\ ptr = [b \in Blocks |-> Null]
    /\ player = [p \in Players |-> "unbuilt"]
    /\ made = {}
    /\ free = {}
    /\ pc = [t \in Threads |-> "idle"]
    /\ slot = [t \in Threads |-> Null]
    /\ pred = [t \in Threads |-> Null]
    /\ copy = [t \in Threads |-> Null]
    /\ built = [t \in Threads |-> Null]
    /\ back = [t \in Threads |-> "idle"]

Goto(t, label) == pc' = [pc EXCEPT ![t] = label]

Read(t, b) == pred' = [pred EXCEPT ![t] = b]

\* The operation is over.
Return(t) ==
    /\ Goto(t, "idle")
    /\ slot' = [slot EXCEPT ![t] = Null]
    /\ pred' = [pred EXCEPT ![t] = Null]
    /\ copy' = [copy EXCEPT ![t] = Null]
    /\ UNCHANGED <<built, back>>

\* Holder h becomes another reference to b.
AddUse(h, b) ==
    /\ ref' = [ref EXCEPT ![h] = b]
    /\ use_count' = [use_count EXCEPT ![b] = @ + 1]

\* The reference of h, if it is one, is to be released.
Release(t, h, label) ==
    /\ ref' = [ref EXCEPT ![<<t, "drop">>] = ref[h], ![h] = Null]
    /\ pred' = [pred EXCEPT ![t] = Null]
    /\ Goto(t, "release")
    /\ back' = [back EXCEPT ![t] = label]

-----------------------------------------------------------------------------
(* make_shared, and operator= with its result *)

\* The player is built ...
Login(t, i) ==
    /\ pc[t] = "idle"
    /\ \E p \in Players :
        /\ player[p] = "unbuilt"
        /\ player' = [player EXCEPT ![p] = "alive"]
        /\ built' = [built EXCEPT ![t] = p]
    /\ slot' = [slot EXCEPT ![t] = i]
    /\ Goto(t, "alloc")
    /\ UNCHANGED <<ref, use_count, weak_count, ptr, made, free, pred, copy, back>>

\* ... a control block taken from the recycle list or created ...
Alloc(t) ==
    /\ pc[t] = "alloc"
    /\ \E b \in Blocks :
        /\ \/ b \in free /\ free' = free \ {b} /\ UNCHANGED made
           \/ b \notin made /\ made' = made \cup {b} /\ UNCHANGED free
        /\ Read(t, b)
    /\ Goto(t, "init")
    /\ UNCHANGED <<ref, use_count, weak_count, ptr, player, slot, copy, built, back>>

\* ... and initialised, its pointer before its count.
InitPtr(t) ==
    /\ pc[t] = "init"
    /\ ptr' = [ptr EXCEPT ![pred[t]] = built[t]]
    /\ weak_count' = [weak_count EXCEPT ![pred[t]] = 1]
    /\ Goto(t, "count")
    /\ UNCHANGED <<ref, use_count, player, made, free, slot, pred, copy, built, back>>

InitCount(t) ==
    /\ pc[t] = "count"
    /\ use_count' = [use_count EXCEPT ![pred[t]] = 1]
    /\ ref' = [ref EXCEPT ![<<t, "new">>] = pred[t]]
    /\ Read(t, Null)
    /\ Goto(t, "store")
    /\ UNCHANGED <<weak_count, ptr, player, made, free, slot, copy, built, back>>

\* operator=: pred_ctr = ctr
StoreRead(t) ==
    /\ pc[t] = "store"
    /\ Read(t, ref[slot[t]])
    /\ Goto(t, "share")
    /\ UNCHANGED <<ref, counts, slot, copy, built, back>>

\* other_ctr = other.add_shared_copy(); only this thread knows other.
StoreShare(t) ==
    /\ pc[t] = "share"
    /\ AddUse(<<t, "got">>, ref[<<t, "new">>])
    /\ Goto(t, "swap")
    /\ UNCHANGED <<weak_count, ptr, player, made, free, slot, pred, copy, built, back>>

\* Bug variant: the count taken is not released after a failure.
StoreSwapForgotten(t) ==
    /\ pc[t] = "swap"
    /\ \/ /\ ref[slot[t]] = pred[t]
          /\ ref' = [ref EXCEPT ![slot[t]] = ref[<<t, "got">>],
                                ![<<t, "got">>] = Null,
                                ![<<t, "drop">>] = pred[t]]
          /\ built' = [built EXCEPT ![t] = Null]
          /\ Goto(t, IF pred[t] = Null THEN "settle" ELSE "release")
          /\ back' = [back EXCEPT ![t] = "settle"]
       \/ /\ ref[slot[t]] # pred[t]
          /\ ref' = [ref EXCEPT ![<<t, "got">>] = Null]
          /\ Goto(t, "store")
          /\ UNCHANGED <<built, back>>
    /\ Read(t, Null)
    /\ UNCHANGED <<counts, slot, copy>>

\* The compare-and-swap of the slot.  The block that was there is released;
\* after a failure the count just taken is, and the loop is repeated.
StoreSwap(t) ==
    /\ pc[t] = "swap"
    /\ \/ /\ ref[slot[t]] = pred[t]
          /\ ref' = [ref EXCEPT ![slot[t]] = ref[<<t, "got">>],
                                ![<<t, "got">>] = Null,
                                ![<<t, "drop">>] = pred[t]]
          /\ Read(t, Null)
          /\ built' = [built EXCEPT ![t] = Null]
          /\ Goto(t, IF pred[t] = Null THEN "settle" ELSE "release")
          /\ back' = [back EXCEPT ![t] = "settle"]
       \/ /\ ref[slot[t]] # pred[t]
          /\ Release(t, <<t, "got">>, "store")
          /\ UNCHANGED built
    /\ UNCHANGED <<counts, slot, copy>>

\* The result of make_shared is destroyed.
Settle(t) ==
    /\ pc[t] = "settle"
    /\ Release(t, <<t, "new">>, "idle")
    /\ UNCHANGED <<counts, slot, copy, built>>

-----------------------------------------------------------------------------
(* Copies *)

\* Get_Player copies a slot.
GetPlayer(t, i, k) ==
    /\ pc[t] = "idle"
    /\ ref[<<t, k>>] = Null
    /\ slot' = [slot EXCEPT ![t] = i]
    /\ copy' = [copy EXCEPT ![t] = k]
    /\ Goto(t, "read")
    /\ UNCHANGED <<ref, counts, pred, built, back>>

\* add_shared_copy: pred = ctr
CopyRead(t) ==
    /\ pc[t] = "read"
    /\ \/ ref[slot[t]] = Null /\ Return(t)
       \/ /\ ref[slot[t]] # Null
          /\ Read(t, ref[slot[t]])
          /\ Goto(t, "add")
          /\ UNCHANGED <<slot, copy, built, back>>
    /\ UNCHANGED <<ref, counts>>

\* Bug variant: a count of zero is increased like any other.
CopyAddZero(t) ==
    /\ pc[t] = "add"
    /\ AddUse(<<t, "got">>, pred[t])
    /\ Goto(t, "check")
    /\ UNCHANGED <<weak_count, ptr, player, made, free, slot, pred, copy, built, back>>

\* get_ctr = pred->add_use_count(), which may by now be in use for another
\* player, or be in no use at all.
CopyAdd(t) ==
    /\ pc[t] = "add"
    /\ \/ use_count[pred[t]] > 0 /\ AddUse(<<t, "got">>, pred[t])
       \/ use_count[pred[t]] = 0 /\ UNCHANGED <<ref, use_count>>
    /\ Goto(t, "check")
    /\ UNCHANGED <<weak_count, ptr, player, made, free, slot, pred, copy, built, back>>

\* Bug variant: the slot is not read again.
CopyUnchecked(t) ==
    /\ pc[t] = "check"
    /\ ref' = [ref EXCEPT ![<<t, copy[t]>>] = ref[<<t, "got">>], ![<<t, "got">>] = Null]
    /\ Return(t)
    /\ UNCHANGED counts

\* The slot is read again: what was counted must still be what it holds.
CopyCheck(t) ==
    /\ pc[t] = "check"
    /\ \/ /\ ref[<<t, "got">>] = ref[slot[t]]
          /\ ref' = [ref EXCEPT ![<<t, copy[t]>>] = ref[<<t, "got">>],
                                ![<<t, "got">>] = Null]
          /\ Return(t)
       \/ /\ ref[<<t, "got">>] # ref[slot[t]]
          /\ ref[<<t, "got">>] # Null
          /\ Release(t, <<t, "got">>, "read")
          /\ UNCHANGED <<slot, copy, built>>
       \/ /\ ref[<<t, "got">>] # ref[slot[t]]
          /\ ref[<<t, "got">>] = Null
          /\ Read(t, Null)
          /\ Goto(t, "read")
          /\ UNCHANGED <<ref, slot, copy, built, back>>
    /\ UNCHANGED counts

\* A copy is copied into a vector; only this thread knows either.
CopyCopy(t, j, k) ==
    /\ pc[t] = "idle"
    /\ ref[<<t, j>>] # Null
    /\ ref[<<t, k>>] = Null
    /\ AddUse(<<t, k>>, ref[<<t, j>>])
    /\ UNCHANGED <<weak_count, ptr, player, made, free, regs>>

\* A copy is destroyed.  (Nothing says that it ever is: copies of players in
\* sight are not deleted by the code.)
Destroy(t, k) ==
    /\ pc[t] = "idle"
    /\ ref[<<t, k>>] # Null
    /\ Release(t, <<t, k>>, "idle")
    /\ UNCHANGED <<counts, slot, copy, built>>

-----------------------------------------------------------------------------
(* Logout: operator= with nullptr *)

Logout(t, i) ==
    /\ pc[t] = "idle"
    /\ slot' = [slot EXCEPT ![t] = i]
    /\ Goto(t, "clear")
    /\ UNCHANGED <<ref, counts, pred, copy, built, back>>

ClearRead(t) ==
    /\ pc[t] = "clear"
    /\ \/ ref[slot[t]] = Null /\ Return(t)
       \/ /\ ref[slot[t]] # Null
          /\ Read(t, ref[slot[t]])
          /\ Goto(t, "null")
          /\ UNCHANGED <<slot, copy, built, back>>
    /\ UNCHANGED <<ref, counts>>

\* Bug variant: the slot is emptied without a compare-and-swap.
ClearBlind(t) ==
    /\ pc[t] = "null"
    /\ ref' = [ref EXCEPT ![<<t, "drop">>] = pred[t], ![slot[t]] = Null]
    /\ Read(t, Null)
    /\ Goto(t, "release")
    /\ back' = [back EXCEPT ![t] = "idle"]
    /\ UNCHANGED <<counts, slot, copy, built>>

ClearSwap(t) ==
    /\ pc[t] = "null"
    /\ \/ /\ ref[slot[t]] = pred[t]
          /\ Release(t, slot[t], "idle")
       \/ /\ ref[slot[t]] # pred[t]
          /\ Read(t, Null)
          /\ Goto(t, "clear")
          /\ UNCHANGED <<ref, back>>
    /\ UNCHANGED <<counts, slot, copy, built>>

-----------------------------------------------------------------------------
(* release() and destroy() of a control block *)

\* The operation goes on after its release().
Resume(t) ==
    /\ Goto(t, back[t])
    /\ pred' = [pred EXCEPT ![t] = Null]
    /\ back' = [back EXCEPT ![t] = "idle"]
    /\ IF back[t] = "idle"
           THEN /\ slot' = [slot EXCEPT ![t] = Null]
                /\ copy' = [copy EXCEPT ![t] = Null]
           ELSE UNCHANGED <<slot, copy>>

\* Bug variant: the count before the decrease is taken for the one after it.
ReleaseCountLate(t) ==
    /\ pc[t] = "release"
    /\ LET b == ref[<<t, "drop">>] IN
       /\ use_count' = [use_count EXCEPT ![b] = @ - 1]
       /\ ref' = [ref EXCEPT ![<<t, "drop">>] = Null]
       /\ \/ /\ use_count[b] = 0
             /\ Read(t, b)
             /\ Goto(t, "delete")
             /\ UNCHANGED <<slot, copy, back>>
          \/ use_count[b] # 0 /\ Resume(t)
    /\ UNCHANGED <<weak_count, ptr, player, made, free, built>>

\* The count is decreased; whoever takes it from 1 to 0 destroys.
ReleaseCount(t) ==
    /\ pc[t] = "release"
    /\ LET b == ref[<<t, "drop">>] IN
       /\ use_count' = [use_count EXCEPT ![b] = @ - 1]
       /\ ref' = [ref EXCEPT ![<<t, "drop">>] = Null]
       /\ \/ /\ use_count[b] = 1
             /\ Read(t, b)
             /\ Goto(t, "delete")
             /\ UNCHANGED <<slot, copy, back>>
          \/ use_count[b] # 1 /\ Resume(t)
    /\ UNCHANGED <<weak_count, ptr, player, made, free, built>>

\* delete ptr
DeletePlayer(t) ==
    /\ pc[t] = "delete"
    /\ player' = [player EXCEPT ![ptr[pred[t]]] = "deleted"]
    /\ Goto(t, "recycle")
    /\ UNCHANGED <<ref, use_count, weak_count, ptr, made, free, slot, pred, copy,
                   built, back>>

\* weak_count goes from 1 to 0 and the block to the list, which may lose it.
Recycle(t) ==
    /\ pc[t] = "recycle"
    /\ weak_count[pred[t]] = 1
    /\ weak_count' = [weak_count EXCEPT ![pred[t]] = 0]
    /\ free' \in {free, free \cup {pred[t]}}
    /\ Resume(t)
    /\ UNCHANGED <<ref, use_count, ptr, player, made, built>>

-----------------------------------------------------------------------------

LoginStep(t) ==
    \/ \E i \in Slots : Login(t, i)
    \/ Alloc(t) \/ InitPtr(t) \/ InitCount(t)
    \/ StoreRead(t) \/ StoreShare(t) \/ StoreSwap(t) \/ Settle(t)

CopyStep(t) ==
    \/ \E i \in Slots, k \in Copies : GetPlayer(t, i, k)
    \/ \E j, k \in Copies : CopyCopy(t, j, k)
    \/ \E k \in Copies : Destroy(t, k)
    \/ CopyRead(t) \/ CopyAdd(t) \/ CopyCheck(t)

LogoutStep(t) == (\E i \in Slots : Logout(t, i)) \/ ClearRead(t) \/ ClearSwap(t)

ReleaseStep(t) == ReleaseCount(t) \/ DeletePlayer(t) \/ Recycle(t)

Next == \E t \in Threads : LoginStep(t) \/ CopyStep(t) \/ LogoutStep(t) \/ ReleaseStep(t)

Spec == Init /\ [][Next]_vars

-----------------------------------------------------------------------------
(* Properties *)

\* Between its creation and its recycling a control block counts the
\* references to it exactly, in whatever order threads copy, store and
\* release: none is counted twice or forgotten.
CountsReferences ==
    \A b \in Blocks : use_count[b] = Cardinality({h \in Holders : ref[h] = b})

\* Who holds a counted reference holds a living player; and no two blocks in
\* use name the same player, which would be deleted twice.
ReferencesAlive ==
    \A h \in Holders : ref[h] # Null =>
        /\ ptr[ref[h]] # Null
        /\ player[ptr[ref[h]]] = "alive"
        /\ \A g \in Holders :
            ref[g] # Null /\ ptr[ref[g]] = ptr[ref[h]] => ref[g] = ref[h]

\* A living player is referred to, or about to be: by the thread that builds
\* it or by the one that deletes it.  (release() of the last reference and
\* destroy() are apart; a player skipped there would never be deleted.)
PlayerNotForgotten ==
    \A p \in Players : player[p] = "alive" =>
        \/ \E h \in Holders : ref[h] # Null /\ ptr[ref[h]] = p
        \/ \E t \in Threads : built[t] = p
        \/ \E t \in Threads : pc[t] = "delete" /\ ptr[pred[t]] = p

Pointee(h) == IF ref[h] = Null THEN Null ELSE ptr[ref[h]]

\* The slot that the copy k of thread t is being made of.
Asked(t, k) == IF copy[t] = k THEN slot[t] ELSE Null

Own == INSTANCE Ownership WITH
    owner   <- [i \in Slots |-> Pointee(i)],
    kept    <- [k \in Keepers |-> Pointee(k)],
    asked   <- [k \in Keepers |-> Asked(k[1], k[2])],
    built   <- {p \in Players : player[p] # "unbuilt"},
    pending <- {<<slot[t], built[t]>> : t \in {u \in Threads : built[u] # Null}},
    alive   <- {p \in Players : player[p] = "alive"}

\* Slots and copies own players as if each operation were one step.  A copy gets
\* what the slot it was asked of owns at the moment that slot is read again,
\* and never the player that another slot got with a recycled block.
KeepsOwnership == Own!OwnSpec

\* A thread works on block b between the recycle list and its count.
Preparing(t, b) == pc[t] \in {"init", "count", "delete", "recycle"} /\ pred[t] = b

Pool == INSTANCE BlockPool WITH
    out <- {b \in Blocks : use_count[b] > 0 \/ \E t \in Threads : Preparing(t, b)}

\* The recycle list is used as its promise requires: a block goes back once,
\* and only when no count and no thread needs it.
RecyclesOnce == Pool!BPSpec
=============================================================================
