--------------------------- MODULE SharedPtrProofs ---------------------------
(***************************************************************************)
(* Memory safety of the reference counts, for every number of threads,     *)
(* slots, copies, blocks and players.                                      *)
(***************************************************************************)
EXTENDS SharedPtr, FiniteSetTheorems, TLAPS

-----------------------------------------------------------------------------
(* The inductive invariant *)

\* Where a thread is: make_shared has a player and no counted block yet ...
Building(t) == pc[t] \in {"alloc", "init", "count"}

\* ... release() or destroy() runs and will return to back[t] ...
Ending(t) == pc[t] \in {"release", "delete", "recycle"}

\* ... the loop of operator= has yet to store the new player ...
Storing(t) ==
    pc[t] \in {"store", "share", "swap"} \/ (Ending(t) /\ back[t] = "store")

\* ... the new player is stored and the temporary has yet to go ...
Settling(t) == pc[t] = "settle" \/ (Ending(t) /\ back[t] = "settle")

\* ... add_shared_copy tries to copy a slot.
Copying(t) ==
    pc[t] \in {"read", "add", "check"} \/ (Ending(t) /\ back[t] = "read")

\* What a thread's registers and its references inside an operation say at
\* each place.
RegsOf(t) ==
    /\ built[t] # Null <=> Building(t) \/ Storing(t)
    /\ ref[<<t, "new">>] # Null <=> Storing(t) \/ Settling(t)
    /\ Storing(t) => ptr[ref[<<t, "new">>]] = built[t]
    /\ ref[<<t, "got">>] # Null => pc[t] \in {"swap", "check"}
    /\ pc[t] = "swap" => ref[<<t, "got">>] = ref[<<t, "new">>]
    /\ ref[<<t, "drop">>] # Null <=> pc[t] = "release"
    /\ pc[t] \in {"init", "count", "add", "check", "null", "delete", "recycle"} =>
            pred[t] # Null
    /\ pc[t] = "count" => ptr[pred[t]] = built[t]
    /\ Building(t) \/ Storing(t) \/ Settling(t) \/ Copying(t)
            \/ pc[t] \in {"clear", "null"} => slot[t] # Null
    /\ copy[t] # Null <=> Copying(t)
    /\ Copying(t) => ref[<<t, copy[t]>>] = Null

RegsInv == \A t \in Threads : RegsOf(t)

\* A block is in one place: in use, with one thread that prepares or destroys
\* it, on the list, or lost.
BlockInv ==
    /\ \A b \in Blocks : use_count[b] > 0 => b \in made \ free
    /\ \A t \in Threads, b \in Blocks : Preparing(t, b) =>
        /\ use_count[b] = 0
        /\ b \in made \ free
        /\ \A u \in Threads : Preparing(u, b) => u = t

\* Nobody has destroyed the block's player: it is counted, or about to be.
InUse(b) ==
    use_count[b] > 0 \/ \E t \in Threads : pc[t] = "delete" /\ pred[t] = b

\* The player of a block in use lives and is no other block's, and the player
\* a thread has built is nobody's but the block's it has made for it.
PlayerInv ==
    /\ \A b \in Blocks : InUse(b) =>
        /\ ptr[b] \in Players
        /\ player[ptr[b]] = "alive"
        /\ \A c \in Blocks : InUse(c) /\ ptr[c] = ptr[b] => c = b
    /\ \A t \in Threads : built[t] # Null =>
        /\ player[built[t]] = "alive"
        /\ \A u \in Threads : built[u] = built[t] => u = t
        /\ \A b \in Blocks : InUse(b) /\ ptr[b] = built[t] => ref[<<t, "new">>] = b

\* A living player is a block's in use, or just built.
OwnedInv ==
    \A p \in Players : player[p] = "alive" =>
        \/ \E b \in Blocks : InUse(b) /\ ptr[b] = p
        \/ \E t \in Threads : built[t] = p

\* destroy() finds the one weak count that make_shared gave the block.
WeakInv ==
    /\ \A b \in Blocks : use_count[b] > 0 => weak_count[b] = 1
    /\ \A t \in Threads :
        pc[t] \in {"count", "delete", "recycle"} => weak_count[pred[t]] = 1

IInv ==
    /\ TypeOK /\ RegsInv /\ CountsReferences
    /\ BlockInv /\ PlayerInv /\ OwnedInv /\ WeakInv

-----------------------------------------------------------------------------
(* Holders and counting *)

\* The holders of a thread are apart from the slots, from those of other
\* threads and from each other.
LEMMA HoldersApart ==
    /\ \A t \in Threads : /\ <<t, "new">> \in Holders
                          /\ <<t, "got">> \in Holders
                          /\ <<t, "drop">> \in Holders
    /\ \A t \in Threads, k \in Copies :
        /\ <<t, k>> \in Holders
        /\ k \notin {"new", "got", "drop"}
    /\ \A i \in Slots : /\ i \in Holders
                        /\ \A t \in Threads, k \in InCall \cup Copies : i # <<t, k>>
    /\ Null \notin Slots /\ Null \notin Copies /\ Null \notin Blocks
    /\ Null \notin Players
    BY HoldersAssumption DEF Holders, InCall

\* There are finitely many holders.
LEMMA HoldersFinite == IsFiniteSet(Holders)
<1>1. IsFiniteSet(InCall)
    <2>1. IsFiniteSet({"new"})
        BY FS_Singleton
    <2>2. IsFiniteSet({"new"} \cup {"got"})
        BY <2>1, FS_AddElement
    <2>3. IsFiniteSet(({"new"} \cup {"got"}) \cup {"drop"})
        BY <2>2, FS_AddElement
    <2>4. InCall = ({"new"} \cup {"got"}) \cup {"drop"}
        BY DEF InCall
    <2> QED
        BY <2>3, <2>4
<1>2. IsFiniteSet(InCall \cup Copies)
    BY <1>1, FS_Union, HoldersAssumption
<1>3. IsFiniteSet(Threads \X (InCall \cup Copies))
    BY <1>2, FS_Product, HoldersAssumption
<1> QED
    BY <1>3, FS_Union, HoldersAssumption DEF Holders

\* The holders of a reference to b.
Refs(f, b) == {h \in Holders : f[h] = b}

LEMMA RefsFinite ==
    ASSUME NEW f, NEW b
    PROVE  IsFiniteSet(Refs(f, b)) /\ Cardinality(Refs(f, b)) \in Nat
<1>1. IsFiniteSet(Refs(f, b))
    BY HoldersFinite, FS_Subset DEF Refs
<1> QED
    BY <1>1, FS_CardinalityType

\* Who holds nothing takes a reference: one more.
LEMMA TakeRef ==
    ASSUME NEW f, NEW g, NEW h \in Holders, NEW b \in Blocks,
           f[h] = Null, g[h] = b, \A x \in Holders \ {h} : g[x] = f[x]
    PROVE  /\ Cardinality(Refs(g, b)) = Cardinality(Refs(f, b)) + 1
           /\ \A c \in Blocks \ {b} : Refs(g, c) = Refs(f, c)
<1>1. Refs(g, b) = Refs(f, b) \cup {h} /\ h \notin Refs(f, b)
    BY HoldersApart DEF Refs
<1>2. Cardinality(Refs(g, b)) = Cardinality(Refs(f, b)) + 1
    BY <1>1, RefsFinite, FS_AddElement
<1>3. ASSUME NEW c \in Blocks, c # b PROVE Refs(g, c) = Refs(f, c)
    BY <1>3, HoldersApart DEF Refs
<1> QED
    BY <1>2, <1>3

\* Who holds a reference gives it up: one less.
LEMMA GiveRef ==
    ASSUME NEW f, NEW g, NEW h \in Holders, NEW b \in Blocks,
           f[h] = b, g[h] = Null, \A x \in Holders \ {h} : g[x] = f[x]
    PROVE  /\ Cardinality(Refs(f, b)) > 0
           /\ Cardinality(Refs(g, b)) = Cardinality(Refs(f, b)) - 1
           /\ \A c \in Blocks \ {b} : Refs(g, c) = Refs(f, c)
<1>1. Refs(g, b) = Refs(f, b) \ {h} /\ h \in Refs(f, b)
    BY HoldersApart DEF Refs
<1>2. Cardinality(Refs(g, b)) = Cardinality(Refs(f, b)) - 1
    BY <1>1, RefsFinite, FS_RemoveElement
<1>3. Cardinality(Refs(g, b)) \in Nat /\ Cardinality(Refs(f, b)) \in Nat
    BY RefsFinite
<1>4. Cardinality(Refs(f, b)) > 0
    BY <1>2, <1>3
<1>5. ASSUME NEW c \in Blocks, c # b PROVE Refs(g, c) = Refs(f, c)
    BY <1>5, HoldersApart DEF Refs
<1> QED
    BY <1>2, <1>4, <1>5

\* A reference changes hands: as many as before.
LEMMA PassRef ==
    ASSUME NEW f, NEW g, NEW h \in Holders, NEW k \in Holders, h # k,
           f[h] \in Blocks \cup {Null}, f[k] = Null, g[k] = f[h], g[h] = Null,
           \A x \in Holders \ {h, k} : g[x] = f[x]
    PROVE  \A c \in Blocks : Cardinality(Refs(g, c)) = Cardinality(Refs(f, c))
<1> SUFFICES ASSUME NEW c \in Blocks
             PROVE  Cardinality(Refs(g, c)) = Cardinality(Refs(f, c))
    OBVIOUS
<1>1. CASE f[h] # c
    <2>1. Refs(g, c) = Refs(f, c)
        BY <1>1, HoldersApart DEF Refs
    <2> QED
        BY <2>1
<1>2. CASE f[h] = c
    <2>1. /\ Refs(f, c) \ {h} = Refs(g, c) \ {k}
          /\ h \in Refs(f, c) /\ k \in Refs(g, c)
        BY <1>2, HoldersApart DEF Refs
    <2>2. Cardinality(Refs(f, c) \ {h}) = Cardinality(Refs(f, c)) - 1
        BY <2>1, RefsFinite, FS_RemoveElement
    <2>3. Cardinality(Refs(g, c) \ {k}) = Cardinality(Refs(g, c)) - 1
        BY <2>1, RefsFinite, FS_RemoveElement
    <2>4. Cardinality(Refs(f, c)) \in Nat /\ Cardinality(Refs(g, c)) \in Nat
        BY RefsFinite
    <2>5. Cardinality(Refs(f, c) \ {h}) = Cardinality(Refs(g, c) \ {k})
        BY <2>1
    <2> QED
        BY <2>2, <2>3, <2>4, <2>5
<1> QED
    BY <1>1, <1>2

\* A count is positive as long as somebody holds a reference.
LEMMA UsedByHolder ==
    ASSUME TypeOK, CountsReferences
    PROVE  /\ \A h \in Holders : ref[h] \in Blocks => use_count[ref[h]] > 0
           /\ \A b \in Blocks : use_count[b] > 0 => \E h \in Holders : ref[h] = b
<1>1. \A b \in Blocks : use_count[b] = Cardinality(Refs(ref, b))
    BY DEF CountsReferences, Refs
<1>2. ASSUME NEW h \in Holders, ref[h] \in Blocks PROVE use_count[ref[h]] > 0
    <2>1. h \in Refs(ref, ref[h])
        BY DEF Refs
    <2>2. Cardinality(Refs(ref, ref[h])) # 0
        BY <2>1, RefsFinite, FS_EmptySet
    <2> QED
        BY <1>1, <1>2, <2>2 DEF TypeOK
<1>3. ASSUME NEW b \in Blocks, use_count[b] > 0 PROVE \E h \in Holders : ref[h] = b
    <2>1. Refs(ref, b) # {}
        BY <1>1, <1>3, FS_EmptySet
    <2> QED
        BY <2>1 DEF Refs
<1> QED
    BY <1>2, <1>3

-----------------------------------------------------------------------------
(* What most steps have in common *)

\* A reference that changes hands is counted as before ...
LEMMA CountsPassed ==
    ASSUME TypeOK, CountsReferences, NEW h \in Holders, NEW k \in Holders, h # k,
           ref[k] = Null, ref'[k] = ref[h], ref'[h] = Null,
           \A x \in Holders \ {h, k} : ref'[x] = ref[x], use_count' = use_count
    PROVE  CountsReferences'
<1>1. ref[h] \in Blocks \cup {Null}
    BY DEF TypeOK
<1>2. \A b \in Blocks : Cardinality(Refs(ref', b)) = Cardinality(Refs(ref, b))
    BY <1>1, PassRef
<1> QED
    BY <1>2 DEF CountsReferences, Refs

\* ... one that is taken is counted ...
LEMMA CountsTaken ==
    ASSUME TypeOK, CountsReferences, NEW h \in Holders, NEW b \in Blocks,
           ref[h] = Null, ref'[h] = b, \A x \in Holders \ {h} : ref'[x] = ref[x],
           use_count' = [use_count EXCEPT ![b] = @ + 1]
    PROVE  CountsReferences'
<1>1. /\ Cardinality(Refs(ref', b)) = Cardinality(Refs(ref, b)) + 1
      /\ \A c \in Blocks \ {b} : Refs(ref', c) = Refs(ref, c)
    BY TakeRef
<1>2. \A c \in Blocks : use_count[c] = Cardinality(Refs(ref, c))
    BY DEF CountsReferences, Refs
<1>3. use_count'[b] = Cardinality(Refs(ref', b))
    BY <1>1, <1>2 DEF TypeOK
<1>4. ASSUME NEW c \in Blocks \ {b} PROVE use_count'[c] = Cardinality(Refs(ref', c))
    BY <1>1, <1>2, <1>4 DEF TypeOK
<1> QED
    BY <1>3, <1>4 DEF CountsReferences, Refs

\* ... and one that is given up is no longer.
LEMMA CountsGiven ==
    ASSUME TypeOK, CountsReferences, NEW h \in Holders, NEW b \in Blocks,
           ref[h] = b, ref'[h] = Null, \A x \in Holders \ {h} : ref'[x] = ref[x],
           use_count' = [use_count EXCEPT ![b] = @ - 1]
    PROVE  CountsReferences'
<1>1. /\ Cardinality(Refs(ref', b)) = Cardinality(Refs(ref, b)) - 1
      /\ \A c \in Blocks \ {b} : Refs(ref', c) = Refs(ref, c)
    BY GiveRef
<1>2. \A c \in Blocks : use_count[c] = Cardinality(Refs(ref, c))
    BY DEF CountsReferences, Refs
<1>3. use_count'[b] = Cardinality(Refs(ref', b))
    BY <1>1, <1>2 DEF TypeOK
<1>4. ASSUME NEW c \in Blocks \ {b} PROVE use_count'[c] = Cardinality(Refs(ref', c))
    BY <1>1, <1>2, <1>4 DEF TypeOK
<1> QED
    BY <1>3, <1>4 DEF CountsReferences, Refs

\* A step of t leaves the registers and the references of the others alone.
Apart(t) ==
    \A u \in Threads \ {t} :
        /\ pc'[u] = pc[u] /\ slot'[u] = slot[u] /\ pred'[u] = pred[u]
        /\ copy'[u] = copy[u] /\ built'[u] = built[u] /\ back'[u] = back[u]
        /\ \A k \in InCall \cup Copies : ref'[<<u, k>>] = ref[<<u, k>>]

LEMMA OtherRegs ==
    ASSUME TypeOK, RegsInv, NEW t \in Threads, Apart(t),
           \A u \in Threads \ {t} :
               /\ Storing(u) => ptr'[ref[<<u, "new">>]] = ptr[ref[<<u, "new">>]]
               /\ pc[u] = "count" => ptr'[pred[u]] = ptr[pred[u]],
           RegsOf(t)'
    PROVE  RegsInv'
<1> SUFFICES ASSUME NEW u \in Threads \ {t} PROVE RegsOf(u)'
    BY DEF RegsInv
<1>1. RegsOf(u)
    BY DEF RegsInv
<1>2. /\ Building(u)' = Building(u) /\ Storing(u)' = Storing(u)
      /\ Settling(u)' = Settling(u) /\ Copying(u)' = Copying(u)
    BY DEF Apart, Building, Storing, Settling, Copying, Ending
<1>3. /\ ref'[<<u, "new">>] = ref[<<u, "new">>]
      /\ ref'[<<u, "got">>] = ref[<<u, "got">>]
      /\ ref'[<<u, "drop">>] = ref[<<u, "drop">>]
      /\ \A k \in Copies : ref'[<<u, k>>] = ref[<<u, k>>]
    BY DEF Apart, InCall
<1>4. copy[u] \in Copies \cup {Null}
    BY DEF TypeOK
<1> HIDE DEF Building, Storing, Settling, Copying
<1> QED
    BY <1>1, <1>2, <1>3, <1>4 DEF Apart, RegsOf

\* A step that destroys no player and takes no block from or to the list.
LEMMA SamePlayers ==
    ASSUME PlayerInv, OwnedInv, \A b \in Blocks : InUse(b)' <=> InUse(b),
           UNCHANGED <<ptr, player, built>>,
           \A t \in Threads : built[t] # Null => ref'[<<t, "new">>] = ref[<<t, "new">>]
    PROVE  PlayerInv' /\ OwnedInv'
<1>1. PlayerInv'
    BY DEF PlayerInv
<1>2. OwnedInv'
    BY DEF OwnedInv
<1> QED
    BY <1>1, <1>2

\* A step that only moves references, or counts a block in use once more, and
\* is not at the making or at the end of a block.
LEMMA QuietStep ==
    ASSUME BlockInv, PlayerInv, OwnedInv, WeakInv,
           UNCHANGED <<weak_count, ptr, player, made, free, built>>,
           \A b \in Blocks : use_count'[b] > 0 <=> use_count[b] > 0,
           \A b \in Blocks : use_count[b] = 0 => use_count'[b] = 0,
           \A t \in Threads :
               \/ pc'[t] = pc[t] /\ pred'[t] = pred[t]
               \/ /\ pc[t] \notin {"init", "count", "delete", "recycle"}
                  /\ pc'[t] \notin {"init", "count", "delete", "recycle"},
           \A t \in Threads : built[t] # Null => ref'[<<t, "new">>] = ref[<<t, "new">>]
    PROVE  BlockInv' /\ PlayerInv' /\ OwnedInv' /\ WeakInv'
<1>1. \A t \in Threads, b \in Blocks : Preparing(t, b)' <=> Preparing(t, b)
    BY DEF Preparing
<1>2. \A b \in Blocks : InUse(b)' <=> InUse(b)
    BY DEF InUse
<1>3. BlockInv'
    BY <1>1 DEF BlockInv
<1>4. PlayerInv' /\ OwnedInv'
    BY <1>2, SamePlayers
<1>5. WeakInv'
    BY DEF WeakInv
<1> QED
    BY <1>3, <1>4, <1>5

-----------------------------------------------------------------------------
(* Each step preserves the invariant *)

\* An operation on a slot knows which.
LEMMA SlotRead ==
    ASSUME TypeOK, NEW t \in Threads, RegsOf(t),
           pc[t] \in {"store", "share", "swap", "read", "check", "clear", "null"}
    PROVE  /\ slot[t] \in Slots /\ slot[t] \in Holders
           /\ ref[slot[t]] \in Blocks \cup {Null}
           /\ \A k \in InCall \cup Copies : slot[t] # <<t, k>>
<1>1. slot[t] \in Slots
    BY DEF TypeOK, RegsOf, Storing, Copying
<1> QED
    BY <1>1, HoldersApart DEF TypeOK

\* The loop of operator= starts with the slot as it is.
LEMMA StoreReadIInv ==
    ASSUME IInv, NEW t \in Threads, StoreRead(t)
    PROVE  IInv'
<1> USE HoldersApart DEF IInv, StoreRead, Goto, Read, Return, Release, AddUse, counts, regs
<1>1. TypeOK'
    BY ZenonT(30) DEF TypeOK, Labels, RegsInv, RegsOf, Storing, Settling, Copying
<1>2. RegsInv'
    <2>1. Apart(t)
        BY DEF Apart, TypeOK, InCall
    <2>2. RegsOf(t)'
        BY DEF TypeOK, RegsInv, RegsOf, Building, Storing, Settling, Copying, Ending
    <2> QED
        BY <2>1, <2>2, OtherRegs
<1>3. CountsReferences'
    BY DEF CountsReferences
<1>4. BlockInv' /\ PlayerInv' /\ OwnedInv' /\ WeakInv'
    BY QuietStep DEF TypeOK, RegsInv, RegsOf, Building, Storing, Settling, Copying
<1> QED
    BY <1>1, <1>2, <1>3, <1>4

\* The copy to be made is empty.
LEMMA GetPlayerIInv ==
    ASSUME IInv, NEW t \in Threads, NEW i \in Slots, NEW k \in Copies, GetPlayer(t, i, k)
    PROVE  IInv'
<1> USE HoldersApart DEF IInv, GetPlayer, Goto, Read, Return, Release, AddUse, counts, regs
<1>1. TypeOK'
    BY DEF TypeOK, Labels, RegsInv, RegsOf, Storing, Settling, Copying
<1>2. RegsInv'
    <2>1. Apart(t)
        BY DEF Apart, TypeOK, InCall
    <2>2. RegsOf(t)'
        <3>1. RegsOf(t) /\ pc[t] = "idle" /\ ref[<<t, k>>] = Null
            BY DEF RegsInv
        <3>2. ~Building(t) /\ ~Storing(t) /\ ~Settling(t) /\ ~Copying(t)
            BY <3>1 DEF Building, Storing, Settling, Copying, Ending
        <3>3. /\ pc'[t] = "read" /\ slot'[t] = i /\ copy'[t] = k
              /\ UNCHANGED <<ref, ptr, pred, built>>
            BY DEF TypeOK
        <3> HIDE DEF IInv, GetPlayer
        <3>4. ~Building(t)' /\ ~Storing(t)' /\ ~Settling(t)' /\ Copying(t)'
            BY <3>3 DEF Building, Storing, Settling, Copying, Ending
        <3>5. /\ built[t] = Null /\ ref[<<t, "new">>] = Null
              /\ ref[<<t, "got">>] = Null /\ ref[<<t, "drop">>] = Null
            BY <3>1, <3>2 DEF RegsOf
        <3> QED
            BY <3>1, <3>3, <3>4, <3>5 DEF RegsOf
    <2> QED
        BY <2>1, <2>2, OtherRegs
<1>3. CountsReferences'
    BY DEF CountsReferences
<1>4. BlockInv' /\ PlayerInv' /\ OwnedInv' /\ WeakInv'
    BY QuietStep DEF TypeOK, RegsInv, RegsOf, Building, Storing, Settling, Copying
<1> QED
    BY <1>1, <1>2, <1>3, <1>4

\* A block was seen in the slot, or the copy is of nothing.
LEMMA CopyReadIInv ==
    ASSUME IInv, NEW t \in Threads, CopyRead(t)
    PROVE  IInv'
<1> USE HoldersApart DEF IInv, CopyRead, Goto, Read, Return, Release, AddUse, counts, regs
<1>0. slot[t] \in Slots /\ ref[slot[t]] \in Blocks \cup {Null} /\ RegsOf(t)
    BY SlotRead DEF RegsInv
<1>1. TypeOK'
    <2>1. CASE ref[slot[t]] = Null
        BY <2>1, <1>0 DEF TypeOK, Labels
    <2>2. CASE ref[slot[t]] # Null
        BY <2>2, <1>0 DEF TypeOK, Labels
    <2> QED
        BY <2>1, <2>2
<1>2. RegsInv'
    <2>1. Apart(t)
        BY DEF Apart, TypeOK, InCall
    <2>2. RegsOf(t)'
        <3>1. CASE ref[slot[t]] = Null
            BY <3>1, <1>0 DEF TypeOK, RegsOf, Building, Storing, Settling, Copying, Ending
        <3>2. CASE ref[slot[t]] # Null
            BY <3>2, <1>0 DEF TypeOK, RegsOf, Building, Storing, Settling, Copying, Ending
        <3> QED
            BY <3>1, <3>2
    <2> QED
        BY <2>1, <2>2, OtherRegs
<1>3. CountsReferences'
    BY DEF CountsReferences
<1>4. BlockInv' /\ PlayerInv' /\ OwnedInv' /\ WeakInv'
    BY SMTT(30), QuietStep DEF TypeOK, RegsInv, RegsOf, Building, Storing, Settling, Copying
<1> QED
    BY <1>1, <1>2, <1>3, <1>4

\* The slot is to be emptied.
LEMMA LogoutIInv ==
    ASSUME IInv, NEW t \in Threads, NEW i \in Slots, Logout(t, i)
    PROVE  IInv'
<1> USE HoldersApart DEF IInv, Logout, Goto, Read, Return, Release, AddUse, counts, regs
<1>1. TypeOK'
    BY DEF TypeOK, Labels, RegsInv, RegsOf, Storing, Settling, Copying
<1>2. RegsInv'
    <2>1. Apart(t)
        BY DEF Apart, TypeOK, InCall
    <2>2. RegsOf(t)'
        BY ZenonT(30) DEF TypeOK, RegsInv, RegsOf, Building, Storing, Settling, Copying, Ending
    <2> QED
        BY <2>1, <2>2, OtherRegs
<1>3. CountsReferences'
    BY DEF CountsReferences
<1>4. BlockInv' /\ PlayerInv' /\ OwnedInv' /\ WeakInv'
    BY QuietStep DEF TypeOK, RegsInv, RegsOf, Building, Storing, Settling, Copying
<1> QED
    BY <1>1, <1>2, <1>3, <1>4

\* A block was seen in the slot, or there is nothing to do.
LEMMA ClearReadIInv ==
    ASSUME IInv, NEW t \in Threads, ClearRead(t)
    PROVE  IInv'
<1> USE HoldersApart DEF IInv, ClearRead, Goto, Read, Return, Release, AddUse, counts, regs
<1>0. slot[t] \in Slots /\ ref[slot[t]] \in Blocks \cup {Null} /\ RegsOf(t)
    BY SlotRead DEF RegsInv
<1>1. TypeOK'
    <2>1. CASE ref[slot[t]] = Null
        BY <2>1, <1>0 DEF TypeOK, Labels
    <2>2. CASE ref[slot[t]] # Null
        BY <2>2, <1>0 DEF TypeOK, Labels
    <2> QED
        BY <2>1, <2>2
<1>2. RegsInv'
    <2>1. Apart(t)
        BY DEF Apart, TypeOK, InCall
    <2>2. RegsOf(t)'
        <3>1. CASE ref[slot[t]] = Null
            BY <3>1, <1>0 DEF TypeOK, RegsOf, Building, Storing, Settling, Copying, Ending
        <3>2. CASE ref[slot[t]] # Null
            BY <3>2, <1>0 DEF TypeOK, RegsOf, Building, Storing, Settling, Copying, Ending
        <3> QED
            BY <3>1, <3>2
    <2> QED
        BY <2>1, <2>2, OtherRegs
<1>3. CountsReferences'
    BY DEF CountsReferences
<1>4. BlockInv' /\ PlayerInv' /\ OwnedInv' /\ WeakInv'
    BY SMTT(30), QuietStep DEF TypeOK, RegsInv, RegsOf, Building, Storing, Settling, Copying
<1> QED
    BY <1>1, <1>2, <1>3, <1>4

\* The temporary is about to go.
LEMMA SettleIInv ==
    ASSUME IInv, NEW t \in Threads, Settle(t)
    PROVE  IInv'
<1> USE HoldersApart DEF IInv, Settle, Goto, Read, Return, Release, AddUse, counts, regs
<1>0. built[t] = Null /\ RegsOf(t)
    BY DEF RegsInv, RegsOf, Building, Storing, Ending
<1>1. TypeOK'
    BY ZenonT(30) DEF TypeOK, Labels, RegsInv, RegsOf, Storing, Settling, Copying
<1>2. RegsInv'
    <2>1. Apart(t)
        BY DEF Apart, TypeOK, InCall
    <2>2. RegsOf(t)'
        BY ZenonT(30) DEF TypeOK, RegsInv, RegsOf, Building, Storing, Settling, Copying, Ending
    <2> QED
        BY <2>1, <2>2, OtherRegs
<1>3. CountsReferences'
    <2>1. ref[<<t, "drop">>] = Null
        BY DEF RegsInv, RegsOf
    <2> QED
        BY <2>1, CountsPassed DEF TypeOK
<1>4. BlockInv' /\ PlayerInv' /\ OwnedInv' /\ WeakInv'
    <2>1. \A u \in Threads \ {t} : ref'[<<u, "new">>] = ref[<<u, "new">>]
        BY DEF TypeOK
    <2>2. \A u \in Threads :
              \/ pc'[u] = pc[u] /\ pred'[u] = pred[u]
              \/ /\ pc[u] \notin {"init", "count", "delete", "recycle"}
                 /\ pc'[u] \notin {"init", "count", "delete", "recycle"}
        BY DEF TypeOK
    <2> QED
        BY <1>0, <2>1, <2>2, QuietStep
<1> QED
    BY <1>1, <1>2, <1>3, <1>4

\* A copy is about to go.
LEMMA DestroyIInv ==
    ASSUME IInv, NEW t \in Threads, NEW k \in Copies, Destroy(t, k)
    PROVE  IInv'
<1> USE HoldersApart DEF IInv, Destroy, Goto, Read, Return, Release, AddUse, counts, regs
<1>0. /\ RegsOf(t) /\ <<t, k>> \in Holders
      /\ <<t, k>> # <<t, "new">> /\ <<t, k>> # <<t, "got">> /\ <<t, k>> # <<t, "drop">>
    BY DEF RegsInv
<1>1. TypeOK'
    BY ZenonT(30) DEF TypeOK, Labels, RegsInv, RegsOf, Storing, Settling, Copying
<1>2. RegsInv'
    <2>1. Apart(t)
        BY DEF Apart, TypeOK, InCall
    <2>2. RegsOf(t)'
        <3>1. /\ ref'[<<t, "new">>] = ref[<<t, "new">>]
              /\ ref'[<<t, "got">>] = ref[<<t, "got">>]
              /\ ref'[<<t, "drop">>] = ref[<<t, k>>]
            BY <1>0 DEF TypeOK
        <3> QED
            BY <1>0, <3>1 DEF TypeOK, RegsOf, Building, Storing, Settling, Copying,
               Ending
    <2> QED
        BY <2>1, <2>2, OtherRegs
<1>3. CountsReferences'
    <2>1. ref[<<t, "drop">>] = Null
        BY DEF RegsInv, RegsOf
    <2> QED
        BY <2>1, CountsPassed DEF TypeOK
<1>4. BlockInv' /\ PlayerInv' /\ OwnedInv' /\ WeakInv'
    <2>1. \A u \in Threads : ref'[<<u, "new">>] = ref[<<u, "new">>]
        BY <1>0 DEF TypeOK
    <2>2. \A u \in Threads :
              \/ pc'[u] = pc[u] /\ pred'[u] = pred[u]
              \/ /\ pc[u] \notin {"init", "count", "delete", "recycle"}
                 /\ pc'[u] \notin {"init", "count", "delete", "recycle"}
        BY DEF TypeOK
    <2> QED
        BY <2>1, <2>2, QuietStep
<1> QED
    BY <1>1, <1>2, <1>3, <1>4

\* What was counted is kept, or given up if the slot holds another block.
LEMMA CopyCheckIInv ==
    ASSUME IInv, NEW t \in Threads, CopyCheck(t)
    PROVE  IInv'
<1> DEFINE got  == <<t, "got">>
           drop == <<t, "drop">>
           mine == <<t, copy[t]>>
<1> USE HoldersApart DEF IInv, CopyCheck, Goto, Read, Return, Release, counts, regs
<1>0. RegsOf(t) /\ pc[t] = "check"
    BY DEF RegsInv
<1>1. /\ copy[t] \in Copies /\ mine \in Holders /\ ref[mine] = Null
      /\ mine # got /\ mine # drop /\ mine # <<t, "new">>
      /\ ref[drop] = Null /\ ref[<<t, "new">>] = Null
      /\ \A u \in Threads \ {t}, k \in InCall \cup Copies : mine # <<u, k>>
      /\ ref[got] \in Blocks \cup {Null}
    BY <1>0 DEF TypeOK, RegsOf, Copying, Storing, Settling, Ending
<1>2. slot[t] \in Slots
    BY <1>0, SlotRead
<1> HIDE DEF mine
<1>3. CASE ref' = [ref EXCEPT ![mine] = ref[got], ![got] = Null] /\ Return(t)
    <2>1. TypeOK'
        BY <1>0, <1>1, <1>3 DEF TypeOK, Labels
    <2>2. Apart(t)
        <3>1. ASSUME NEW u \in Threads \ {t}, NEW k \in InCall \cup Copies
              PROVE  ref'[<<u, k>>] = ref[<<u, k>>]
            <4>1. <<u, k>> \in Holders
                BY DEF Holders
            <4> QED
                BY <4>1, <1>1, <1>3 DEF TypeOK
        <3>2. \A u \in Threads \ {t} :
                  /\ pc'[u] = pc[u] /\ slot'[u] = slot[u] /\ pred'[u] = pred[u]
                  /\ copy'[u] = copy[u] /\ built'[u] = built[u] /\ back'[u] = back[u]
            BY <1>3 DEF TypeOK
        <3> QED
            BY <3>1, <3>2 DEF Apart
    <2>3. RegsOf(t)'
        BY <1>0, <1>1, <1>3 DEF TypeOK, RegsOf, Building, Storing, Settling, Copying,
           Ending
    <2>4. RegsInv'
        BY <2>2, <2>3, OtherRegs
    <2>a. /\ ref'[mine] = ref[got] /\ ref'[got] = Null
          /\ \A h \in Holders \ {got, mine} : ref'[h] = ref[h]
        BY <1>1, <1>3 DEF TypeOK
    <2>5. CountsReferences'
        BY <1>1, <2>a, CountsPassed
    <2>6. \A u \in Threads : ref'[<<u, "new">>] = ref[<<u, "new">>]
        <3>1. ASSUME NEW u \in Threads
              PROVE  <<u, "new">> \in Holders /\ <<u, "new">> # got /\ <<u, "new">> # mine
            BY <1>1 DEF InCall
        <3> QED
            BY <2>a, <3>1
    <2>7. BlockInv' /\ PlayerInv' /\ OwnedInv' /\ WeakInv'
        BY <1>0, <1>3, <2>6, QuietStep DEF TypeOK
    <2> QED
        BY <2>1, <2>4, <2>5, <2>7
<1>4. CASE Release(t, got, "read") /\ ref[got] # Null /\ UNCHANGED <<slot, copy, built>>
    <2>1. TypeOK'
        BY <1>0, <1>1, <1>4 DEF TypeOK, Labels
    <2>2. Apart(t)
        BY ZenonT(30), <1>4 DEF Apart, TypeOK, InCall
    <2>a. ref'[mine] = Null /\ copy'[t] = copy[t] /\ slot'[t] = slot[t]
        BY <1>1, <1>4 DEF TypeOK
    <2>3. RegsOf(t)'
        BY <1>0, <1>1, <1>2, <1>4, <2>a DEF TypeOK, RegsOf, Building, Storing, Settling,
           Copying, Ending, mine
    <2>4. RegsInv'
        BY <2>2, <2>3, OtherRegs
    <2>5. CountsReferences'
        BY ZenonT(30), <1>1, <1>4, CountsPassed DEF TypeOK
    <2>6. \A u \in Threads : ref'[<<u, "new">>] = ref[<<u, "new">>]
        BY <1>1, <1>4 DEF TypeOK
    <2>7. BlockInv' /\ PlayerInv' /\ OwnedInv' /\ WeakInv'
        BY <1>0, <1>4, <2>6, QuietStep DEF TypeOK
    <2> QED
        BY <2>1, <2>4, <2>5, <2>7
<1>5. CASE /\ ref[got] = Null /\ Read(t, Null) /\ Goto(t, "read")
           /\ UNCHANGED <<ref, slot, copy, built, back>>
    <2>1. TypeOK'
        BY <1>0, <1>5 DEF TypeOK, Labels
    <2>2. Apart(t)
        BY <1>5 DEF Apart, TypeOK, InCall
    <2>3. RegsOf(t)'
        BY <1>0, <1>1, <1>2, <1>5 DEF TypeOK, RegsOf, Building, Storing, Settling,
           Copying, Ending, mine
    <2>4. RegsInv'
        BY <2>2, <2>3, OtherRegs
    <2>5. CountsReferences'
        BY <1>5 DEF CountsReferences
    <2>6. BlockInv' /\ PlayerInv' /\ OwnedInv' /\ WeakInv'
        BY <1>0, <1>5, QuietStep DEF TypeOK
    <2> QED
        BY <2>1, <2>4, <2>5, <2>6
<1> QED
    BY <1>3, <1>4, <1>5 DEF mine

\* The slot's block goes, or the loop begins again.
LEMMA ClearSwapIInv ==
    ASSUME IInv, NEW t \in Threads, ClearSwap(t)
    PROVE  IInv'
<1> DEFINE i == slot[t]
           drop == <<t, "drop">>
<1> USE HoldersApart DEF IInv, Goto, Read, Return, Release, counts, regs
<1>0. RegsOf(t) /\ pc[t] = "null"
    BY DEF RegsInv, ClearSwap
<1>1. /\ i \in Slots /\ i \in Holders /\ i # drop /\ ref[drop] = Null
      /\ \A u \in Threads, k \in InCall \cup Copies : i # <<u, k>>
    BY <1>0, SlotRead DEF RegsOf, InCall
<1>2. pred[t] # Null
    BY <1>0 DEF RegsOf
<1>3. CASE ref[i] = pred[t] /\ Release(t, i, "idle") /\ UNCHANGED <<counts, slot, copy, built>>
    <2>1. /\ ref'[drop] = ref[i] /\ ref'[i] = Null
          /\ \A h \in Holders \ {i, drop} : ref'[h] = ref[h]
        BY <1>1, <1>3 DEF TypeOK
    <2>2. TypeOK'
        BY SMTT(30), <1>0, <1>1, <1>3 DEF TypeOK, Labels
    <2> HIDE DEF i
    <2>3. Apart(t)
        BY <1>1, <1>3 DEF Apart, TypeOK, InCall
    <2>4. RegsOf(t)'
        BY <1>0, <1>1, <1>2, <1>3, <2>1 DEF TypeOK, RegsOf, Building, Storing, Settling,
           Copying, Ending, InCall
    <2>5. RegsInv'
        BY <2>3, <2>4, OtherRegs, <1>3
    <2>6. CountsReferences'
        BY <1>1, <1>3, <2>1, CountsPassed
    <2>7. \A u \in Threads : ref'[<<u, "new">>] = ref[<<u, "new">>]
        BY <1>1, <2>1 DEF InCall
    <2>8. BlockInv' /\ PlayerInv' /\ OwnedInv' /\ WeakInv'
        BY <1>0, <1>3, <2>7, QuietStep DEF TypeOK
    <2> QED
        BY <2>2, <2>5, <2>6, <2>8
<1>4. CASE Read(t, Null) /\ Goto(t, "clear") /\ UNCHANGED <<ref, back, counts, slot, copy, built>>
    <2>1. TypeOK'
        BY <1>0, <1>4 DEF TypeOK, Labels
    <2>2. Apart(t)
        BY <1>4 DEF Apart, TypeOK
    <2>3. RegsOf(t)'
        BY <1>0, <1>1, <1>4 DEF TypeOK, RegsOf, Building, Storing, Settling, Copying,
           Ending
    <2>4. RegsInv'
        BY <2>2, <2>3, OtherRegs, <1>4
    <2>5. CountsReferences'
        BY <1>4 DEF CountsReferences
    <2>6. BlockInv' /\ PlayerInv' /\ OwnedInv' /\ WeakInv'
        BY <1>0, <1>4, QuietStep DEF TypeOK
    <2> QED
        BY <2>1, <2>4, <2>5, <2>6
<1> QED
    BY <1>3, <1>4 DEF ClearSwap

\* A block in use is counted once more.
LEMMA CountedMore ==
    ASSUME TypeOK, CountsReferences, NEW h \in Holders, NEW b \in Blocks,
           ref[h] = Null, use_count[b] > 0, AddUse(h, b)
    PROVE  /\ ref' \in [Holders -> Blocks \cup {Null}]
           /\ ref'[h] = b
           /\ \A x \in Holders \ {h} : ref'[x] = ref[x]
           /\ use_count' \in [Blocks -> Nat]
           /\ \A c \in Blocks : use_count'[c] > 0 <=> use_count[c] > 0
           /\ \A c \in Blocks : use_count[c] = 0 => use_count'[c] = 0
           /\ CountsReferences'
<1>1. /\ ref' \in [Holders -> Blocks \cup {Null}] /\ ref'[h] = b
      /\ \A x \in Holders \ {h} : ref'[x] = ref[x]
    BY DEF AddUse, TypeOK
<1>2. /\ use_count' \in [Blocks -> Nat]
      /\ \A c \in Blocks : use_count'[c] = IF c = b THEN use_count[c] + 1 ELSE use_count[c]
    BY DEF AddUse, TypeOK
<1>3. CountsReferences'
    BY <1>1, CountsTaken DEF AddUse
<1> QED
    BY <1>1, <1>2, <1>3 DEF TypeOK

\* The new block is counted for the slot it will be stored in.
LEMMA StoreShareIInv ==
    ASSUME IInv, NEW t \in Threads, StoreShare(t)
    PROVE  IInv'
<1> DEFINE got == <<t, "got">>
           new == <<t, "new">>
<1> USE HoldersApart DEF IInv
<1>0. RegsOf(t) /\ pc[t] = "share" /\ pc' = [pc EXCEPT ![t] = "swap"]
      /\ UNCHANGED <<weak_count, ptr, player, made, free, slot, pred, copy, built, back>>
    BY DEF RegsInv, StoreShare, Goto
<1>1. ref[got] = Null /\ ref[new] \in Blocks /\ AddUse(got, ref[new])
    BY <1>0 DEF RegsOf, Storing, TypeOK, StoreShare
<1>2. use_count[ref[new]] > 0
    BY <1>1, UsedByHolder
<1>3. /\ ref' \in [Holders -> Blocks \cup {Null}] /\ ref'[got] = ref[new]
      /\ \A x \in Holders \ {got} : ref'[x] = ref[x]
      /\ use_count' \in [Blocks -> Nat]
      /\ \A c \in Blocks : use_count'[c] > 0 <=> use_count[c] > 0
      /\ \A c \in Blocks : use_count[c] = 0 => use_count'[c] = 0
      /\ CountsReferences'
    BY <1>1, <1>2, CountedMore
<1>4. TypeOK'
    BY <1>0, <1>3 DEF TypeOK, Labels
<1>5. RegsInv'
    <2>1. Apart(t)
        BY <1>0, <1>3 DEF Apart, TypeOK, InCall
    <2>2. RegsOf(t)'
        BY <1>0, <1>3 DEF TypeOK, RegsOf, Building, Storing, Settling, Copying, Ending
    <2> QED
        BY <2>1, <2>2, OtherRegs, <1>0
<1>6. \A u \in Threads : ref'[<<u, "new">>] = ref[<<u, "new">>]
    BY <1>3
<1>7. BlockInv' /\ PlayerInv' /\ OwnedInv' /\ WeakInv'
    BY <1>0, <1>3, <1>6, QuietStep DEF TypeOK
<1> QED
    BY <1>3, <1>4, <1>5, <1>7

\* A block in use is counted, whatever the slot holds by now; one in no use
\* is not.
LEMMA CopyAddIInv ==
    ASSUME IInv, NEW t \in Threads, CopyAdd(t)
    PROVE  IInv'
<1> DEFINE got == <<t, "got">>
<1> USE HoldersApart DEF IInv
<1>0. RegsOf(t) /\ pc[t] = "add" /\ pc' = [pc EXCEPT ![t] = "check"]
      /\ UNCHANGED <<weak_count, ptr, player, made, free, slot, pred, copy, built, back>>
    BY DEF RegsInv, CopyAdd, Goto
<1>1. ref[got] = Null /\ pred[t] \in Blocks
    BY <1>0 DEF RegsOf, TypeOK
<1>2. /\ ref' \in [Holders -> Blocks \cup {Null}]
      /\ \A x \in Holders \ {got} : ref'[x] = ref[x]
      /\ use_count' \in [Blocks -> Nat]
      /\ \A c \in Blocks : use_count'[c] > 0 <=> use_count[c] > 0
      /\ \A c \in Blocks : use_count[c] = 0 => use_count'[c] = 0
      /\ CountsReferences'
    <2>1. CASE use_count[pred[t]] > 0 /\ AddUse(got, pred[t])
        BY <1>1, <2>1, CountedMore
    <2>2. CASE UNCHANGED <<ref, use_count>>
        BY <2>2 DEF TypeOK, CountsReferences
    <2> QED
        BY <2>1, <2>2 DEF CopyAdd
<1>3. TypeOK'
    BY <1>0, <1>2 DEF TypeOK, Labels
<1>4. RegsInv'
    <2>1. Apart(t)
        BY <1>0, <1>2 DEF Apart, TypeOK, InCall
    <2>2. RegsOf(t)'
        BY <1>0, <1>1, <1>2 DEF TypeOK, RegsOf, Building, Storing, Settling, Copying,
           Ending
    <2> QED
        BY <2>1, <2>2, OtherRegs, <1>0
<1>5. \A u \in Threads : ref'[<<u, "new">>] = ref[<<u, "new">>]
    BY <1>2
<1>6. BlockInv' /\ PlayerInv' /\ OwnedInv' /\ WeakInv'
    BY <1>0, <1>2, <1>5, QuietStep DEF TypeOK
<1> QED
    BY <1>2, <1>3, <1>4, <1>6

\* A copy of a copy is counted.
LEMMA CopyCopyIInv ==
    ASSUME IInv, NEW t \in Threads, NEW j \in Copies, NEW k \in Copies,
           CopyCopy(t, j, k)
    PROVE  IInv'
<1> DEFINE to == <<t, k>>
           b == ref[<<t, j>>]
<1> USE HoldersApart DEF IInv
<1>0. RegsOf(t) /\ pc[t] = "idle"
      /\ UNCHANGED <<weak_count, ptr, player, made, free, pc, slot, pred, copy, built, back>>
    BY DEF RegsInv, CopyCopy, regs
<1>1. ref[to] = Null /\ b \in Blocks /\ AddUse(to, b) /\ use_count[b] > 0
    <2>1. ref[to] = Null /\ b \in Blocks /\ AddUse(to, b)
        BY DEF CopyCopy, TypeOK
    <2> QED
        BY <2>1, UsedByHolder
<1>2. /\ ref' \in [Holders -> Blocks \cup {Null}]
      /\ \A x \in Holders \ {to} : ref'[x] = ref[x]
      /\ use_count' \in [Blocks -> Nat]
      /\ \A c \in Blocks : use_count'[c] > 0 <=> use_count[c] > 0
      /\ \A c \in Blocks : use_count[c] = 0 => use_count'[c] = 0
      /\ CountsReferences'
    BY <1>1, CountedMore
<1>3. TypeOK'
    BY <1>0, <1>2 DEF TypeOK, Labels
<1>4. \A u \in Threads, l \in InCall : ref'[<<u, l>>] = ref[<<u, l>>]
    BY <1>2 DEF InCall
<1>5. RegsInv'
    <2>1. Apart(t)
        BY <1>0, <1>2 DEF Apart, TypeOK, InCall
    <2>2. RegsOf(t)'
        BY <1>0, <1>4 DEF RegsOf, Building, Storing, Settling, Copying, Ending, InCall
    <2> QED
        BY <2>1, <2>2, OtherRegs, <1>0
<1>6. BlockInv' /\ PlayerInv' /\ OwnedInv' /\ WeakInv'
    BY <1>0, <1>2, <1>4, QuietStep DEF InCall
<1> QED
    BY <1>2, <1>3, <1>5, <1>6

\* Holder k passes its reference to i, and i the one it had to d.
LEMMA ShiftRefs ==
    ASSUME NEW f, NEW g, NEW i \in Holders, NEW k \in Holders, NEW d \in Holders,
           i # k, i # d, k # d,
           f[i] \in Blocks \cup {Null}, f[k] \in Blocks \cup {Null}, f[d] = Null,
           g[i] = f[k], g[k] = Null, g[d] = f[i],
           \A x \in Holders \ {i, k, d} : g[x] = f[x]
    PROVE  \A c \in Blocks : Cardinality(Refs(g, c)) = Cardinality(Refs(f, c))
<1>1. PICK m : m = [h \in Holders |-> IF h = d THEN f[i] ELSE IF h = i THEN Null
                                      ELSE f[h]]
    OBVIOUS
<1>2. /\ m[d] = f[i] /\ m[i] = Null /\ m[k] = f[k]
      /\ \A x \in Holders \ {i, d} : m[x] = f[x]
    BY <1>1
<1>3. \A c \in Blocks : Cardinality(Refs(m, c)) = Cardinality(Refs(f, c))
    BY <1>2, PassRef
<1>4. /\ g[i] = m[k] /\ g[k] = Null /\ m[k] \in Blocks \cup {Null}
      /\ \A x \in Holders \ {k, i} : g[x] = m[x]
    BY <1>2
<1>5. \A c \in Blocks : Cardinality(Refs(g, c)) = Cardinality(Refs(m, c))
    BY <1>2, <1>4, PassRef
<1> QED
    BY <1>3, <1>5

\* The slot gets the count taken for it and its old block goes; or the count
\* goes and the loop begins again.
LEMMA StoreSwapIInv ==
    ASSUME IInv, NEW t \in Threads, StoreSwap(t)
    PROVE  IInv'
<1> DEFINE i    == slot[t]
           got  == <<t, "got">>
           drop == <<t, "drop">>
           new  == <<t, "new">>
<1> USE HoldersApart DEF IInv
<1>0. RegsOf(t) /\ pc[t] = "swap" /\ UNCHANGED <<counts, slot, copy>>
    BY DEF RegsInv, StoreSwap
<1>1. /\ i \in Slots /\ i \in Holders /\ ref[i] \in Blocks \cup {Null}
      /\ i # drop /\ i # got /\ i # new
      /\ \A u \in Threads, k \in InCall \cup Copies : i # <<u, k>>
    BY <1>0, SlotRead DEF InCall
<1>2. /\ ref[drop] = Null /\ ref[got] = ref[new] /\ ref[new] \in Blocks
      /\ built[t] \in Players /\ ptr[ref[new]] = built[t]
    BY <1>0 DEF RegsOf, Storing, TypeOK
<1>3. CASE /\ ref[i] = pred[t]
           /\ ref' = [ref EXCEPT ![i] = ref[got], ![got] = Null, ![drop] = pred[t]]
           /\ Read(t, Null)
           /\ built' = [built EXCEPT ![t] = Null]
           /\ Goto(t, IF pred[t] = Null THEN "settle" ELSE "release")
           /\ back' = [back EXCEPT ![t] = "settle"]
    <2>1. /\ ref' \in [Holders -> Blocks \cup {Null}]
          /\ ref'[i] = ref[got] /\ ref'[got] = Null /\ ref'[drop] = ref[i]
          /\ \A h \in Holders \ {i, got, drop} : ref'[h] = ref[h]
        BY <1>1, <1>2, <1>3 DEF TypeOK
    <2>2. TypeOK'
        BY <1>0, <1>3, <2>1 DEF TypeOK, Labels, Goto, Read, counts
    <2>3. Apart(t)
        <3>1. ASSUME NEW u \in Threads \ {t}, NEW k \in InCall \cup Copies
              PROVE  ref'[<<u, k>>] = ref[<<u, k>>]
            <4>1. <<u, k>> \in Holders
                BY DEF Holders
            <4> QED
                BY <4>1, <1>1, <2>1
        <3>2. \A u \in Threads \ {t} :
                  /\ pc'[u] = pc[u] /\ slot'[u] = slot[u] /\ pred'[u] = pred[u]
                  /\ copy'[u] = copy[u] /\ built'[u] = built[u] /\ back'[u] = back[u]
            BY <1>0, <1>3 DEF TypeOK, Goto, Read
        <3> QED
            BY <3>1, <3>2 DEF Apart
    <2>4. ref'[new] = ref[new] /\ ref'[drop] = pred[t] /\ slot'[t] \in Slots
          /\ pc'[t] = (IF pred[t] = Null THEN "settle" ELSE "release")
          /\ back'[t] = "settle" /\ built'[t] = Null
        <3>1. ref'[new] = ref[new] /\ ref'[drop] = pred[t]
            BY <1>0, <1>1, <1>3, <2>1 DEF TypeOK
        <3>2. slot'[t] \in Slots /\ built'[t] = Null
            BY <1>0, <1>1, <1>3, <2>1 DEF TypeOK
        <3>3. pc'[t] = (IF pred[t] = Null THEN "settle" ELSE "release")
            BY <1>1, <1>3 DEF TypeOK, Goto
        <3>4. back'[t] = "settle"
            BY <1>1, <1>3 DEF TypeOK
        <3> QED
            BY <3>1, <3>2, <3>3, <3>4
    <2>5. RegsOf(t)'
        <3>1. copy'[t] = Null
            BY <1>0 DEF RegsOf, Copying, Ending
        <3>2. ~Copying(t)' /\ ~Building(t)' /\ ~Storing(t)' /\ Settling(t)'
            BY <2>4 DEF Building, Storing, Settling, Copying, Ending
        <3> QED
            BY <1>2, <2>1, <2>4, <3>1, <3>2 DEF RegsOf
    <2>6. RegsInv'
        BY <2>3, <2>5, OtherRegs, <1>0 DEF counts
    <2>7. CountsReferences'
        <3>0. got \in Holders /\ drop \in Holders /\ got # drop
            OBVIOUS
        <3> HIDE DEF IInv, i, got, drop, new
        <3>1. \A c \in Blocks : Cardinality(Refs(ref', c)) = Cardinality(Refs(ref, c))
            BY <1>1, <1>2, <2>1, <3>0, ShiftRefs
        <3>5. \A c \in Blocks : Cardinality(Refs(ref', c)) = use_count[c]
            BY <3>1 DEF IInv, CountsReferences, Refs
        <3> QED
            BY <3>5, <1>0 DEF CountsReferences, Refs, counts
    <2>8. \A u \in Threads :
              \/ pc'[u] = pc[u] /\ pred'[u] = pred[u]
              \/ /\ pc[u] \notin {"init", "count", "delete", "recycle"}
                 /\ pc'[u] \notin {"init", "count", "delete", "recycle"}
        BY <1>0, <1>3 DEF TypeOK, Goto, Read
    <2>9. BlockInv' /\ WeakInv'
        <3>1. \A u \in Threads, b \in Blocks : Preparing(u, b)' <=> Preparing(u, b)
            BY <2>8 DEF Preparing
        <3>2. BlockInv'
            BY <3>1, <1>0 DEF BlockInv, counts
        <3>3. WeakInv'
            BY <2>8, <1>0 DEF WeakInv, counts
        <3> QED
            BY <3>2, <3>3
    <2>10. \A b \in Blocks : InUse(b)' <=> InUse(b)
        BY <2>8, <1>0 DEF InUse, counts
    <2>11. \A u \in Threads : built'[u] # Null =>
               built'[u] = built[u] /\ ref'[<<u, "new">>] = ref[<<u, "new">>]
        <3>1. built'[t] = Null /\ \A u \in Threads \ {t} : built'[u] = built[u]
            BY <1>3 DEF TypeOK
        <3>2. \A u \in Threads \ {t} : ref'[<<u, "new">>] = ref[<<u, "new">>]
            BY <2>3 DEF Apart, InCall
        <3> QED
            BY <3>1, <3>2
    <2>12. PlayerInv'
        <3>1. UNCHANGED <<ptr, player>>
            BY <1>0 DEF counts
        <3>2. PlayerInv
            OBVIOUS
        <3> HIDE DEF IInv, InUse
        <3> QED
            BY ZenonT(30), <2>10, <2>11, <3>1, <3>2 DEF PlayerInv
    <2>13. OwnedInv'
        <3>1. InUse(ref[new])
            BY <1>2, UsedByHolder DEF InUse
        <3>2. \A u \in Threads \ {t} : built'[u] = built[u]
            BY <1>3 DEF TypeOK
        <3> QED
            BY <1>0, <1>2, <2>10, <3>1, <3>2 DEF OwnedInv, counts
    <2> QED
        BY <2>2, <2>6, <2>7, <2>9, <2>12, <2>13
<1>4. CASE Release(t, got, "store") /\ built' = built
    <2>1. /\ ref' \in [Holders -> Blocks \cup {Null}]
          /\ ref'[got] = Null /\ ref'[drop] = ref[got]
          /\ \A h \in Holders \ {got, drop} : ref'[h] = ref[h]
        BY <1>2, <1>4 DEF TypeOK, Release
    <2>2. TypeOK'
        BY <1>0, <1>4, <2>1 DEF TypeOK, Labels, Goto, Release, counts
    <2>3. Apart(t)
        BY ZenonT(30), <1>0, <1>4, <2>1 DEF Apart, TypeOK, InCall, Goto, Release
    <2>4. RegsOf(t)'
        BY <1>0, <1>2, <1>4, <2>1 DEF TypeOK, RegsOf, Building, Storing, Settling,
           Copying, Ending, Goto, Release, counts
    <2>5. RegsInv'
        BY <2>3, <2>4, OtherRegs, <1>0 DEF counts
    <2>6. CountsReferences'
        BY <1>0, <1>2, <2>1, CountsPassed DEF counts
    <2>7. \A u \in Threads : ref'[<<u, "new">>] = ref[<<u, "new">>]
        BY <2>1
    <2>8. BlockInv' /\ PlayerInv' /\ OwnedInv' /\ WeakInv'
        BY <1>0, <1>4, <2>7, QuietStep DEF TypeOK, Goto, Release, counts
    <2> QED
        BY <2>2, <2>5, <2>6, <2>8
<1> QED
    BY <1>3, <1>4 DEF StoreSwap

\* A player is built that no block has yet.
LEMMA LoginIInv ==
    ASSUME IInv, NEW t \in Threads, NEW i \in Slots, Login(t, i)
    PROVE  IInv'
<1> USE HoldersApart DEF IInv
<1>0. RegsOf(t) /\ pc[t] = "idle" /\ pc' = [pc EXCEPT ![t] = "alloc"]
      /\ slot' = [slot EXCEPT ![t] = i]
      /\ UNCHANGED <<ref, use_count, weak_count, ptr, made, free, pred, copy, back>>
    BY DEF RegsInv, Login, Goto
<1> PICK p \in Players : /\ player[p] = "unbuilt"
                         /\ player' = [player EXCEPT ![p] = "alive"]
                         /\ built' = [built EXCEPT ![t] = p]
    BY DEF Login
<1>1. TypeOK'
    BY <1>0 DEF TypeOK, Labels
<1>2. RegsInv'
    <2>1. Apart(t)
        BY <1>0 DEF Apart, TypeOK
    <2>2. RegsOf(t)'
        BY <1>0 DEF TypeOK, RegsOf, Building, Storing, Settling, Copying, Ending
    <2> QED
        BY <2>1, <2>2, OtherRegs, <1>0
<1>3. CountsReferences'
    BY <1>0 DEF CountsReferences
<1>4. BlockInv'
    BY <1>0 DEF BlockInv, Preparing, TypeOK
<1>5. \A b \in Blocks : InUse(b)' <=> InUse(b)
    BY <1>0 DEF InUse, TypeOK
<1>6. \A q \in Players : player'[q] = IF q = p THEN "alive" ELSE player[q]
    BY DEF TypeOK
<1>7. \A u \in Threads : built'[u] = IF u = t THEN p ELSE built[u]
    BY DEF TypeOK
<1>8. built[t] = Null /\ \A u \in Threads : built[u] # p
    BY <1>0 DEF PlayerInv, RegsOf, Building, Storing, Ending
<1>9. \A b \in Blocks : InUse(b) => ptr[b] # p
    BY DEF PlayerInv
<1>10. \A u \in Threads : built[u] # Null => built[u] \in Players
    BY DEF TypeOK
<1>11. PlayerInv'
    BY <1>0, <1>5, <1>6, <1>7, <1>8, <1>9, <1>10 DEF PlayerInv
<1>12. OwnedInv'
    BY <1>0, <1>5, <1>6, <1>7, <1>8 DEF OwnedInv
<1>13. WeakInv'
    BY <1>0 DEF WeakInv, TypeOK
<1> QED
    BY <1>1, <1>2, <1>3, <1>4, <1>11, <1>12, <1>13

\* The block comes off the list, or is new: nobody else has it.
LEMMA AllocIInv ==
    ASSUME IInv, NEW t \in Threads, Alloc(t)
    PROVE  IInv'
<1> USE HoldersApart DEF IInv
<1>0. RegsOf(t) /\ pc[t] = "alloc" /\ pc' = [pc EXCEPT ![t] = "init"]
      /\ UNCHANGED <<ref, use_count, weak_count, ptr, player, slot, copy, built, back>>
    BY DEF RegsInv, Alloc, Goto
<1> PICK b \in Blocks :
        /\ \/ b \in free /\ free' = free \ {b} /\ UNCHANGED made
           \/ b \notin made /\ made' = made \cup {b} /\ UNCHANGED free
        /\ pred' = [pred EXCEPT ![t] = b]
    BY DEF Alloc, Read
<1>1. TypeOK'
    BY <1>0 DEF TypeOK, Labels
<1>2. RegsInv'
    <2>1. Apart(t)
        BY <1>0 DEF Apart, TypeOK
    <2>2. RegsOf(t)'
        BY <1>0 DEF TypeOK, RegsOf, Building, Storing, Settling, Copying, Ending
    <2> QED
        BY <2>1, <2>2, OtherRegs, <1>0
<1>3. CountsReferences'
    BY <1>0 DEF CountsReferences
<1>4. use_count[b] = 0 /\ b \in made' \ free' /\ \A u \in Threads : ~Preparing(u, b)
    BY DEF BlockInv, TypeOK
<1>5. \A c \in Blocks \ {b} : c \in made' \ free' <=> c \in made \ free
    OBVIOUS
<1>6. \A u \in Threads, c \in Blocks :
          Preparing(u, c)' <=> Preparing(u, c) \/ (u = t /\ c = b)
    BY <1>0 DEF Preparing, TypeOK
<1>7. BlockInv'
    BY <1>0, <1>4, <1>5, <1>6 DEF BlockInv
<1>8. \A c \in Blocks : InUse(c)' <=> InUse(c)
    BY <1>0 DEF InUse, TypeOK
<1>9. PlayerInv' /\ OwnedInv'
    BY <1>0, <1>8, SamePlayers
<1>10. WeakInv'
    BY <1>0 DEF WeakInv, TypeOK
<1> QED
    BY <1>1, <1>2, <1>3, <1>7, <1>9, <1>10

\* The pointer is set in a block that nobody uses.
LEMMA InitPtrIInv ==
    ASSUME IInv, NEW t \in Threads, InitPtr(t)
    PROVE  IInv'
<1> DEFINE b == pred[t]
<1> USE HoldersApart DEF IInv
<1>0. RegsOf(t) /\ pc[t] = "init" /\ pc' = [pc EXCEPT ![t] = "count"]
      /\ ptr' = [ptr EXCEPT ![b] = built[t]]
      /\ weak_count' = [weak_count EXCEPT ![b] = 1]
      /\ UNCHANGED <<ref, use_count, player, made, free, slot, pred, copy, built, back>>
    BY DEF RegsInv, InitPtr, Goto
<1>1. b \in Blocks /\ built[t] \in Players
    BY <1>0 DEF TypeOK, RegsOf, Building
<1>2. use_count[b] = 0 /\ \A u \in Threads \ {t} : ~Preparing(u, b)
    BY <1>0, <1>1 DEF BlockInv, Preparing
<1>3. ~InUse(b) /\ \A h \in Holders : ref[h] # b
    BY <1>0, <1>1, <1>2, UsedByHolder DEF InUse, Preparing
<1>4. TypeOK'
    BY <1>0, <1>1 DEF TypeOK, Labels
<1>5. \A c \in Blocks \ {b} : ptr'[c] = ptr[c]
    BY <1>0 DEF TypeOK
<1>6. RegsInv'
    <2>1. Apart(t)
        BY <1>0 DEF Apart, TypeOK
    <2>2. RegsOf(t)'
        BY <1>0, <1>1 DEF TypeOK, RegsOf, Building, Storing, Settling, Copying, Ending
    <2>3. ASSUME NEW u \in Threads \ {t}
          PROVE  /\ Storing(u) => ptr'[ref[<<u, "new">>]] = ptr[ref[<<u, "new">>]]
                 /\ pc[u] = "count" => ptr'[pred[u]] = ptr[pred[u]]
        <3>0. /\ RegsOf(u) /\ ref[<<u, "new">>] \in Blocks \cup {Null}
              /\ pred[u] \in Blocks \cup {Null}
            BY DEF RegsInv, TypeOK
        <3> HIDE DEF IInv, b
        <3>1. Storing(u) => ref[<<u, "new">>] \in Blocks \ {b}
            BY <1>3, <3>0 DEF RegsOf
        <3>2. pc[u] = "count" => pred[u] \in Blocks \ {b}
            BY <1>2, <3>0 DEF RegsOf, Preparing
        <3> QED
            BY <1>5, <3>1, <3>2
    <2> QED
        BY <2>1, <2>2, <2>3, OtherRegs
<1>7. CountsReferences'
    BY <1>0 DEF CountsReferences
<1>8. \A u \in Threads, c \in Blocks : Preparing(u, c)' <=> Preparing(u, c)
    BY <1>0 DEF Preparing, TypeOK
<1>9. BlockInv'
    BY <1>0, <1>8 DEF BlockInv
<1>10. \A c \in Blocks : InUse(c)' <=> InUse(c)
    BY <1>0 DEF InUse, TypeOK
<1>11. \A c \in Blocks : InUse(c) => ptr'[c] = ptr[c]
    BY <1>3, <1>5
<1>12. PlayerInv'
    <2>1. PlayerInv
        OBVIOUS
    <2> HIDE DEF IInv, InUse, b
    <2> QED
        BY <1>0, <1>10, <1>11, <2>1 DEF PlayerInv
<1>13. OwnedInv'
    <2>1. OwnedInv
        OBVIOUS
    <2> HIDE DEF IInv, InUse, b
    <2> QED
        BY <1>0, <1>10, <1>11, <2>1 DEF OwnedInv
<1>14. WeakInv'
    <2>1. \A c \in Blocks : weak_count'[c] = IF c = b THEN 1 ELSE weak_count[c]
        BY <1>0 DEF TypeOK
    <2>2. \A u \in Threads : pc'[u] \in {"count", "delete", "recycle"} =>
              u = t \/ pc[u] \in {"count", "delete", "recycle"}
        BY <1>0 DEF TypeOK
    <2>3. \A u \in Threads : pc[u] \in {"count", "delete", "recycle"} => pred[u] \in Blocks
        <3>1. \A u \in Threads : pred[u] \in Blocks \cup {Null}
            BY DEF TypeOK
        <3>2. \A u \in Threads : pc[u] \in {"delete", "recycle", "count"} => pred[u] # Null
            BY DEF RegsInv, RegsOf
        <3> QED
            BY <3>1, <3>2
    <2> QED
        BY <1>0, <1>1, <2>1, <2>2, <2>3 DEF WeakInv
<1> QED
    BY <1>4, <1>6, <1>7, <1>9, <1>12, <1>13, <1>14

\* The block is in use, by the one reference that make_shared returns.
LEMMA InitCountIInv ==
    ASSUME IInv, NEW t \in Threads, InitCount(t)
    PROVE  IInv'
<1> DEFINE b   == pred[t]
           new == <<t, "new">>
<1> USE HoldersApart DEF IInv
<1>0. RegsOf(t) /\ pc[t] = "count" /\ pc' = [pc EXCEPT ![t] = "store"]
      /\ use_count' = [use_count EXCEPT ![b] = 1]
      /\ ref' = [ref EXCEPT ![new] = b]
      /\ pred' = [pred EXCEPT ![t] = Null]
      /\ UNCHANGED <<weak_count, ptr, player, made, free, slot, copy, built, back>>
    BY DEF RegsInv, InitCount, Goto, Read
<1>1. b \in Blocks /\ built[t] \in Players /\ ptr[b] = built[t] /\ ref[new] = Null
    BY <1>0 DEF TypeOK, RegsOf, Building, Storing, Settling, Ending
<1>2. /\ use_count[b] = 0 /\ b \in made \ free
      /\ \A u \in Threads \ {t} : ~Preparing(u, b)
    BY <1>0, <1>1 DEF BlockInv, Preparing
<1>3. ~InUse(b)
    BY <1>0, <1>1, <1>2 DEF InUse, Preparing
<1>4. /\ ref' \in [Holders -> Blocks \cup {Null}] /\ ref'[new] = b
      /\ \A h \in Holders \ {new} : ref'[h] = ref[h]
    BY <1>0, <1>1 DEF TypeOK
<1>5. TypeOK'
    BY <1>0, <1>1, <1>4 DEF TypeOK, Labels
<1>6. RegsInv'
    <2>1. Apart(t)
        BY <1>0, <1>4 DEF Apart, TypeOK, InCall
    <2>2. RegsOf(t)'
        BY <1>0, <1>1, <1>4 DEF TypeOK, RegsOf, Building, Storing, Settling, Copying,
           Ending
    <2> QED
        BY <2>1, <2>2, OtherRegs, <1>0
<1>7. CountsReferences'
    <2>1. use_count' = [use_count EXCEPT ![b] = @ + 1]
        BY <1>0, <1>1, <1>2 DEF TypeOK
    <2> QED
        BY <2>1, <1>1, <1>4, CountsTaken
<1>8. \A u \in Threads, c \in Blocks : Preparing(u, c)' <=> Preparing(u, c) /\ u # t
    BY <1>0 DEF Preparing, TypeOK
<1>9. \A c \in Blocks : use_count'[c] = IF c = b THEN 1 ELSE use_count[c]
    BY <1>0, <1>1 DEF TypeOK
<1>10. BlockInv'
    BY <1>0, <1>2, <1>8, <1>9 DEF BlockInv
<1>11. \A c \in Blocks : InUse(c)' <=> InUse(c) \/ c = b
    BY <1>0, <1>9 DEF InUse, TypeOK
<1>12. /\ player[built[t]] = "alive"
       /\ \A c \in Blocks : InUse(c) => ptr[c] # built[t]
       /\ \A u \in Threads \ {t} : built[u] # built[t]
    BY <1>1 DEF PlayerInv
<1>13. PlayerInv'
    <2>1. PlayerInv /\ \A u \in Threads \ {t} : ref'[<<u, "new">>] = ref[<<u, "new">>]
        BY <1>4
    <2> HIDE DEF IInv, InUse, b
    <2> QED
        BY <1>0, <1>1, <1>4, <1>11, <1>12, <2>1 DEF PlayerInv
<1>14. OwnedInv'
    <2>1. OwnedInv
        OBVIOUS
    <2> HIDE DEF IInv, InUse, b
    <2> QED
        BY <1>0, <1>11, <2>1 DEF OwnedInv
<1>15. WeakInv'
    BY <1>0, <1>9 DEF WeakInv, TypeOK
<1> QED
    BY <1>5, <1>6, <1>7, <1>10, <1>13, <1>14, <1>15

\* The last reference leaves the block to the thread that gave it up.
LEMMA ReleaseCountIInv ==
    ASSUME IInv, NEW t \in Threads, ReleaseCount(t)
    PROVE  IInv'
<1> DEFINE drop == <<t, "drop">>
           b    == ref[drop]
<1> USE HoldersApart DEF IInv
<1>0. /\ RegsOf(t) /\ pc[t] = "release"
      /\ use_count' = [use_count EXCEPT ![b] = @ - 1]
      /\ ref' = [ref EXCEPT ![drop] = Null]
      /\ UNCHANGED <<weak_count, ptr, player, made, free, built>>
    BY DEF RegsInv, ReleaseCount
<1>1. b \in Blocks
    BY <1>0 DEF RegsOf, TypeOK
<1>2. use_count[b] \in Nat /\ use_count[b] > 0
    BY <1>1, UsedByHolder DEF TypeOK
<1>3. /\ ref' \in [Holders -> Blocks \cup {Null}] /\ ref'[drop] = Null
      /\ \A h \in Holders \ {drop} : ref'[h] = ref[h]
    BY <1>0, <1>1 DEF TypeOK
<1>4. /\ use_count' \in [Blocks -> Nat] /\ use_count'[b] = use_count[b] - 1
      /\ \A c \in Blocks \ {b} : use_count'[c] = use_count[c]
    BY <1>0, <1>1, <1>2 DEF TypeOK
<1>5. CountsReferences'
    BY <1>0, <1>1, <1>3, CountsGiven
<1>6. \A u \in Threads : ~Preparing(u, b) /\ ~Preparing(t, u)
    BY <1>0, <1>1, <1>2 DEF BlockInv, Preparing
<1>7. \A u \in Threads : built[u] # Null => ref'[<<u, "new">>] = ref[<<u, "new">>]
    BY <1>3
<1>8. CASE /\ use_count[b] = 1
           /\ pc' = [pc EXCEPT ![t] = "delete"]
           /\ pred' = [pred EXCEPT ![t] = b]
           /\ UNCHANGED <<slot, copy, back>>
    <2>1. TypeOK'
        BY <1>0, <1>1, <1>3, <1>4, <1>8 DEF TypeOK, Labels
    <2>2. Apart(t)
        BY <1>0, <1>3, <1>8 DEF Apart, TypeOK, InCall
    <2>3. RegsOf(t)'
        BY <1>0, <1>1, <1>3, <1>8 DEF TypeOK, RegsOf, Building, Storing, Settling,
           Copying, Ending
    <2>4. RegsInv'
        BY <2>2, <2>3, OtherRegs, <1>0
    <2>5. \A u \in Threads, c \in Blocks :
              Preparing(u, c)' <=> Preparing(u, c) \/ (u = t /\ c = b)
        BY <1>0, <1>8 DEF Preparing, TypeOK
    <2>6. BlockInv'
        <3>1. BlockInv /\ use_count'[b] = 0
            BY <1>4, <1>8
        <3>2. \A c \in Blocks : c \in made' \ free' <=> c \in made \ free
            BY <1>0
        <3>3. \A c \in Blocks : use_count'[c] > 0 => use_count[c] > 0
            BY <1>4, <3>1
        <3> HIDE DEF IInv, b
        <3> QED
            BY <1>1, <1>2, <1>4, <1>6, <2>5, <3>1, <3>2, <3>3 DEF BlockInv
    <2>7. \A c \in Blocks : InUse(c)' <=> InUse(c)
        <3>1. \A c \in Blocks : c = b => InUse(c)' /\ InUse(c)
            BY <1>0, <1>2, <1>8 DEF InUse, TypeOK
        <3>2. \A c \in Blocks \ {b} : InUse(c)' <=> InUse(c)
            BY <1>0, <1>4, <1>8 DEF InUse, TypeOK
        <3> QED
            BY <3>1, <3>2
    <2>8. PlayerInv' /\ OwnedInv'
        BY <1>0, <1>7, <2>7, SamePlayers
    <2>9. WeakInv'
        BY <1>0, <1>1, <1>2, <1>4, <1>8 DEF WeakInv, TypeOK
    <2> QED
        BY <2>1, <2>4, <1>5, <2>6, <2>8, <2>9
<1>9. CASE use_count[b] # 1 /\ Resume(t)
    <2>0. /\ pc' = [pc EXCEPT ![t] = back[t]]
          /\ back[t] \in {"idle", "store", "settle", "read"}
          /\ slot' = IF back[t] = "idle" THEN [slot EXCEPT ![t] = Null] ELSE slot
          /\ copy' = IF back[t] = "idle" THEN [copy EXCEPT ![t] = Null] ELSE copy
          /\ pred' = [pred EXCEPT ![t] = Null]
          /\ back' = [back EXCEPT ![t] = "idle"]
        BY <1>9 DEF Resume, Goto, TypeOK
    <2>1. TypeOK'
        BY <1>0, <1>1, <1>3, <1>4, <2>0 DEF TypeOK, Labels
    <2>2. Apart(t)
        BY <1>0, <1>3, <2>0 DEF Apart, TypeOK, InCall
    <2>3. RegsOf(t)'
        BY <1>0, <1>1, <1>3, <2>0 DEF TypeOK, RegsOf, Building, Storing, Settling,
           Copying, Ending
    <2>4. RegsInv'
        BY <2>2, <2>3, OtherRegs, <1>0
    <2>5. /\ \A c \in Blocks : use_count'[c] > 0 <=> use_count[c] > 0
          /\ \A c \in Blocks : use_count[c] = 0 => use_count'[c] = 0
        BY <1>2, <1>4, <1>9
    <2>6. BlockInv' /\ PlayerInv' /\ OwnedInv' /\ WeakInv'
        BY <1>0, <1>7, <2>0, <2>5, QuietStep DEF TypeOK
    <2> QED
        BY <2>1, <2>4, <1>5, <2>6
<1> QED
    BY <1>8, <1>9 DEF ReleaseCount, Goto, Read

\* The player of a block that nobody counts is deleted; no other block has it.
LEMMA DeletePlayerIInv ==
    ASSUME IInv, NEW t \in Threads, DeletePlayer(t)
    PROVE  IInv'
<1> DEFINE b == pred[t]
           p == ptr[b]
<1> USE HoldersApart DEF IInv
<1>0. /\ RegsOf(t) /\ pc[t] = "delete" /\ pc' = [pc EXCEPT ![t] = "recycle"]
      /\ player' = [player EXCEPT ![p] = "deleted"]
      /\ UNCHANGED <<ref, use_count, weak_count, ptr, made, free, slot, pred, copy,
                     built, back>>
    BY DEF RegsInv, DeletePlayer, Goto
<1>1. b \in Blocks /\ InUse(b)
    BY <1>0 DEF TypeOK, RegsOf, InUse
<1>2. p \in Players /\ \A c \in Blocks \ {b} : InUse(c) => ptr[c] # p
    BY <1>1 DEF PlayerInv
<1>3. use_count[b] = 0 /\ \A u \in Threads \ {t} : ~Preparing(u, b)
    BY <1>0, <1>1 DEF BlockInv, Preparing
<1>4. \A u \in Threads : built[u] # p
    <2>1. \A h \in Holders : ref[h] # b
        BY <1>1, <1>3, UsedByHolder
    <2> QED
        BY <1>1, <1>2, <2>1 DEF PlayerInv
<1>5. TypeOK'
    BY <1>0, <1>2 DEF TypeOK, Labels
<1>6. RegsInv'
    <2>1. Apart(t)
        BY <1>0 DEF Apart, TypeOK
    <2>2. RegsOf(t)'
        BY <1>0 DEF TypeOK, RegsOf, Building, Storing, Settling, Copying, Ending
    <2> QED
        BY <2>1, <2>2, OtherRegs, <1>0
<1>7. CountsReferences'
    BY <1>0 DEF CountsReferences
<1>8. \A u \in Threads, c \in Blocks : Preparing(u, c)' <=> Preparing(u, c)
    BY <1>0 DEF Preparing, TypeOK
<1>9. BlockInv'
    BY <1>0, <1>8 DEF BlockInv
<1>10. \A c \in Blocks : InUse(c)' <=> InUse(c) /\ c # b
    BY <1>0, <1>3 DEF InUse, TypeOK, Preparing
<1>11. \A q \in Players : player'[q] = IF q = p THEN "deleted" ELSE player[q]
    BY <1>0 DEF TypeOK
<1>12. \A u \in Threads : built[u] \in Players \cup {Null}
    BY DEF TypeOK
<1>13. PlayerInv'
    <2>1. PlayerInv
        OBVIOUS
    <2> HIDE DEF IInv, InUse, b, p
    <2> QED
        BY <1>0, <1>2, <1>4, <1>10, <1>11, <1>12, <2>1 DEF PlayerInv
<1>14. OwnedInv'
    <2>1. OwnedInv /\ p = ptr[b]
        OBVIOUS
    <2> HIDE DEF IInv, InUse, b, p
    <2> QED
        BY <1>0, <1>10, <1>11, <2>1 DEF OwnedInv
<1>15. WeakInv'
    BY <1>0 DEF WeakInv, TypeOK
<1> QED
    BY <1>5, <1>6, <1>7, <1>9, <1>13, <1>14, <1>15

\* The block goes back to the list, or is lost.
LEMMA RecycleIInv ==
    ASSUME IInv, NEW t \in Threads, Recycle(t)
    PROVE  IInv'
<1> DEFINE b == pred[t]
<1> USE HoldersApart DEF IInv
<1>0. /\ RegsOf(t) /\ pc[t] = "recycle" /\ pc' = [pc EXCEPT ![t] = back[t]]
      /\ back[t] \in {"idle", "store", "settle", "read"}
      /\ slot' = IF back[t] = "idle" THEN [slot EXCEPT ![t] = Null] ELSE slot
      /\ copy' = IF back[t] = "idle" THEN [copy EXCEPT ![t] = Null] ELSE copy
      /\ pred' = [pred EXCEPT ![t] = Null]
      /\ back' = [back EXCEPT ![t] = "idle"]
      /\ weak_count' = [weak_count EXCEPT ![b] = 0]
      /\ free' \in {free, free \cup {b}}
      /\ UNCHANGED <<ref, use_count, ptr, player, made, built>>
    BY DEF RegsInv, Recycle, Resume, Goto, TypeOK
<1>1. b \in Blocks
    BY <1>0 DEF TypeOK, RegsOf
<1>2. /\ use_count[b] = 0 /\ b \in made \ free
      /\ \A u \in Threads \ {t} : ~Preparing(u, b)
    BY <1>0, <1>1 DEF BlockInv, Preparing
<1>3. TypeOK'
    BY <1>0, <1>1, <1>2 DEF TypeOK, Labels
<1>4. RegsInv'
    <2>1. Apart(t)
        BY <1>0 DEF Apart, TypeOK
    <2>2. RegsOf(t)'
        BY <1>0 DEF TypeOK, RegsOf, Building, Storing, Settling, Copying, Ending
    <2> QED
        BY <2>1, <2>2, OtherRegs, <1>0
<1>5. CountsReferences'
    BY <1>0 DEF CountsReferences
<1>6. \A u \in Threads, c \in Blocks : Preparing(u, c)' <=> Preparing(u, c) /\ u # t
    BY <1>0 DEF Preparing, TypeOK
<1>7. BlockInv'
    <2>1. \A c \in Blocks \ {b} : c \in made' \ free' <=> c \in made \ free
        BY <1>0
    <2>2. BlockInv
        OBVIOUS
    <2> HIDE DEF IInv, b
    <2> QED
        BY <1>0, <1>2, <1>6, <2>1, <2>2 DEF BlockInv
<1>8. \A c \in Blocks : InUse(c)' <=> InUse(c)
    BY <1>0 DEF InUse, TypeOK
<1>9. PlayerInv' /\ OwnedInv'
    BY <1>0, <1>8, SamePlayers
<1>10. WeakInv'
    <2>1. \A c \in Blocks \ {b} : weak_count'[c] = weak_count[c]
        BY <1>0 DEF TypeOK
    <2>2. \A u \in Threads : pc'[u] \in {"count", "delete", "recycle"} =>
              u # t /\ pc'[u] = pc[u] /\ pred'[u] = pred[u]
        BY <1>0 DEF TypeOK
    <2>3. \A u \in Threads : pred[u] \in Blocks \cup {Null}
        BY DEF TypeOK
    <2>4. \A u \in Threads : pc[u] \in {"count", "delete", "recycle"} => pred[u] # Null
        BY DEF RegsInv, RegsOf
    <2>5. WeakInv
        OBVIOUS
    <2> HIDE DEF IInv, b
    <2> QED
        BY <1>0, <1>2, <2>1, <2>2, <2>3, <2>4, <2>5 DEF WeakInv, Preparing
<1> QED
    BY <1>3, <1>4, <1>5, <1>7, <1>9, <1>10

-----------------------------------------------------------------------------
(* The specification *)

\* Nothing is made yet.
LEMMA InitIInv == Init => IInv
<1> SUFFICES ASSUME Init PROVE IInv
    OBVIOUS
<1> USE HoldersApart DEF Init
<1>1. TypeOK
    BY DEF TypeOK, Labels
<1>2. RegsInv
    BY DEF RegsInv, RegsOf, Building, Storing, Settling, Copying, Ending
<1>3. CountsReferences
    <2>1. \A b \in Blocks : {h \in Holders : ref[h] = b} = {}
        OBVIOUS
    <2> QED
        BY <2>1, FS_EmptySet DEF CountsReferences
<1>4. BlockInv /\ PlayerInv /\ OwnedInv /\ WeakInv
    BY DEF BlockInv, PlayerInv, OwnedInv, WeakInv, InUse, Preparing
<1> QED
    BY <1>1, <1>2, <1>3, <1>4 DEF IInv

\* Every step preserves the invariant.
LEMMA NextIInv == IInv /\ [Next]_vars => IInv'
<1> SUFFICES ASSUME IInv, [Next]_vars PROVE IInv'
    OBVIOUS
<1>1. ASSUME NEW t \in Threads, LoginStep(t) PROVE IInv'
    BY <1>1, LoginIInv, AllocIInv, InitPtrIInv, InitCountIInv, StoreReadIInv,
       StoreShareIInv, StoreSwapIInv, SettleIInv DEF LoginStep
<1>2. ASSUME NEW t \in Threads, CopyStep(t) PROVE IInv'
    BY <1>2, GetPlayerIInv, CopyCopyIInv, DestroyIInv, CopyReadIInv, CopyAddIInv,
       CopyCheckIInv DEF CopyStep
<1>3. ASSUME NEW t \in Threads, LogoutStep(t) PROVE IInv'
    BY <1>3, LogoutIInv, ClearReadIInv, ClearSwapIInv DEF LogoutStep
<1>4. ASSUME NEW t \in Threads, ReleaseStep(t) PROVE IInv'
    BY <1>4, ReleaseCountIInv, DeletePlayerIInv, RecycleIInv DEF ReleaseStep
<1>5. CASE UNCHANGED vars
    <2> USE <1>5 DEF IInv, vars, counts, regs
    <2>1. TypeOK' /\ CountsReferences'
        BY DEF TypeOK, CountsReferences
    <2>2. RegsInv'
        BY ZenonT(30) DEF RegsInv, RegsOf, Building, Storing, Settling, Copying, Ending
    <2>3. BlockInv' /\ PlayerInv' /\ OwnedInv' /\ WeakInv'
        BY DEF BlockInv, PlayerInv, OwnedInv, WeakInv, InUse, Preparing
    <2> QED
        BY <2>1, <2>2, <2>3
<1> QED
    BY <1>1, <1>2, <1>3, <1>4, <1>5 DEF Next

\* Every reachable state satisfies the inductive invariant.
THEOREM Inductive == Spec => []IInv
<1> QED
    BY InitIInv, NextIInv, PTL DEF Spec

\* Counts never go below zero, and the registers keep their types.
THEOREM TypeCorrect == Spec => []TypeOK
<1>1. IInv => TypeOK
    BY DEF IInv
<1> QED
    BY <1>1, Inductive, PTL

\* Whatever the interleaving of copies, stores and releases, the count of a
\* control block is the number of references to it.
THEOREM CountsExact == Spec => []CountsReferences
<1>1. IInv => CountsReferences
    BY DEF IInv
<1> QED
    BY <1>1, Inductive, PTL

\* Nobody holds a counted reference to a deleted player, and no player has two
\* blocks, which would delete it twice.
THEOREM ReferencesStayAlive == Spec => []ReferencesAlive
<1>1. IInv => ReferencesAlive
    <2> SUFFICES ASSUME IInv, NEW h \in Holders, ref[h] # Null,
                        NEW g \in Holders, ref[g] # Null
                 PROVE  /\ ptr[ref[h]] # Null
                        /\ player[ptr[ref[h]]] = "alive"
                        /\ ptr[ref[g]] = ptr[ref[h]] => ref[g] = ref[h]
        BY DEF ReferencesAlive
    <2>1. ref[h] \in Blocks /\ ref[g] \in Blocks
        BY DEF IInv, TypeOK
    <2>2. InUse(ref[h]) /\ InUse(ref[g])
        BY <2>1, UsedByHolder DEF IInv, InUse
    <2> QED
        BY <2>1, <2>2, HoldersApart DEF IInv, PlayerInv
<1> QED
    BY <1>1, Inductive, PTL

\* A player that lives is referred to, being built or being deleted: none is
\* lost.
THEOREM PlayersNotForgotten == Spec => []PlayerNotForgotten
<1>1. IInv => PlayerNotForgotten
    <2> SUFFICES ASSUME IInv, NEW p \in Players, player[p] = "alive",
                        NEW b \in Blocks, InUse(b), ptr[b] = p
                 PROVE  \/ \E h \in Holders : ref[h] # Null /\ ptr[ref[h]] = p
                        \/ \E t \in Threads : pc[t] = "delete" /\ ptr[pred[t]] = p
        BY DEF IInv, OwnedInv, PlayerNotForgotten
    <2>1. CASE use_count[b] > 0
        <3>1. PICK h \in Holders : ref[h] = b
            BY <2>1, UsedByHolder DEF IInv
        <3> QED
            BY <3>1, HoldersApart
    <2>2. CASE \E t \in Threads : pc[t] = "delete" /\ pred[t] = b
        BY <2>2
    <2> QED
        BY <2>1, <2>2 DEF InUse
<1> QED
    BY <1>1, Inductive, PTL

\* destroy() of a block finds the one weak count it looks for, so it always
\* hands the block to the recycle list.
DestroyFindsWeakCount ==
    \A t \in Threads : pc[t] = "recycle" => weak_count[pred[t]] = 1

\* A thread in destroy() finds exactly the weak count that make_shared gave the
\* block: with another it would leave the block out of the list.
THEOREM DestroyEnds == Spec => []DestroyFindsWeakCount
<1>1. IInv => DestroyFindsWeakCount
    BY DEF IInv, WeakInv, DestroyFindsWeakCount
<1> QED
    BY <1>1, Inductive, PTL

-----------------------------------------------------------------------------
(* The recycle list is used as BlockPool says *)

\* A block is out of the pool.
Out(b) == use_count[b] > 0 \/ \E t \in Threads : Preparing(t, b)

\* A step that gives or takes no block.
LEMMA PoolStutter ==
    ASSUME UNCHANGED <<made, free>>, \A b \in Blocks : Out(b)' <=> Out(b)
    PROVE  UNCHANGED Pool!bpVars
<1>1. {b \in Blocks : Out(b)}' = {b \in Blocks : Out(b)}
    OBVIOUS
<1> QED
    BY <1>1 DEF Out, Pool!bpVars

LEMMA AllocPool ==
    ASSUME IInv, NEW t \in Threads, Alloc(t)
    PROVE  Pool!BPNext
<1>0. pc[t] = "alloc" /\ pc' = [pc EXCEPT ![t] = "init"] /\ UNCHANGED use_count
    BY DEF Alloc, Goto
<1> PICK b \in Blocks :
        /\ \/ b \in free /\ free' = free \ {b} /\ UNCHANGED made
           \/ b \notin made /\ made' = made \cup {b} /\ UNCHANGED free
        /\ pred' = [pred EXCEPT ![t] = b]
    BY DEF Alloc, Read
<1>1. \A u \in Threads, c \in Blocks :
          Preparing(u, c)' <=> Preparing(u, c) \/ (u = t /\ c = b)
    BY <1>0 DEF Preparing, IInv, TypeOK
<1>2. {c \in Blocks : Out(c)}' = {c \in Blocks : Out(c)} \cup {b}
    BY <1>0, <1>1 DEF Out
<1> QED
    BY <1>2 DEF Pool!BPNext, Pool!New, Pool!Take, Out

LEMMA RecyclePool ==
    ASSUME IInv, NEW t \in Threads, Recycle(t)
    PROVE  Pool!BPNext
<1>0. /\ pc[t] = "recycle" /\ pc' = [pc EXCEPT ![t] = back[t]]
      /\ back[t] \in {"idle", "store", "settle", "read"}
      /\ free' \in {free, free \cup {pred[t]}} /\ UNCHANGED <<use_count, made>>
      /\ pred' = [pred EXCEPT ![t] = Null]
      /\ pred[t] # Null /\ pred[t] \in Blocks \cup {Null}
    BY DEF Recycle, Resume, Goto, IInv, TypeOK, RegsInv, RegsOf
<1> PICK b \in Blocks : b = pred[t]
    BY <1>0
<1>1. /\ use_count[b] = 0 /\ Preparing(t, b)
      /\ \A u \in Threads \ {t} : ~Preparing(u, b)
    BY <1>0 DEF IInv, BlockInv, Preparing
<1>2. \A u \in Threads, c \in Blocks : Preparing(u, c)' <=> Preparing(u, c) /\ u # t
    BY <1>0 DEF Preparing, IInv, TypeOK
<1>3. \A c \in Blocks : Preparing(t, c) => c = b
    BY DEF Preparing
<1>4. /\ {c \in Blocks : Out(c)}' = {c \in Blocks : Out(c)} \ {b}
      /\ b \in {c \in Blocks : Out(c)}
    BY <1>0, <1>1, <1>2, <1>3 DEF Out
<1> QED
    BY <1>0, <1>4 DEF Pool!BPNext, Pool!Give, Pool!Lose, Out

\* A step that is not at the making or at the end of a block.
LEMMA SameOut ==
    ASSUME \A b \in Blocks : use_count'[b] > 0 <=> use_count[b] > 0,
           \A t \in Threads :
               \/ pc'[t] = pc[t] /\ pred'[t] = pred[t]
               \/ /\ pc[t] \in {"init", "delete"} /\ pc'[t] \in {"count", "recycle"}
                  /\ pred'[t] = pred[t]
               \/ /\ pc[t] \notin {"init", "count", "delete", "recycle"}
                  /\ pc'[t] \notin {"init", "count", "delete", "recycle"}
    PROVE  \A b \in Blocks : Out(b)' <=> Out(b)
    BY DEF Out, Preparing

LEMMA LoginPool ==
    ASSUME IInv, NEW t \in Threads, LoginStep(t), ~Alloc(t)
    PROVE  UNCHANGED Pool!bpVars
<1> USE DEF IInv, Goto, Read, Release
<1>1. CASE (\E i \in Slots : Login(t, i)) \/ StoreRead(t)
    BY <1>1, SameOut, PoolStutter DEF Login, StoreRead, TypeOK, counts
<1>2. CASE InitPtr(t)
    BY <1>2, SameOut, PoolStutter DEF InitPtr, TypeOK
<1>3. CASE StoreSwap(t) \/ Settle(t)
    BY <1>3, SameOut, PoolStutter DEF StoreSwap, Settle, TypeOK, counts
<1>4. CASE StoreShare(t)
    <2>1. RegsOf(t) /\ pc[t] = "share" /\ <<t, "new">> \in Holders /\ <<t, "got">> \in Holders
          /\ ref[<<t, "new">>] \in Blocks \cup {Null}
        BY <1>4, HoldersApart DEF StoreShare, RegsInv, TypeOK
    <2>a. ref[<<t, "got">>] = Null /\ ref[<<t, "new">>] \in Blocks
        BY <2>1 DEF RegsOf, Storing
    <2>2. use_count[ref[<<t, "new">>]] > 0
        BY <2>1, <2>a, UsedByHolder
    <2>3. \A c \in Blocks : use_count'[c] > 0 <=> use_count[c] > 0
        BY <1>4, <2>1, <2>a, <2>2, CountedMore DEF StoreShare
    <2> QED
        BY <1>4, <2>3, SameOut, PoolStutter DEF StoreShare, TypeOK
<1>5. CASE InitCount(t)
    <2>0. /\ pc[t] = "count" /\ pc' = [pc EXCEPT ![t] = "store"]
          /\ use_count' = [use_count EXCEPT ![pred[t]] = 1]
          /\ pred' = [pred EXCEPT ![t] = Null]
          /\ UNCHANGED <<made, free>>
          /\ pred[t] # Null /\ pred[t] \in Blocks \cup {Null}
        BY <1>5 DEF InitCount, RegsInv, RegsOf, TypeOK
    <2> PICK b \in Blocks : b = pred[t]
        BY <2>0
    <2>1. \A u \in Threads, c \in Blocks : Preparing(u, c)' <=> Preparing(u, c) /\ u # t
        BY <2>0 DEF Preparing, TypeOK
    <2>2. \A c \in Blocks : use_count'[c] = IF c = b THEN 1 ELSE use_count[c]
        BY <2>0 DEF TypeOK
    <2>3. \A c \in Blocks : Preparing(t, c) <=> c = b
        BY <2>0 DEF Preparing
    <2>4. \A c \in Blocks : Out(c)' <=> Out(c)
        BY <2>1, <2>2, <2>3 DEF Out
    <2> QED
        BY <2>0, <2>4, PoolStutter
<1> QED
    BY <1>1, <1>2, <1>3, <1>4, <1>5 DEF LoginStep

LEMMA CopyPool ==
    ASSUME IInv, NEW t \in Threads, CopyStep(t)
    PROVE  UNCHANGED Pool!bpVars
<1> USE DEF IInv, Goto, Read, Release, Return
<1>1. CASE \E i \in Slots, k \in Copies : GetPlayer(t, i, k)
    BY <1>1, SameOut, PoolStutter DEF GetPlayer, TypeOK, counts
<1>2. CASE CopyRead(t)
    BY <1>2, SameOut, PoolStutter DEF CopyRead, TypeOK, counts
<1>3. CASE CopyCheck(t)
    BY <1>3, SameOut, PoolStutter DEF CopyCheck, TypeOK, counts
<1>4. CASE \E k \in Copies : Destroy(t, k)
    BY <1>4, SameOut, PoolStutter DEF Destroy, TypeOK, counts
<1>5. CASE CopyAdd(t)
    <2>0. RegsOf(t) /\ pc[t] = "add" /\ pred[t] \in Blocks \cup {Null}
        BY <1>5 DEF CopyAdd, RegsInv, TypeOK
    <2>1. ref[<<t, "got">>] = Null /\ pred[t] \in Blocks /\ <<t, "got">> \in Holders
        BY <2>0, HoldersApart DEF RegsOf
    <2>2. \A c \in Blocks : use_count'[c] > 0 <=> use_count[c] > 0
        BY <1>5, <2>1, CountedMore DEF CopyAdd
    <2> QED
        BY <1>5, <2>2, SameOut, PoolStutter DEF CopyAdd, TypeOK
<1>6. ASSUME NEW j \in Copies, NEW k \in Copies, CopyCopy(t, j, k)
      PROVE  UNCHANGED Pool!bpVars
    <2>1. /\ <<t, k>> \in Holders /\ <<t, j>> \in Holders
          /\ ref[<<t, k>>] = Null /\ ref[<<t, j>>] \in Blocks
        BY <1>6, HoldersApart DEF CopyCopy, TypeOK
    <2>2. use_count[ref[<<t, j>>]] > 0
        BY <2>1, UsedByHolder
    <2>3. \A c \in Blocks : use_count'[c] > 0 <=> use_count[c] > 0
        BY <1>6, <2>1, <2>2, CountedMore DEF CopyCopy
    <2> QED
        BY <1>6, <2>3, SameOut, PoolStutter DEF CopyCopy, TypeOK, regs
<1> QED
    BY <1>1, <1>2, <1>3, <1>4, <1>5, <1>6 DEF CopyStep

LEMMA LogoutPool ==
    ASSUME IInv, NEW t \in Threads, LogoutStep(t)
    PROVE  UNCHANGED Pool!bpVars
<1> USE DEF IInv, Goto, Read, Release, Return
<1>1. CASE \E i \in Slots : Logout(t, i)
    BY <1>1, SameOut, PoolStutter DEF Logout, TypeOK, counts
<1>2. CASE ClearRead(t)
    BY <1>2, SameOut, PoolStutter DEF ClearRead, TypeOK, counts
<1>3. CASE ClearSwap(t)
    BY <1>3, SameOut, PoolStutter DEF ClearSwap, TypeOK, counts
<1> QED
    BY <1>1, <1>2, <1>3 DEF LogoutStep

LEMMA ReleasePool ==
    ASSUME IInv, NEW t \in Threads, ReleaseCount(t) \/ DeletePlayer(t)
    PROVE  UNCHANGED Pool!bpVars
<1>1. CASE DeletePlayer(t)
    BY <1>1, SameOut, PoolStutter DEF DeletePlayer, IInv, TypeOK, Goto
<1>2. CASE ReleaseCount(t)
    <2>1. /\ pc[t] = "release" /\ UNCHANGED <<made, free>>
          /\ ref[<<t, "drop">>] # Null /\ ref[<<t, "drop">>] \in Blocks \cup {Null}
          /\ <<t, "drop">> \in Holders
        BY ZenonT(30), <1>2, HoldersApart DEF ReleaseCount, IInv, RegsInv, RegsOf, TypeOK
    <2> PICK b \in Blocks : b = ref[<<t, "drop">>]
        BY <2>1
    <2>2. use_count[b] \in Nat /\ use_count[b] > 0
        BY <2>1, UsedByHolder DEF IInv, TypeOK
    <2>3. \A c \in Blocks :
              use_count'[c] = IF c = b THEN use_count[c] - 1 ELSE use_count[c]
        BY <1>2 DEF ReleaseCount, IInv, TypeOK
    <2>4. CASE use_count[b] = 1
        <3>1. pc' = [pc EXCEPT ![t] = "delete"] /\ pred' = [pred EXCEPT ![t] = b]
            BY <1>2, <2>4 DEF ReleaseCount, Goto, Read, Resume
        <3>2. \A u \in Threads, c \in Blocks :
                  Preparing(u, c)' <=> Preparing(u, c) \/ (u = t /\ c = b)
            BY <2>1, <3>1 DEF Preparing, IInv, TypeOK
        <3>3. \A c \in Blocks : Out(c)' <=> Out(c)
            BY <2>2, <2>3, <2>4, <3>2 DEF Out
        <3> QED
            BY <2>1, <3>3, PoolStutter
    <2>5. CASE use_count[b] # 1
        <3>1. pc' = [pc EXCEPT ![t] = back[t]] /\ pred' = [pred EXCEPT ![t] = Null]
              /\ back[t] \in {"idle", "store", "settle", "read"}
            BY <1>2, <2>5 DEF ReleaseCount, Goto, Resume, IInv, TypeOK
        <3>2. \A c \in Blocks : use_count'[c] > 0 <=> use_count[c] > 0
            BY <2>2, <2>3, <2>5
        <3> QED
            BY <2>1, <3>1, <3>2, SameOut, PoolStutter DEF IInv, TypeOK
    <2> QED
        BY <2>4, <2>5
<1> QED
    BY <1>1, <1>2

\* Every step takes a block, gives one back or loses it, or keeps the pool.
LEMMA PoolStep == IInv /\ [Next]_vars => [Pool!BPNext]_(Pool!bpVars)
<1> SUFFICES ASSUME IInv, [Next]_vars PROVE [Pool!BPNext]_(Pool!bpVars)
    OBVIOUS
<1>1. ASSUME NEW t \in Threads,
             LoginStep(t) \/ CopyStep(t) \/ LogoutStep(t) \/ ReleaseStep(t)
      PROVE  [Pool!BPNext]_(Pool!bpVars)
    BY <1>1, AllocPool, RecyclePool, LoginPool, CopyPool, LogoutPool, ReleasePool
       DEF ReleaseStep
<1>2. CASE UNCHANGED vars
    BY <1>2 DEF vars, counts, regs, Pool!bpVars, Preparing
<1> QED
    BY <1>1, <1>2 DEF Next

\* Shared pointers use the recycle list as it demands: a block is given back
\* once, by a thread that has it to itself, after the last count is gone.
THEOREM BlocksRecycledOnce == Spec => RecyclesOnce
<1>1. Init => Pool!BPInit
    BY DEF Init, Pool!BPInit, Preparing
<1> QED
    BY <1>1, Inductive, PoolStep, PTL DEF Spec, RecyclesOnce, Pool!BPSpec

-----------------------------------------------------------------------------
(* Slots and copies own players as Ownership says *)

Owner   == [i \in Slots |-> Pointee(i)]
Kept    == [k \in Keepers |-> Pointee(k)]
Asking  == [k \in Keepers |-> Asked(k[1], k[2])]
Pending == {<<slot[t], built[t]>> : t \in {u \in Threads : built[u] # Null}}

\* A step of t that neither begins nor ends the making of a copy, nor the
\* building or storing of a player, of anybody.
SameCalls(t) ==
    /\ \A u \in Threads \ {t} : slot'[u] = slot[u] /\ copy'[u] = copy[u]
    /\ \/ slot'[t] = slot[t] /\ copy'[t] = copy[t]
       \/ built[t] = Null /\ copy[t] = Null /\ copy'[t] = Null

\* Slots and copies are holders, apart from each other and from the references
\* inside an operation.
LEMMA OwnersApart ==
    /\ Slots \subseteq Holders /\ Keepers \subseteq Holders
    /\ \A i \in Slots : i \notin Keepers
    /\ \A t \in Threads, k \in Copies : <<t, k>> \in Keepers
    /\ \A h \in Slots \cup Keepers, t \in Threads :
           h # <<t, "new">> /\ h # <<t, "got">> /\ h # <<t, "drop">>
<1>1. \A k \in Keepers : \E t \in Threads, c \in Copies : k = <<t, c>>
    BY DEF Keepers
<1>2. \A i \in Slots, t \in Threads :
          i # <<t, "new">> /\ i # <<t, "got">> /\ i # <<t, "drop">>
    BY HoldersApart DEF InCall
<1>3. \A k \in Keepers, t \in Threads :
          k # <<t, "new">> /\ k # <<t, "got">> /\ k # <<t, "drop">>
    BY <1>1, HoldersApart
<1>4. Slots \subseteq Holders /\ Keepers \subseteq Holders
    BY DEF Keepers, Holders
<1>5. \A i \in Slots : i \notin Keepers
    BY <1>1, HoldersApart
<1> QED
    BY <1>2, <1>3, <1>4, <1>5 DEF Keepers

\* Who holds a block owns its player.
LEMMA HeldPlayer ==
    ASSUME IInv, NEW h \in Holders
    PROVE  /\ ref[h] # Null =>
                  Pointee(h) = ptr[ref[h]] /\ Pointee(h) \in Players /\ InUse(ref[h])
           /\ ref[h] = Null => Pointee(h) = Null
<1>1. ASSUME ref[h] # Null PROVE ref[h] \in Blocks /\ InUse(ref[h])
    <2>1. ref[h] \in Blocks
        BY <1>1 DEF IInv, TypeOK
    <2> QED
        BY <2>1, UsedByHolder DEF IInv, InUse
<1>2. \A b \in Blocks : InUse(b) => ptr[b] \in Players
    BY DEF IInv, PlayerInv
<1> QED
    BY <1>1, <1>2 DEF Pointee

\* Who keeps its reference owns the same player as before ...
LEMMA SamePointee ==
    ASSUME NEW h, ref'[h] = ref[h], ref[h] # Null => ptr'[ref[h]] = ptr[ref[h]]
    PROVE  Pointee(h)' = Pointee(h)
    BY DEF Pointee

\* ... and who takes over a reference owns its player.
LEMMA PassPointee ==
    ASSUME NEW h, NEW g, ref'[h] = ref[g], UNCHANGED ptr
    PROVE  Pointee(h)' = Pointee(g)
    BY DEF Pointee

\* A step after which the slots own the same players, all but i.
LEMMA OwnerChange ==
    ASSUME NEW i \in Slots, NEW p, Pointee(i)' = p,
           \A j \in Slots \ {i} : Pointee(j)' = Pointee(j)
    PROVE  Owner' = [Owner EXCEPT ![i] = p]
    BY DEF Owner

LEMMA OwnerSame ==
    ASSUME \A i \in Slots : Pointee(i)' = Pointee(i)
    PROVE  Owner' = Owner
    BY DEF Owner

\* A step after which the copies keep the same players, all but k.
LEMMA KeptChange ==
    ASSUME NEW k \in Keepers, NEW p, Pointee(k)' = p,
           \A j \in Keepers \ {k} : Pointee(j)' = Pointee(j)
    PROVE  Kept' = [Kept EXCEPT ![k] = p]
    BY DEF Kept

LEMMA KeptSame ==
    ASSUME \A k \in Keepers : Pointee(k)' = Pointee(k)
    PROVE  Kept' = Kept
    BY DEF Kept

\* Only copy c of thread t may be asked for anew, or be finished.
LEMMA AskingChange ==
    ASSUME NEW t \in Threads, NEW c \in Copies,
           \A u \in Threads \ {t} : slot'[u] = slot[u] /\ copy'[u] = copy[u],
           copy[t] \in {c, Null}, copy'[t] \in {c, Null}
    PROVE  /\ <<t, c>> \in Keepers /\ Asking[<<t, c>>] = Asked(t, c)
           /\ Asking' = [Asking EXCEPT ![<<t, c>>] = Asked(t, c)']
<1>1. <<t, c>> \in Keepers
    BY DEF Keepers
<1>2. ASSUME NEW k \in Keepers \ {<<t, c>>}
      PROVE  Asked(k[1], k[2])' = Asked(k[1], k[2])
    <2> PICK u \in Threads, d \in Copies : k = <<u, d>>
        BY DEF Keepers
    <2>1. k[1] = u /\ k[2] = d /\ d # Null
        BY HoldersAssumption
    <2>2. CASE u # t
        BY <2>1, <2>2 DEF Asked
    <2>3. CASE u = t
        <3>1. d # c
            BY <2>3
        <3> QED
            BY <2>1, <2>3, <3>1 DEF Asked
    <2> QED
        BY <2>2, <2>3
<1>3. <<t, c>>[1] = t /\ <<t, c>>[2] = c
    OBVIOUS
<1>4. /\ Asking = [k \in Keepers |-> Asked(k[1], k[2])]
      /\ Asking' = [k \in Keepers |-> Asked(k[1], k[2])']
    BY DEF Asking
<1> HIDE DEF Asking
<1>5. \A k \in Keepers :
          Asking'[k] = IF k = <<t, c>> THEN Asked(t, c)' ELSE Asking[k]
    BY <1>2, <1>3, <1>4
<1> QED
    BY <1>1, <1>3, <1>4, <1>5

LEMMA CallsSame ==
    ASSUME NEW t \in Threads, SameCalls(t), UNCHANGED built
    PROVE  Asking' = Asking /\ Pending' = Pending
<1>1. ASSUME NEW k \in Keepers PROVE Asked(k[1], k[2])' = Asked(k[1], k[2])
    <2> PICK u \in Threads, d \in Copies : k = <<u, d>>
        BY DEF Keepers
    <2>1. k[1] = u /\ k[2] = d /\ d # Null
        BY HoldersAssumption
    <2> QED
        BY <2>1 DEF SameCalls, Asked
<1>2. \A u \in Threads : built[u] # Null => slot'[u] = slot[u]
    BY DEF SameCalls
<1> QED
    BY <1>1, <1>2 DEF Asking, Pending

\* A step that concerns neither slots nor copies nor players.
LEMMA OwnStutter ==
    ASSUME NEW t \in Threads, SameCalls(t), UNCHANGED <<player, built>>,
           \A h \in Slots \cup Keepers : Pointee(h)' = Pointee(h)
    PROVE  UNCHANGED Own!ownVars
<1>1. Owner' = Owner /\ Kept' = Kept
    BY OwnerSame, KeptSame
<1>2. Asking' = Asking /\ Pending' = Pending
    BY CallsSame
<1> QED
    BY <1>1, <1>2 DEF Own!ownVars, Owner, Kept, Asking, Pending

\* The end of release() and destroy() goes on with the call it was part of.
LEMMA ResumeSame ==
    ASSUME IInv, NEW t \in Threads, Ending(t), Resume(t)
    PROVE  SameCalls(t)
<1>1. RegsOf(t) /\ slot \in [Threads -> Slots \cup {Null}]
      /\ copy \in [Threads -> Copies \cup {Null}]
    BY DEF IInv, RegsInv, TypeOK
<1>2. CASE back[t] = "idle"
    <2>1. built[t] = Null /\ copy[t] = Null
        BY <1>1, <1>2 DEF RegsOf, Building, Storing, Copying, Ending
    <2> QED
        BY <1>1, <1>2, <2>1 DEF Resume, SameCalls
<1>3. CASE back[t] # "idle"
    BY <1>3 DEF Resume, SameCalls
<1> QED
    BY <1>2, <1>3

\* Login builds a player.
LEMMA LoginOwn ==
    ASSUME IInv, NEW t \in Threads, NEW i \in Slots, Login(t, i)
    PROVE  Own!OwnNext
<1> PICK p \in Players : /\ player[p] = "unbuilt"
                         /\ player' = [player EXCEPT ![p] = "alive"]
                         /\ built' = [built EXCEPT ![t] = p]
    BY DEF Login
<1>1. Owner' = Owner /\ Kept' = Kept
    <2>1. \A h : Pointee(h)' = Pointee(h)
        BY SamePointee DEF Login
    <2> QED
        BY <2>1, OwnerSame, KeptSame
<1>2. built[t] = Null /\ copy[t] = Null /\ Null \notin Players
    BY HoldersApart
       DEF IInv, RegsInv, RegsOf, Building, Storing, Copying, Ending, Login
<1>3. /\ \A q \in Players : player'[q] = IF q = p THEN "alive" ELSE player[q]
      /\ \A u \in Threads : built'[u] = IF u = t THEN p ELSE built[u]
      /\ \A u \in Threads : slot'[u] = IF u = t THEN i ELSE slot[u]
    BY DEF IInv, TypeOK, Login
<1>4. Pending' = Pending \cup {<<i, p>>}
    BY <1>2, <1>3 DEF Pending
<1>5. /\ {q \in Players : player[q] # "unbuilt"}' =
             {q \in Players : player[q] # "unbuilt"} \cup {p}
      /\ {q \in Players : player[q] = "alive"}' =
             {q \in Players : player[q] = "alive"} \cup {p}
    BY <1>3
<1>6. Asking' = Asking
    <2>1. copy' = copy
        BY DEF Login
    <2>2. ASSUME NEW k \in Keepers PROVE Asked(k[1], k[2])' = Asked(k[1], k[2])
        <3> PICK u \in Threads, d \in Copies : k = <<u, d>>
            BY DEF Keepers
        <3>1. k[1] = u /\ k[2] = d /\ d # Null
            BY HoldersAssumption
        <3> QED
            BY <1>2, <1>3, <2>1, <3>1 DEF Asked
    <2> QED
        BY <2>2 DEF Asking
<1>7. Own!Build(i, p)
    BY <1>1, <1>4, <1>5, <1>6 DEF Own!Build, Owner, Kept, Asking, Pending
<1> QED
    BY <1>7 DEF Own!OwnNext

\* The swap that succeeds stores the player that was built.
LEMMA StoreSwapOwn ==
    ASSUME IInv, NEW t \in Threads, StoreSwap(t)
    PROVE  [Own!OwnNext]_(Own!ownVars)
<1> DEFINE got  == <<t, "got">>
           drop == <<t, "drop">>
<1>0. RegsOf(t) /\ pc[t] = "swap" /\ UNCHANGED <<counts, slot, copy>>
      /\ ref[<<t, "new">>] \in Blocks \cup {Null} /\ built[t] \in Players \cup {Null}
    BY HoldersApart DEF IInv, RegsInv, StoreSwap, TypeOK
<1>a. slot[t] \in Slots
    BY <1>0, SlotRead DEF IInv
<1> PICK i \in Slots : i = slot[t]
    BY <1>a
<1>1. i \in Slots /\ i \in Holders /\ i # got /\ i # drop
    BY OwnersApart
<1> PICK p \in Players : p = built[t]
    BY <1>0 DEF RegsOf, Storing
<1>2. ref[got] = ref[<<t, "new">>] /\ ref[got] # Null /\ ptr[ref[got]] = p
    BY <1>0 DEF RegsOf, Storing
<1>3. got \in Holders /\ drop \in Holders /\ got # drop
    BY HoldersApart
<1>4. CASE /\ ref' = [ref EXCEPT ![i] = ref[got], ![got] = Null, ![drop] = pred[t]]
           /\ built' = [built EXCEPT ![t] = Null]
    <2>1. /\ ref'[i] = ref[got]
          /\ \A h \in Holders \ {i, got, drop} : ref'[h] = ref[h]
        BY <1>1, <1>3, <1>4 DEF IInv, TypeOK
    <2>2. ptr' = ptr /\ player' = player
        BY <1>0 DEF counts
    <2>3. Pointee(i)' = p
        BY <1>2, <2>1, <2>2 DEF Pointee
    <2>4. \A h \in (Slots \cup Keepers) \ {i} : Pointee(h)' = Pointee(h)
        BY <2>1, <2>2, SamePointee, OwnersApart
    <2>5. Owner' = [Owner EXCEPT ![i] = p] /\ Kept' = Kept
        BY <1>1, <2>3, <2>4, OwnerChange, KeptSame, OwnersApart
    <2>6. \A u \in Threads : built'[u] = IF u = t THEN Null ELSE built[u]
        BY <1>4 DEF IInv, TypeOK
    <2>7. \A u \in Threads : built[u] = p => u = t
        BY <1>2, HoldersApart DEF IInv, PlayerInv
    <2>8. Pending' = Pending \ {<<i, p>>} /\ <<i, p>> \in Pending
        <3>1. slot' = slot /\ built[t] = p /\ p # Null
            BY <1>0, HoldersApart
        <3> QED
            BY <2>6, <2>7, <3>1 DEF Pending
    <2>9. Asking' = Asking
        BY <1>0 DEF Asking, Asked
    <2>10. Own!Store(i, p)
        BY <2>2, <2>5, <2>8, <2>9 DEF Own!Store, Owner, Kept, Asking, Pending
    <2> QED
        BY <2>10 DEF Own!OwnNext
<1>5. CASE Release(t, got, "store") /\ UNCHANGED built
    <2>1. \A h \in Holders \ {got, drop} : ref'[h] = ref[h]
        BY <1>3, <1>5 DEF IInv, TypeOK, Release
    <2>2. ptr' = ptr /\ player' = player
        BY <1>0 DEF counts
    <2>3. \A h \in Slots \cup Keepers : Pointee(h)' = Pointee(h)
        BY <2>1, <2>2, SamePointee, OwnersApart
    <2>4. SameCalls(t)
        BY <1>0 DEF SameCalls
    <2> QED
        BY <1>5, <2>2, <2>3, <2>4, OwnStutter
<1> QED
    BY <1>4, <1>5 DEF StoreSwap

\* Nothing else in the storing of a player concerns the owners.
LEMMA LoginStepOwn ==
    ASSUME IInv, NEW t \in Threads, LoginStep(t)
    PROVE  [Own!OwnNext]_(Own!ownVars)
<1>1. CASE \E i \in Slots : Login(t, i)
    BY <1>1, LoginOwn
<1>2. CASE StoreSwap(t)
    BY <1>2, StoreSwapOwn
<1>3. CASE Alloc(t) \/ StoreRead(t)
    <2>1. UNCHANGED <<ref, ptr, player, built, slot, copy>>
        BY <1>3 DEF Alloc, StoreRead, counts
    <2> QED
        BY <2>1, OwnStutter, SamePointee DEF SameCalls
<1>4. CASE InitPtr(t)
    <2>1. /\ Preparing(t, pred[t]) /\ UNCHANGED <<ref, player, built, slot, copy>>
          /\ ptr' = [ptr EXCEPT ![pred[t]] = built[t]]
        BY <1>4 DEF InitPtr, Preparing
    <2>2. \A b \in Blocks : Preparing(t, b) => use_count[b] = 0
        BY DEF IInv, BlockInv
    <2>3. ASSUME NEW h \in Holders PROVE Pointee(h)' = Pointee(h)
        <3>1. ref[h] # Null => ref[h] \in Blocks /\ use_count[ref[h]] > 0
            <4>1. ref[h] \in Blocks \cup {Null}
                BY DEF IInv, TypeOK
            <4> QED
                BY <4>1, UsedByHolder DEF IInv
        <3>2. ref[h] # Null => ref[h] # pred[t]
            BY <2>1, <2>2, <3>1
        <3>3. ref[h] # Null => ptr'[ref[h]] = ptr[ref[h]]
            BY <2>1, <3>1, <3>2 DEF IInv, TypeOK
        <3> QED
            BY <2>1, <3>3, SamePointee
    <2> QED
        BY <2>1, <2>3, OwnStutter, OwnersApart DEF SameCalls
<1>5. CASE InitCount(t) \/ StoreShare(t) \/ Settle(t)
    <2>1. UNCHANGED <<ptr, player, built, slot, copy>>
        BY <1>5 DEF InitCount, StoreShare, Settle, counts
    <2>2. \A h \in Holders \ {<<t, "new">>, <<t, "got">>, <<t, "drop">>} : ref'[h] = ref[h]
        BY <1>5 DEF InitCount, StoreShare, Settle, AddUse, Release, IInv, TypeOK
    <2> QED
        BY <2>1, <2>2, OwnStutter, SamePointee, OwnersApart DEF SameCalls
<1> QED
    BY <1>1, <1>2, <1>3, <1>4, <1>5 DEF LoginStep

\* The copy gets what the slot it was asked of owns at the second look.
LEMMA CopyCheckOwn ==
    ASSUME IInv, NEW t \in Threads, CopyCheck(t)
    PROVE  [Own!OwnNext]_(Own!ownVars)
<1> DEFINE got  == <<t, "got">>
           drop == <<t, "drop">>
<1>0. RegsOf(t) /\ pc[t] = "check" /\ UNCHANGED counts
    BY DEF IInv, RegsInv, CopyCheck
<1>1. slot[t] \in Slots /\ copy[t] \in Copies /\ ref[<<t, copy[t]>>] = Null
    BY <1>0, SlotRead DEF IInv, RegsOf, Copying, TypeOK
<1> PICK i \in Slots : i = slot[t]
    BY <1>1
<1> PICK c \in Copies : c = copy[t]
    BY <1>1
<1> PICK k \in Keepers : k = <<t, c>>
    BY OwnersApart
<1>2. /\ i \in Holders /\ k \in Holders /\ i # k /\ ref[k] = Null
      /\ k # got /\ k # drop
    BY <1>1, OwnersApart
<1>3. got \in Holders /\ drop \in Holders /\ got # drop
    BY HoldersApart
<1>4. UNCHANGED <<ptr, player>>
    BY <1>0 DEF counts
<1>5. CASE /\ ref[got] = ref[i] /\ Return(t)
           /\ ref' = [ref EXCEPT ![k] = ref[got], ![got] = Null]
    <2>1. ref'[k] = ref[i] /\ \A h \in Holders \ {k, got} : ref'[h] = ref[h]
        BY <1>2, <1>3, <1>5 DEF IInv, TypeOK
    <2>2. \A h \in (Slots \cup Keepers) \ {k} : Pointee(h)' = Pointee(h)
        BY <1>4, <2>1, SamePointee, OwnersApart
    <2> PICK p : p = Pointee(i)
        OBVIOUS
    <2>3. Pointee(k)' = p
        BY <1>4, <2>1, PassPointee
    <2>4. Kept' = [Kept EXCEPT ![k] = p] /\ Owner' = Owner
        BY <2>2, <2>3, KeptChange, OwnerSame, OwnersApart
    <2>5. Asking[k] = i /\ Asking' = [Asking EXCEPT ![k] = Null]
        <3>1. /\ copy'[t] = Null
              /\ \A u \in Threads \ {t} : slot'[u] = slot[u] /\ copy'[u] = copy[u]
            BY <1>5, <1>1 DEF Return, IInv, TypeOK
        <3>2. Asked(t, c) = i /\ Asked(t, c)' = Null
            BY <1>1, <3>1, HoldersApart DEF Asked
        <3> QED
            BY <1>1, <3>1, <3>2, AskingChange
    <2>6. Pending' = Pending
        <3>1. built[t] = Null
            BY <1>0 DEF RegsOf, Building, Storing, Ending
        <3>2. built' = built /\ \A u \in Threads \ {t} : slot'[u] = slot[u]
            BY <1>5 DEF Return, IInv, TypeOK
        <3> QED
            BY <3>1, <3>2 DEF Pending
    <2>7. Own!Keep(k, i)
        <3>1. Owner[i] = p
            BY DEF Owner
        <3> QED
            BY <1>4, <2>4, <2>5, <2>6, <3>1 DEF Own!Keep, Kept, Owner, Asking, Pending
    <2> QED
        BY <2>7 DEF Own!OwnNext
<1>6. CASE /\ UNCHANGED <<slot, copy, built>>
           /\ Release(t, got, "read") \/ UNCHANGED ref
    <2>1. \A h \in Holders \ {got, drop} : ref'[h] = ref[h]
        BY <1>3, <1>6 DEF IInv, TypeOK, Release
    <2>2. \A h \in Slots \cup Keepers : Pointee(h)' = Pointee(h)
        BY <1>4, <2>1, SamePointee, OwnersApart
    <2> QED
        BY <1>4, <1>6, <2>2, OwnStutter DEF SameCalls
<1> QED
    BY <1>5, <1>6 DEF CopyCheck

\* A copy of a copy keeps the same player.
LEMMA CopyCopyOwn ==
    ASSUME IInv, NEW t \in Threads, NEW j \in Copies, NEW k \in Copies,
           CopyCopy(t, j, k)
    PROVE  Own!OwnNext
<1> PICK g \in Keepers : g = <<t, j>>
    BY OwnersApart
<1> PICK h \in Keepers : h = <<t, k>>
    BY OwnersApart
<1>1. g \in Holders /\ h \in Holders /\ ref[g] # Null /\ ref[h] = Null
    BY OwnersApart DEF CopyCopy
<1>2. UNCHANGED <<ptr, player, built>>
    BY DEF CopyCopy, regs
<1>3. ref'[h] = ref[g] /\ \A x \in Holders \ {h} : ref'[x] = ref[x]
    BY <1>1 DEF CopyCopy, AddUse, IInv, TypeOK
<1> PICK p : p = Pointee(g)
    OBVIOUS
<1>4. p \in Players /\ Pointee(h) = Null
    BY <1>1, HeldPlayer
<1>5. Pointee(h)' = p
    BY <1>2, <1>3, PassPointee
<1>6. \A x \in (Slots \cup Keepers) \ {h} : Pointee(x)' = Pointee(x)
    BY <1>2, <1>3, SamePointee, OwnersApart
<1>7. Kept' = [Kept EXCEPT ![h] = Kept[g]] /\ Owner' = Owner
    <2>1. Kept' = [Kept EXCEPT ![h] = p] /\ Owner' = Owner
        BY <1>5, <1>6, KeptChange, OwnerSame, OwnersApart
    <2> QED
        BY <2>1 DEF Kept
<1>8. Kept[h] = Null /\ Kept[g] = p /\ p # Null
    BY <1>4, HoldersApart DEF Kept
<1>9. Asking[h] = Null /\ UNCHANGED <<Asking, Pending>>
    <2>1. copy[t] = Null
        BY DEF IInv, RegsInv, RegsOf, Copying, Ending, CopyCopy
    <2>2. UNCHANGED <<slot, copy, built>>
        BY DEF CopyCopy, regs
    <2>3. Asking[h] = Asked(t, k)
        BY DEF Asking
    <2> QED
        BY <2>1, <2>2, <2>3, HoldersApart DEF Asked, Asking, Pending
<1>10. Own!Share(h, g)
    BY <1>2, <1>4, <1>7, <1>8, <1>9, HoldersApart
       DEF Own!Share, Kept, Owner, Asking, Pending
<1> QED
    BY <1>10 DEF Own!OwnNext

\* A copy forgets its player before the count says so.
LEMMA DestroyOwn ==
    ASSUME IInv, NEW t \in Threads, NEW k \in Copies, Destroy(t, k)
    PROVE  Own!OwnNext
<1> DEFINE drop == <<t, "drop">>
<1> PICK h \in Keepers : h = <<t, k>>
    BY OwnersApart
<1>1. h \in Holders /\ drop \in Holders /\ h # drop
    BY OwnersApart, HoldersApart
<1>2. UNCHANGED <<ptr, player, built, slot, copy>>
    BY DEF Destroy, counts
<1>3. ref'[h] = Null /\ \A x \in Holders \ {h, drop} : ref'[x] = ref[x]
    BY <1>1 DEF Destroy, Release, IInv, TypeOK
<1>4. Pointee(h)' = Null
    BY <1>3 DEF Pointee
<1>5. \A x \in (Slots \cup Keepers) \ {h} : Pointee(x)' = Pointee(x)
    BY <1>2, <1>3, SamePointee, OwnersApart
<1>6. Kept' = [Kept EXCEPT ![h] = Null] /\ Owner' = Owner
    BY <1>4, <1>5, KeptChange, OwnerSame, OwnersApart
<1>7. UNCHANGED <<Asking, Pending>>
    BY <1>2, CallsSame DEF SameCalls
<1>8. Own!Forget(h)
    BY <1>2, <1>6, <1>7 DEF Own!Forget, Kept, Owner, Asking, Pending
<1> QED
    BY <1>8 DEF Own!OwnNext

\* Get_Player asks for a copy of a slot.
LEMMA GetPlayerOwn ==
    ASSUME IInv, NEW t \in Threads, NEW i \in Slots, NEW c \in Copies,
           GetPlayer(t, i, c)
    PROVE  Own!OwnNext
<1> PICK k \in Keepers : k = <<t, c>>
    BY OwnersApart
<1>1. UNCHANGED <<ref, ptr, player, built>> /\ ref[k] = Null
    BY DEF GetPlayer, counts
<1>2. copy[t] = Null /\ built[t] = Null
    BY DEF IInv, RegsInv, RegsOf, Building, Storing, Copying, Ending, GetPlayer
<1>3. /\ slot'[t] = i /\ copy'[t] = c
      /\ \A u \in Threads \ {t} : slot'[u] = slot[u] /\ copy'[u] = copy[u]
    BY DEF GetPlayer, IInv, TypeOK
<1>4. Asked(t, c)' = i /\ Asked(t, c) = Null
    BY <1>2, <1>3, HoldersApart DEF Asked
<1>5. Asking[k] = Null /\ Asking' = [Asking EXCEPT ![k] = i]
    BY <1>2, <1>3, <1>4, AskingChange
<1>6. Owner' = Owner /\ Kept' = Kept
    BY <1>1, SamePointee, OwnerSame, KeptSame
<1>7. Pending' = Pending
    BY <1>1, <1>2, <1>3 DEF Pending
<1>8. Kept[k] = Null
    BY <1>1 DEF Kept, Pointee
<1>9. Own!Ask(k, i)
    BY <1>1, <1>5, <1>6, <1>7, <1>8 DEF Own!Ask, Kept, Owner, Asking, Pending
<1> QED
    BY <1>9 DEF Own!OwnNext

\* The copy of a slot that is empty gets nothing.
LEMMA CopyReadOwn ==
    ASSUME IInv, NEW t \in Threads, CopyRead(t)
    PROVE  [Own!OwnNext]_(Own!ownVars)
<1>1. UNCHANGED <<ref, ptr, player>>
    BY DEF CopyRead, counts
<1>2. RegsOf(t) /\ pc[t] = "read"
    BY DEF IInv, RegsInv, CopyRead
<1>3. slot[t] \in Slots /\ copy[t] \in Copies /\ ref[<<t, copy[t]>>] = Null
    BY <1>2, SlotRead DEF IInv, RegsOf, Copying, TypeOK
<1> PICK i \in Slots : i = slot[t]
    BY <1>3
<1> PICK c \in Copies : c = copy[t]
    BY <1>3
<1> PICK k \in Keepers : k = <<t, c>>
    BY OwnersApart
<1>4. CASE ref[i] = Null /\ Return(t)
    <2>1. /\ built' = built /\ copy'[t] = Null
          /\ \A u \in Threads \ {t} : slot'[u] = slot[u] /\ copy'[u] = copy[u]
        BY <1>4 DEF Return, IInv, TypeOK
    <2>2. Asked(t, c) = i /\ Asked(t, c)' = Null
        BY <2>1, HoldersApart DEF Asked
    <2>3. Asking[k] = i /\ Asking' = [Asking EXCEPT ![k] = Null]
        BY <2>1, <2>2, AskingChange
    <2>4. Pending' = Pending
        <3>1. built[t] = Null
            BY <1>2 DEF RegsOf, Building, Storing, Ending
        <3> QED
            BY <2>1, <3>1 DEF Pending
    <2>5. Kept[k] = Null /\ Owner[i] = Null
        BY <1>3, <1>4 DEF Kept, Owner, Pointee
    <2>6. Owner' = Owner /\ Kept' = [Kept EXCEPT ![k] = Null]
        <3>1. Owner' = Owner /\ Kept' = Kept
            BY <1>1, SamePointee, OwnerSame, KeptSame
        <3> QED
            BY <2>5, <3>1 DEF Kept
    <2>7. Own!Keep(k, i)
        BY <1>1, <2>1, <2>3, <2>4, <2>5, <2>6
           DEF Own!Keep, Kept, Owner, Asking, Pending
    <2> QED
        BY <2>7 DEF Own!OwnNext
<1>5. CASE UNCHANGED <<slot, copy, built>>
    BY <1>1, <1>5, OwnStutter, SamePointee DEF SameCalls
<1> QED
    BY <1>4, <1>5 DEF CopyRead

LEMMA CopyStepOwn ==
    ASSUME IInv, NEW t \in Threads, CopyStep(t)
    PROVE  [Own!OwnNext]_(Own!ownVars)
<1>1. CASE CopyAdd(t)
    <2>1. UNCHANGED <<ptr, player, built, slot, copy>>
        BY <1>1 DEF CopyAdd
    <2>2. \A h \in Holders \ {<<t, "got">>} : ref'[h] = ref[h]
        BY <1>1 DEF CopyAdd, AddUse, IInv, TypeOK
    <2> QED
        BY <2>1, <2>2, OwnStutter, SamePointee, OwnersApart DEF SameCalls
<1> QED
    BY <1>1, GetPlayerOwn, CopyReadOwn, CopyCheckOwn, CopyCopyOwn, DestroyOwn
       DEF CopyStep

\* The slot gives its player up at the swap.
LEMMA ClearSwapOwn ==
    ASSUME IInv, NEW t \in Threads, ClearSwap(t)
    PROVE  [Own!OwnNext]_(Own!ownVars)
<1> DEFINE drop == <<t, "drop">>
<1>0. slot[t] \in Slots /\ UNCHANGED <<ptr, player, built, slot, copy>>
    BY SlotRead DEF ClearSwap, IInv, RegsInv, counts
<1> PICK i \in Slots : i = slot[t]
    BY <1>0
<1>1. i \in Holders /\ drop \in Holders /\ i # drop
    BY OwnersApart, HoldersApart
<1>2. CASE Release(t, i, "idle")
    <2>1. ref'[i] = Null /\ \A x \in Holders \ {i, drop} : ref'[x] = ref[x]
        BY <1>1, <1>2 DEF Release, IInv, TypeOK
    <2>2. Pointee(i)' = Null
        BY <2>1 DEF Pointee
    <2>3. \A x \in (Slots \cup Keepers) \ {i} : Pointee(x)' = Pointee(x)
        BY <1>0, <2>1, SamePointee, OwnersApart
    <2>4. Owner' = [Owner EXCEPT ![i] = Null] /\ Kept' = Kept
        BY <2>2, <2>3, OwnerChange, KeptSame, OwnersApart
    <2>5. UNCHANGED <<Asking, Pending>>
        BY <1>0, CallsSame DEF SameCalls
    <2>6. Own!Clear(i)
        BY <1>0, <2>4, <2>5 DEF Own!Clear, Kept, Owner, Asking, Pending
    <2> QED
        BY <2>6 DEF Own!OwnNext
<1>3. CASE UNCHANGED ref
    BY <1>0, <1>3, OwnStutter, SamePointee DEF SameCalls
<1> QED
    BY <1>2, <1>3 DEF ClearSwap

LEMMA LogoutStepOwn ==
    ASSUME IInv, NEW t \in Threads, LogoutStep(t)
    PROVE  [Own!OwnNext]_(Own!ownVars)
<1>1. CASE (\E i \in Slots : Logout(t, i)) \/ ClearRead(t)
    <2>1. UNCHANGED <<ref, ptr, player, built>>
        BY <1>1 DEF Logout, ClearRead, Return, counts
    <2>2. built[t] = Null /\ copy[t] = Null
        BY <1>1 DEF Logout, ClearRead, IInv, RegsInv, RegsOf, Building, Storing,
                    Copying, Ending
    <2>3. /\ \A u \in Threads \ {t} : slot'[u] = slot[u] /\ copy'[u] = copy[u]
          /\ copy'[t] = Null
        BY <1>1, <2>2 DEF Logout, ClearRead, Return, IInv, TypeOK
    <2> QED
        BY <2>1, <2>2, <2>3, OwnStutter, SamePointee DEF SameCalls
<1> QED
    BY <1>1, ClearSwapOwn DEF LogoutStep

\* The player of a block nobody counts has no owner and is not being stored.
LEMMA DeletedUnowned ==
    ASSUME IInv, NEW t \in Threads, pc[t] = "delete"
    PROVE  /\ ptr[pred[t]] \in Players /\ player[ptr[pred[t]]] = "alive"
           /\ \A u \in Threads : built[u] # ptr[pred[t]]
           /\ \A h \in Holders : Pointee(h) # ptr[pred[t]]
<1>0. RegsOf(t) /\ pred[t] \in Blocks \cup {Null}
    BY DEF IInv, RegsInv, TypeOK
<1> PICK b \in Blocks : b = pred[t]
    BY <1>0 DEF RegsOf
<1>1. InUse(b) /\ Preparing(t, b)
    BY DEF InUse, Preparing
<1>2. ptr[b] \in Players /\ player[ptr[b]] = "alive"
      /\ \A c \in Blocks : InUse(c) /\ ptr[c] = ptr[b] => c = b
    BY <1>1 DEF IInv, PlayerInv
<1>3. \A h \in Holders : ref[h] # b
    BY <1>1, UsedByHolder DEF IInv, BlockInv
<1>4. \A u \in Threads : built[u] # ptr[b]
    BY <1>1, <1>2, <1>3, HoldersApart DEF IInv, PlayerInv
<1>5. ASSUME NEW h \in Holders PROVE Pointee(h) # ptr[b]
    <2>1. ref[h] \in Blocks \cup {Null}
        BY DEF IInv, TypeOK
    <2> QED
        BY <1>2, <1>3, <2>1, HeldPlayer, HoldersApart
<1> QED
    BY <1>2, <1>4, <1>5

LEMMA ReleaseStepOwn ==
    ASSUME IInv, NEW t \in Threads, ReleaseStep(t)
    PROVE  [Own!OwnNext]_(Own!ownVars)
<1>1. CASE ReleaseCount(t) \/ Recycle(t)
    <2>1. UNCHANGED <<ptr, player, built>>
        BY <1>1 DEF ReleaseCount, Recycle
    <2>2. \A h \in Holders \ {<<t, "drop">>} : ref'[h] = ref[h]
        BY <1>1 DEF ReleaseCount, Recycle, IInv, TypeOK
    <2>3. SameCalls(t)
        <3>1. Resume(t) \/ UNCHANGED <<slot, copy>>
            BY <1>1 DEF ReleaseCount, Recycle
        <3>2. Ending(t)
            BY <1>1 DEF ReleaseCount, Recycle, Ending
        <3> QED
            BY <3>1, <3>2, ResumeSame DEF SameCalls
    <2> QED
        BY <2>1, <2>2, <2>3, OwnStutter, SamePointee, OwnersApart
<1>2. CASE DeletePlayer(t)
    <2>0. pc[t] = "delete" /\ UNCHANGED <<ref, ptr, built, slot, copy>>
          /\ player' = [player EXCEPT ![ptr[pred[t]]] = "deleted"]
        BY <1>2 DEF DeletePlayer
    <2> PICK p \in Players : p = ptr[pred[t]]
        BY <2>0, DeletedUnowned
    <2>1. /\ player[p] = "alive" /\ \A u \in Threads : built[u] # p
          /\ \A h \in Slots \cup Keepers : Pointee(h) # p
        BY <2>0, DeletedUnowned, OwnersApart
    <2>2. Owner' = Owner /\ Kept' = Kept
        BY <2>0, SamePointee, OwnerSame, KeptSame
    <2>3. \A q \in Players : player'[q] = IF q = p THEN "deleted" ELSE player[q]
        BY <2>0 DEF IInv, TypeOK
    <2>4. /\ {q \in Players : player[q] # "unbuilt"}' = {q \in Players : player[q] # "unbuilt"}
          /\ {q \in Players : player[q] = "alive"}' =
                 {q \in Players : player[q] = "alive"} \ {p}
        BY <2>1, <2>3
    <2>5. (\A i \in Slots : <<i, p>> \notin Pending) /\ UNCHANGED <<Asking, Pending>>
        BY <2>0, <2>1 DEF Pending, Asking, Asked
    <2>6. (\A i \in Slots : Owner[i] # p) /\ (\A k \in Keepers : Kept[k] # p)
        BY <2>1 DEF Owner, Kept
    <2>7. Own!Delete(p)
        BY <2>1, <2>2, <2>4, <2>5, <2>6
           DEF Own!Delete, Owner, Kept, Asking, Pending
    <2> QED
        BY <2>7 DEF Own!OwnNext
<1> QED
    BY <1>1, <1>2 DEF ReleaseStep

\* Shared pointers keep and delete players as if each operation on a slot or a
\* copy were one step, whatever the threads do meanwhile.
THEOREM OwnershipKept == Spec => KeepsOwnership
<1>1. ASSUME Init PROVE Own!OwnInit
    <2>1. (\A h \in Slots \cup Keepers : Pointee(h) = Null) /\ Pending = {}
        BY <1>1, OwnersApart DEF Init, Pointee, Pending
    <2>2. ASSUME NEW k \in Keepers PROVE Asked(k[1], k[2]) = Null
        <3> PICK t \in Threads, c \in Copies : k = <<t, c>>
            BY DEF Keepers
        <3>1. k[1] = t /\ copy[t] = Null /\ slot[t] = Null
            BY <1>1 DEF Init
        <3> QED
            BY <3>1 DEF Asked
    <2>3. \A p \in Players : player[p] = "unbuilt"
        BY <1>1 DEF Init
    <2> QED
        BY <2>1, <2>2, <2>3 DEF Own!OwnInit, Pending
<1>2. IInv /\ [Next]_vars => [Own!OwnNext]_(Own!ownVars)
    <2> SUFFICES ASSUME IInv, [Next]_vars PROVE [Own!OwnNext]_(Own!ownVars)
        OBVIOUS
    <2>1. CASE UNCHANGED vars
        <3>1. UNCHANGED <<ref, ptr, player, built, slot, copy>>
            BY <2>1 DEF vars, counts, regs
        <3>2. Owner' = Owner /\ Kept' = Kept
            BY <3>1, SamePointee, OwnerSame, KeptSame
        <3> QED
            BY <3>1, <3>2 DEF Own!ownVars, Owner, Kept, Asked
    <2> QED
        BY <2>1, LoginStepOwn, CopyStepOwn, LogoutStepOwn, ReleaseStepOwn DEF Next
<1> QED
    BY <1>1, <1>2, Inductive, PTL DEF Spec, KeepsOwnership, Own!OwnSpec

=============================================================================
