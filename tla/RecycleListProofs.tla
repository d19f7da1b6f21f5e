------------------------- MODULE RecycleListProofs -------------------------
(* The recycle list keeps the promise of a pool for every number of threads  *)
(* and blocks.                                                               *)
EXTENDS RecycleList, TLAPS

\* The thread has marked the node it looks at.
Marking(t) == pc[t] \in {"read", "free", "put", "publish"}

\* Add_FreeListNode is under way.
Adding(t) == pc[t] \in {"walk", "claim", "put", "publish", "append"}

\* What curr and ctr of a thread say at each place of its call.
Place(t) ==
    /\ Marking(t) \/ pc[t] \in {"grab", "claim"} => curr[t] \in 1 .. Len(nodes)
    /\ pc[t] \in {"scan", "walk", "append"} => curr[t] >= 1
    /\ Marking(t) => nodes[curr[t]].active = 2
    /\ Adding(t) => ctr[t] \in hand[t]
    /\ pc[t] \in {"free", "publish"} => ctr[t] = nodes[curr[t]].ctr

\* A node is marked by one thread.
Places ==
    /\ \A t \in Threads : Place(t)
    /\ \A t, u \in Threads :
        Marking(t) /\ Marking(u) /\ curr[t] = curr[u] => t = u

\* A block that was not created is nowhere.
Known ==
    /\ \A t \in Threads : hand[t] \subseteq made
    /\ \A n \in 1 .. Len(nodes) : nodes[n].ctr \in made

Offers(n, b) == n \in 1 .. Len(nodes) /\ nodes[n].active = 1 /\ nodes[n].ctr = b

IInv == TypeOK /\ Places /\ Known /\ BlockInOnePlace

-----------------------------------------------------------------------------
(* Lemmas *)

\* Values of active.
Flag == {0, 1, 2}

\* A node whose field active is written, and what that changes.
WithActive(s, n, v) == [s EXCEPT ![n].active = v]

LEMMA SetActive ==
    ASSUME NEW s \in Seq(Node), NEW n \in 1 .. Len(s), NEW v \in Flag
    PROVE  /\ WithActive(s, n, v) \in Seq(Node)
           /\ Len(WithActive(s, n, v)) = Len(s)
           /\ \A m \in 1 .. Len(s) :
                WithActive(s, n, v)[m] =
                    IF m = n THEN [active |-> v, ctr |-> s[n].ctr] ELSE s[m]
<1> DEFINE e == [s EXCEPT ![n].active = v]
<1>1. /\ Len(s) \in Nat /\ s \in [1 .. Len(s) -> Node]
      /\ \A m \in 1 .. Len(s) : s[m] \in Node
    OBVIOUS
<1>2. [active |-> v, ctr |-> s[n].ctr] \in Node
    BY <1>1 DEF Node, Flag
<1>3. \A m \in 1 .. Len(s) : e[m] = IF m = n THEN [active |-> v, ctr |-> s[n].ctr] ELSE s[m]
    BY <1>1 DEF Node
<1>4. e \in [1 .. Len(s) -> Node]
    BY <1>1, <1>2, <1>3
<1>5. e \in Seq(Node) /\ Len(e) = Len(s)
    BY <1>1, <1>4
<1> QED
    BY <1>3, <1>5 DEF WithActive

\* A node whose field ctr is written, and what that changes.
WithCtr(s, n, b) == [s EXCEPT ![n].ctr = b]

LEMMA SetCtr ==
    ASSUME NEW s \in Seq(Node), NEW n \in 1 .. Len(s), NEW b \in Blocks
    PROVE  /\ WithCtr(s, n, b) \in Seq(Node)
           /\ Len(WithCtr(s, n, b)) = Len(s)
           /\ \A m \in 1 .. Len(s) :
                WithCtr(s, n, b)[m] =
                    IF m = n THEN [active |-> s[n].active, ctr |-> b] ELSE s[m]
<1> DEFINE e == [s EXCEPT ![n].ctr = b]
<1>1. /\ Len(s) \in Nat /\ s \in [1 .. Len(s) -> Node]
      /\ \A m \in 1 .. Len(s) : s[m] \in Node
    OBVIOUS
<1>2. [active |-> s[n].active, ctr |-> b] \in Node
    BY <1>1 DEF Node
<1>3. \A m \in 1 .. Len(s) : e[m] = IF m = n THEN [active |-> s[n].active, ctr |-> b] ELSE s[m]
    BY <1>1 DEF Node
<1>4. e \in [1 .. Len(s) -> Node]
    BY <1>1, <1>2, <1>3
<1>5. e \in Seq(Node) /\ Len(e) = Len(s)
    BY <1>1, <1>4
<1> QED
    BY <1>3, <1>5 DEF WithCtr

\* A node that is appended.
LEMMA AppendOne ==
    ASSUME NEW s \in Seq(Node), NEW e \in Node
    PROVE  /\ Append(s, e) \in Seq(Node)
           /\ Len(Append(s, e)) = Len(s) + 1
           /\ \A m \in 1 .. Len(s) : Append(s, e)[m] = s[m]
           /\ Append(s, e)[Len(s) + 1] = e
    OBVIOUS

\* The same of the node a thread looks at.
LEMMA Written ==
    ASSUME TypeOK, NEW t \in Threads, curr[t] \in 1 .. Len(nodes), NEW v \in Flag,
           nodes' = [nodes EXCEPT ![curr[t]].active = v]
    PROVE  /\ nodes' \in Seq(Node) /\ Len(nodes') = Len(nodes)
           /\ \A m \in 1 .. Len(nodes) :
                nodes'[m] = IF m = curr[t] THEN [active |-> v, ctr |-> nodes[curr[t]].ctr]
                                           ELSE nodes[m]
<1>1. nodes \in Seq(Node)
    BY DEF TypeOK
<1> PICK n \in 1 .. Len(nodes) : n = curr[t]
    OBVIOUS
<1>2. nodes' = WithActive(nodes, n, v)
    BY DEF WithActive
<1>3. /\ WithActive(nodes, n, v) \in Seq(Node)
      /\ Len(WithActive(nodes, n, v)) = Len(nodes)
      /\ \A m \in 1 .. Len(nodes) :
            WithActive(nodes, n, v)[m] =
                IF m = n THEN [active |-> v, ctr |-> nodes[n].ctr] ELSE nodes[m]
    BY <1>1, SetActive
<1> QED
    BY <1>2, <1>3

\* The same for Put.
LEMMA Filled ==
    ASSUME TypeOK, NEW t \in Threads, curr[t] \in 1 .. Len(nodes), ctr[t] \in Blocks,
           nodes' = [nodes EXCEPT ![curr[t]].ctr = ctr[t]]
    PROVE  /\ nodes' \in Seq(Node) /\ Len(nodes') = Len(nodes)
           /\ \A m \in 1 .. Len(nodes) :
                nodes'[m] = IF m = curr[t] THEN [active |-> nodes[curr[t]].active, ctr |-> ctr[t]]
                                           ELSE nodes[m]
<1>1. nodes \in Seq(Node)
    BY DEF TypeOK
<1> PICK n \in 1 .. Len(nodes), b \in Blocks : n = curr[t] /\ b = ctr[t]
    OBVIOUS
<1>2. nodes' = WithCtr(nodes, n, b)
    BY DEF WithCtr
<1>3. /\ WithCtr(nodes, n, b) \in Seq(Node)
      /\ Len(WithCtr(nodes, n, b)) = Len(nodes)
      /\ \A m \in 1 .. Len(nodes) :
            WithCtr(nodes, n, b)[m] =
                IF m = n THEN [active |-> nodes[n].active, ctr |-> b] ELSE nodes[m]
    BY <1>1, SetCtr
<1> QED
    BY <1>2, <1>3

\* Uniqueness survives what gives no block a new place.
LEMMA FewerPlaces ==
    ASSUME BlockInOnePlace,
           \A t \in Threads, b \in Blocks : Has(t, b)' => Has(t, b),
           \A b \in Blocks : \A n : Offers(n, b)' => Offers(n, b)
    PROVE  BlockInOnePlace'
    BY DEF BlockInOnePlace, Listed, Offers

\* A step of thread t that leaves alone the nodes others have marked.
LEMMA OtherPlaces ==
    ASSUME TypeOK, TypeOK', Places, NEW t \in Threads, Place(t)',
           Len(nodes) <= Len(nodes'),
           \A u \in Threads \ {t} :
              /\ pc'[u] = pc[u] /\ curr'[u] = curr[u]
              /\ ctr'[u] = ctr[u] /\ hand'[u] = hand[u]
              /\ Marking(u) => nodes'[curr[u]] = nodes[curr[u]]
              /\ Marking(u) /\ Marking(t)' => curr[u] # curr'[t]
    PROVE  Places'
<1>1. Len(nodes) \in Nat /\ Len(nodes') \in Nat
    BY DEF TypeOK
<1>2. ASSUME NEW u \in Threads PROVE Place(u)'
    <2>1. CASE u = t
        BY <2>1
    <2>2. CASE u # t
        <3>1. Place(u)
            BY DEF Places
        <3> QED
            BY <1>1, <2>2, <3>1 DEF Place, Marking, Adding
    <2> QED
        BY <2>1, <2>2
<1>3. ASSUME NEW u \in Threads, NEW w \in Threads,
             Marking(u)', Marking(w)', curr'[u] = curr'[w]
      PROVE  u = w
    BY <1>3 DEF Places, Marking
<1> QED
    BY <1>2, <1>3 DEF Places

-----------------------------------------------------------------------------
(* The invariant is inductive *)

\* The list is empty at first.
LEMMA InitIInv == Init => IInv
    BY DEF Init, IInv, TypeOK, Places, Place, Known, BlockInOnePlace, Has, Taking, Listed,
           Marking, Adding

\* Steps that write no shared data.
LEMMA LocalIInv ==
    ASSUME IInv, NEW t \in Threads,
           Alloc(t) \/ Scan(t) \/ Read(t) \/ Walk(t) \/ \E b \in Blocks : Add(t, b)
    PROVE  IInv'
<1> USE DEF IInv, Alloc, Scan, Read, Walk, Add, Goto, Onward, AtEnd
<1>0. /\ nodes \in Seq(Node) /\ Len(nodes) \in Nat
      /\ curr \in [Threads -> Nat] /\ curr[t] \in Nat
      /\ \A n \in 1 .. Len(nodes) : nodes[n] \in Node
    BY DEF TypeOK
<1>1. TypeOK'
    <2>1. CASE Read(t)
        <3>1. nodes[curr[t]].ctr \in Blocks
            BY <1>0, <2>1 DEF Places, Place, Marking, Node
        <3> QED
            BY <2>1, <3>1 DEF TypeOK
    <2>2. CASE ~Read(t)
        <3>1. curr' \in [Threads -> Nat]
            BY <1>0, <2>2
        <3>2. ctr' \in [Threads -> Blocks \cup {NoBlock}]
            BY <2>2 DEF TypeOK
        <3> QED
            BY <2>2, <3>1, <3>2 DEF TypeOK
    <2> QED
        BY <2>1, <2>2
<1>2. Places'
    <2>0. Place(t)
        BY DEF Places
    <2>1. Place(t)' /\ (Marking(t)' => Marking(t) /\ curr'[t] = curr[t])
        <3>1. CASE Alloc(t)
            BY <3>1 DEF TypeOK, Place, Marking, Adding
        <3>2. CASE Scan(t)
            <4>1. pc'[t] \in {"scan", "grab", "new"} /\ curr'[t] >= 1
                  /\ (pc'[t] = "grab" => curr'[t] \in 1 .. Len(nodes))
                BY <1>0, <2>0, <3>2 DEF TypeOK, Place
            <4> QED
                BY <3>2, <4>1 DEF Place, Marking, Adding
        <3>3. CASE Read(t)
            BY <2>0, <3>3 DEF TypeOK, Place, Marking, Adding
        <3>4. CASE Walk(t)
            <4>1. pc'[t] \in {"walk", "claim", "append"} /\ curr'[t] >= 1
                  /\ (pc'[t] = "claim" => curr'[t] \in 1 .. Len(nodes))
                BY <1>0, <2>0, <3>4 DEF TypeOK, Place
            <4> QED
                BY <2>0, <3>4, <4>1 DEF Place, Marking, Adding
        <3>5. CASE \E b \in Blocks : Add(t, b)
            BY <3>5 DEF TypeOK, Place, Marking, Adding
        <3> QED
            BY <3>1, <3>2, <3>3, <3>4, <3>5
    <2>2. \A u \in Threads \ {t} :
            /\ pc'[u] = pc[u] /\ curr'[u] = curr[u] /\ ctr'[u] = ctr[u]
            /\ hand'[u] = hand[u]
        BY DEF TypeOK
    <2>3. nodes' = nodes
        OBVIOUS
    <2> QED
        BY <1>0, <1>1, <2>1, <2>2, <2>3, OtherPlaces DEF Places
<1>3. Known'
    BY DEF Known
<1>4. BlockInOnePlace'
    <2>1. \A u \in Threads, b \in Blocks : Has(u, b)' => Has(u, b)
        BY DEF TypeOK, Has, Taking
    <2>2. \A b \in Blocks : \A n : Offers(n, b)' => Offers(n, b)
        BY DEF Offers
    <2> QED
        BY <2>1, <2>2, FewerPlaces
<1> QED
    BY <1>1, <1>2, <1>3, <1>4

\* The block a node offered is now the thread's.
LEMMA GrabIInv ==
    ASSUME IInv, NEW t \in Threads, Grab(t), Active(t) = 1
    PROVE  IInv'
<1> USE DEF IInv, Grab, Goto, Onward, AtEnd, Active, Swap, Return
<1>0. /\ nodes \in Seq(Node) /\ Len(nodes) \in Nat
      /\ \A n \in 1 .. Len(nodes) : nodes[n] \in Node
    BY DEF TypeOK
<1>1. pc[t] = "grab" /\ curr[t] \in 1 .. Len(nodes) /\ Place(t)
    BY DEF Places, Place, Marking
<1>2. /\ pc' = [pc EXCEPT ![t] = "read"] /\ curr' = curr
      /\ nodes' \in Seq(Node) /\ Len(nodes') = Len(nodes)
      /\ \A m \in 1 .. Len(nodes) :
            nodes'[m] = IF m = curr[t] THEN [active |-> 2, ctr |-> nodes[curr[t]].ctr]
                                       ELSE nodes[m]
    <2>1. nodes' = [nodes EXCEPT ![curr[t]].active = 2] /\ 2 \in Flag
        BY DEF Flag
    <2>2. pc' = [pc EXCEPT ![t] = "read"] /\ curr' = curr
        BY <1>1
    <2> HIDE DEF Grab
    <2>3. TypeOK /\ curr[t] \in 1 .. Len(nodes)
        BY <1>1
    <2> QED
        BY <2>1, <2>2, <2>3, Written
<1>3. TypeOK'
    BY <1>2 DEF TypeOK
<1>4. Places'
    <2>1. Place(t)' /\ \A u \in Threads \ {t} : Marking(u) => curr[u] # curr[t]
        BY <1>0, <1>1, <1>2 DEF TypeOK, Places, Place, Marking, Adding
    <2>2. \A u \in Threads \ {t} :
            /\ pc'[u] = pc[u] /\ curr'[u] = curr[u] /\ ctr'[u] = ctr[u]
            /\ hand'[u] = hand[u]
        BY DEF TypeOK
    <2>3. \A u \in Threads \ {t} : Marking(u) => nodes'[curr[u]] = nodes[curr[u]]
        BY <1>0, <1>2 DEF Places, Place, Marking
    <2> QED
        BY <1>0, <1>2, <1>3, <2>1, <2>2, <2>3, OtherPlaces
<1>5. Known'
    BY <1>0, <1>1, <1>2 DEF Known
<1>6. BlockInOnePlace'
    <2> DEFINE c == nodes[curr[t]].ctr
    <2>0. c \in Blocks /\ Offers(curr[t], c)
        BY <1>0, <1>1 DEF Offers, Node
    <2>1. \A u \in Threads, b \in Blocks : Has(u, b)' => Has(u, b) \/ (u = t /\ b = c)
        BY <1>0, <1>1, <1>2 DEF TypeOK, Places, Place, Marking, Has, Taking
    <2>2. \A b \in Blocks : \A n : Offers(n, b)' => Offers(n, b) /\ n # curr[t]
        BY <1>0, <1>1, <1>2 DEF Offers
    <2> QED
        BY <2>0, <2>1, <2>2 DEF BlockInOnePlace, Listed, Offers
<1> QED
    BY <1>3, <1>4, <1>5, <1>6

\* Another thread was faster: the thread goes on.
LEMMA PassIInv ==
    ASSUME IInv, NEW t \in Threads,
           \/ Grab(t) /\ Active(t) # 1
           \/ Claim(t) /\ Active(t) # 0
           \/ AppendNode(t) /\ ~AtEnd(t)
    PROVE  IInv'
<1> USE DEF IInv, Grab, Claim, AppendNode, Goto, Onward, Swap
<1>0. /\ curr \in [Threads -> Nat] /\ curr[t] \in Nat /\ Place(t)
      /\ UNCHANGED <<nodes, made, hand, ctr>> /\ curr'[t] = curr[t] + 1
      /\ curr' = [curr EXCEPT ![t] = curr[t] + 1]
    BY DEF TypeOK, Places
<1>1. \/ pc[t] = "grab" /\ pc' = [pc EXCEPT ![t] = "scan"]
      \/ pc[t] = "claim" /\ pc' = [pc EXCEPT ![t] = "walk"]
      \/ pc[t] = "append" /\ pc' = pc
    OBVIOUS
<1>2. TypeOK'
    <2>1. curr' \in [Threads -> Nat]
        BY <1>0
    <2>2. pc' \in [Threads -> {"idle", "scan", "grab", "read", "free", "new",
                              "walk", "claim", "put", "publish", "append"}]
        BY <1>1 DEF TypeOK
    <2> QED
        BY <1>0, <2>1, <2>2 DEF TypeOK
<1>3. Places'
    <2>1. Place(t)' /\ ~Marking(t)'
        BY <1>0, <1>1 DEF TypeOK, Place, Marking, Adding
    <2>2. \A u \in Threads \ {t} : pc'[u] = pc[u] /\ curr'[u] = curr[u]
        BY <1>0, <1>1 DEF TypeOK
    <2> QED
        BY <1>0, <1>2, <2>1, <2>2, OtherPlaces DEF TypeOK
<1>4. Known'
    BY <1>0 DEF Known
<1>5. BlockInOnePlace'
    <2>1. \A u \in Threads, b \in Blocks : Has(u, b)' => Has(u, b)
        BY <1>0, <1>1 DEF TypeOK, Has, Taking
    <2>2. \A b \in Blocks : \A n : Offers(n, b)' => Offers(n, b)
        BY <1>0 DEF Offers
    <2> QED
        BY <2>1, <2>2, FewerPlaces
<1> QED
    BY <1>2, <1>3, <1>4, <1>5

\* An empty node is marked.
LEMMA ClaimIInv ==
    ASSUME IInv, NEW t \in Threads, Claim(t), Active(t) = 0
    PROVE  IInv'
<1> USE DEF IInv, Claim, Goto, Onward, AtEnd, Active, Swap, Return
<1>0. /\ nodes \in Seq(Node) /\ Len(nodes) \in Nat
      /\ \A n \in 1 .. Len(nodes) : nodes[n] \in Node
    BY DEF TypeOK
<1>1. pc[t] = "claim" /\ curr[t] \in 1 .. Len(nodes) /\ Place(t)
    BY DEF Places, Place, Marking
<1>2. /\ pc' = [pc EXCEPT ![t] = "put"] /\ curr' = curr
      /\ nodes' \in Seq(Node) /\ Len(nodes') = Len(nodes)
      /\ \A m \in 1 .. Len(nodes) :
            nodes'[m] = IF m = curr[t] THEN [active |-> 2, ctr |-> nodes[curr[t]].ctr]
                                       ELSE nodes[m]
    <2>1. nodes' = [nodes EXCEPT ![curr[t]].active = 2] /\ 2 \in Flag
        BY DEF Flag
    <2>2. pc' = [pc EXCEPT ![t] = "put"] /\ curr' = curr
        OBVIOUS
    <2> HIDE DEF Claim
    <2>3. TypeOK /\ curr[t] \in 1 .. Len(nodes)
        BY <1>1
    <2> QED
        BY <2>1, <2>2, <2>3, Written
<1>3. TypeOK'
    BY <1>0, <1>1, <1>2 DEF TypeOK, Place, Marking, Adding, Node
<1>4. Places'
    <2>1. Place(t)' /\ \A u \in Threads \ {t} : Marking(u) => curr[u] # curr[t]
        BY <1>0, <1>1, <1>2 DEF TypeOK, Places, Place, Marking, Adding
    <2>2. \A u \in Threads \ {t} :
            /\ pc'[u] = pc[u] /\ curr'[u] = curr[u] /\ ctr'[u] = ctr[u]
            /\ hand'[u] = hand[u]
        BY DEF TypeOK
    <2>3. \A u \in Threads \ {t} : Marking(u) => nodes'[curr[u]] = nodes[curr[u]]
        BY <1>0, <1>2 DEF Places, Place, Marking
    <2> QED
        BY <1>0, <1>2, <1>3, <2>1, <2>2, <2>3, OtherPlaces
<1>5. Known'
    BY <1>0, <1>1, <1>2 DEF Known, TypeOK, Place, Marking, Adding
<1>6. BlockInOnePlace'
    <2>1. \A u \in Threads, b \in Blocks : Has(u, b)' => Has(u, b)
        <3>1. \A u \in Threads \ {t} : pc'[u] = pc[u] /\ hand'[u] = hand[u]
            BY <1>2 DEF TypeOK
        <3>2. pc'[t] = "put" /\ hand' = hand /\ ctr' = ctr /\ curr' = curr
            BY <1>2 DEF TypeOK
        <3>3. \A u \in Threads : pc[u] = "read" => nodes'[curr[u]].ctr = nodes[curr[u]].ctr
            <4>1. \A m \in 1 .. Len(nodes) : nodes'[m].ctr = nodes[m].ctr
                BY <1>2
            <4>2. \A u \in Threads : pc[u] = "read" => curr[u] \in 1 .. Len(nodes)
                BY DEF Places, Place, Marking
            <4> QED
                BY <4>1, <4>2
        <3> QED
            BY <3>1, <3>2, <3>3 DEF Has, Taking
    <2>2. \A b \in Blocks : \A n : Offers(n, b)' => Offers(n, b)
        BY <1>0, <1>1, <1>2 DEF Offers
    <2> QED
        BY <2>1, <2>2, FewerPlaces
<1> QED
    BY <1>3, <1>4, <1>5, <1>6

\* A marked node gets the block, which its giver still has.
LEMMA PutIInv ==
    ASSUME IInv, NEW t \in Threads, Put(t)
    PROVE  IInv'
<1> USE DEF IInv, Put, Goto, Onward, AtEnd, Active, Swap, Return
<1>0. /\ nodes \in Seq(Node) /\ Len(nodes) \in Nat
      /\ \A n \in 1 .. Len(nodes) : nodes[n] \in Node
    BY DEF TypeOK
<1>1. pc[t] = "put" /\ curr[t] \in 1 .. Len(nodes) /\ Place(t)
    BY DEF Places, Place, Marking
<1>2. /\ pc' = [pc EXCEPT ![t] = "publish"] /\ curr' = curr
      /\ nodes' \in Seq(Node) /\ Len(nodes') = Len(nodes)
      /\ \A m \in 1 .. Len(nodes) :
            nodes'[m] = IF m = curr[t] THEN [active |-> nodes[curr[t]].active, ctr |-> ctr[t]]
                                       ELSE nodes[m]
    <2>1. ctr[t] \in Blocks
        BY <1>1 DEF TypeOK, Place, Adding
    <2> QED
        BY <1>1, <2>1, Filled
<1>3. TypeOK'
    BY <1>0, <1>1, <1>2 DEF TypeOK, Place, Marking, Adding, Node
<1>4. Places'
    <2>1. Place(t)' /\ \A u \in Threads \ {t} : Marking(u) => curr[u] # curr[t]
        BY <1>0, <1>1, <1>2 DEF TypeOK, Places, Place, Marking, Adding
    <2>2. \A u \in Threads \ {t} :
            /\ pc'[u] = pc[u] /\ curr'[u] = curr[u] /\ ctr'[u] = ctr[u]
            /\ hand'[u] = hand[u]
        BY DEF TypeOK
    <2>3. \A u \in Threads \ {t} : Marking(u) => nodes'[curr[u]] = nodes[curr[u]]
        BY <1>0, <1>2 DEF Places, Place, Marking
    <2> QED
        BY <1>0, <1>2, <1>3, <2>1, <2>2, <2>3, OtherPlaces
<1>5. Known'
    BY <1>0, <1>1, <1>2 DEF Known, TypeOK, Place, Marking, Adding
<1>6. BlockInOnePlace'
    <2>1. \A u \in Threads, b \in Blocks : Has(u, b)' => Has(u, b)
        BY <1>0, <1>1, <1>2 DEF TypeOK, Places, Place, Marking, Adding, Has, Taking
    <2>2. \A b \in Blocks : \A n : Offers(n, b)' => Offers(n, b)
        BY <1>0, <1>1, <1>2 DEF Offers, Place, Marking
    <2> QED
        BY <2>1, <2>2, FewerPlaces
<1> QED
    BY <1>3, <1>4, <1>5, <1>6

\* The node is empty again; the block has been the thread's since it was marked.
LEMMA FreeIInv ==
    ASSUME IInv, NEW t \in Threads, Free(t)
    PROVE  IInv'
<1> USE DEF IInv, Free, Goto, Onward, AtEnd, Active, Swap, Return
<1>0. /\ nodes \in Seq(Node) /\ Len(nodes) \in Nat
      /\ \A n \in 1 .. Len(nodes) : nodes[n] \in Node
    BY DEF TypeOK
<1>1. pc[t] = "free" /\ curr[t] \in 1 .. Len(nodes) /\ Place(t)
    BY DEF Places, Place, Marking
<1>2. /\ pc' = [pc EXCEPT ![t] = "idle"] /\ curr' = [curr EXCEPT ![t] = 0]
      /\ ctr' = [ctr EXCEPT ![t] = NoBlock]
      /\ nodes' \in Seq(Node) /\ Len(nodes') = Len(nodes)
      /\ \A m \in 1 .. Len(nodes) :
            nodes'[m] = IF m = curr[t] THEN [active |-> 0, ctr |-> nodes[curr[t]].ctr]
                                       ELSE nodes[m]
    <2>1. nodes' = [nodes EXCEPT ![curr[t]].active = 0] /\ 0 \in Flag
        BY DEF Flag
    <2> QED
        BY <1>1, <2>1, Written
<1>3. TypeOK'
    BY <1>0, <1>1, <1>2 DEF TypeOK, Place, Marking, Adding, Node
<1>4. Places'
    <2>1. Place(t)' /\ ~Marking(t)'
          /\ \A u \in Threads \ {t} : Marking(u) => curr[u] # curr[t]
        BY <1>0, <1>1, <1>2 DEF TypeOK, Places, Place, Marking, Adding
    <2>2. \A u \in Threads \ {t} :
            /\ pc'[u] = pc[u] /\ curr'[u] = curr[u] /\ ctr'[u] = ctr[u]
            /\ hand'[u] = hand[u]
        BY DEF TypeOK
    <2>3. \A u \in Threads \ {t} : Marking(u) => nodes'[curr[u]] = nodes[curr[u]]
        BY <1>0, <1>2 DEF Places, Place, Marking
    <2> QED
        BY <1>0, <1>2, <1>3, <2>1, <2>2, <2>3, OtherPlaces
<1>5. Known'
    BY <1>0, <1>1, <1>2 DEF Known, TypeOK, Place, Marking, Adding
<1>6. BlockInOnePlace'
    <2>1. \A u \in Threads, b \in Blocks : Has(u, b)' => Has(u, b)
        BY <1>0, <1>1, <1>2 DEF TypeOK, Places, Place, Marking, Adding, Has, Taking
    <2>2. \A b \in Blocks : \A n : Offers(n, b)' => Offers(n, b)
        BY <1>0, <1>1, <1>2 DEF Offers
    <2> QED
        BY <2>1, <2>2, FewerPlaces
<1> QED
    BY <1>3, <1>4, <1>5, <1>6

\* What was the thread's is now offered by the node.
LEMMA PublishIInv ==
    ASSUME IInv, NEW t \in Threads, Publish(t)
    PROVE  IInv'
<1> USE DEF IInv, Publish, Goto, Onward, AtEnd, Active, Swap, Return
<1>0. /\ nodes \in Seq(Node) /\ Len(nodes) \in Nat
      /\ \A n \in 1 .. Len(nodes) : nodes[n] \in Node
    BY DEF TypeOK
<1>1. pc[t] = "publish" /\ curr[t] \in 1 .. Len(nodes) /\ Place(t)
    BY DEF Places, Place, Marking
<1>2. /\ pc' = [pc EXCEPT ![t] = "idle"] /\ curr' = [curr EXCEPT ![t] = 0]
      /\ ctr' = [ctr EXCEPT ![t] = NoBlock]
      /\ nodes' \in Seq(Node) /\ Len(nodes') = Len(nodes)
      /\ \A m \in 1 .. Len(nodes) :
            nodes'[m] = IF m = curr[t] THEN [active |-> 1, ctr |-> nodes[curr[t]].ctr]
                                       ELSE nodes[m]
    <2>1. nodes' = [nodes EXCEPT ![curr[t]].active = 1] /\ 1 \in Flag
        BY DEF Flag
    <2> QED
        BY <1>1, <2>1, Written
<1>3. TypeOK'
    BY <1>0, <1>1, <1>2 DEF TypeOK, Place, Marking, Adding, Node
<1>4. Places'
    <2>1. Place(t)' /\ ~Marking(t)'
          /\ \A u \in Threads \ {t} : Marking(u) => curr[u] # curr[t]
        BY <1>0, <1>1, <1>2 DEF TypeOK, Places, Place, Marking, Adding
    <2>2. \A u \in Threads \ {t} :
            /\ pc'[u] = pc[u] /\ curr'[u] = curr[u] /\ ctr'[u] = ctr[u]
            /\ hand'[u] = hand[u]
        BY DEF TypeOK
    <2>3. \A u \in Threads \ {t} : Marking(u) => nodes'[curr[u]] = nodes[curr[u]]
        BY <1>0, <1>2 DEF Places, Place, Marking
    <2> QED
        BY <1>0, <1>2, <1>3, <2>1, <2>2, <2>3, OtherPlaces
<1>5. Known'
    BY <1>0, <1>1, <1>2 DEF Known, TypeOK, Place, Marking, Adding
<1>6. BlockInOnePlace'
    <2>a. ctr[t] \in Blocks
        BY <1>1 DEF TypeOK, Place, Marking, Adding
    <2> PICK c \in Blocks : c = ctr[t]
        BY <2>a
    <2>0. c \in Blocks /\ Has(t, c) /\ c = nodes[curr[t]].ctr /\ nodes[curr[t]].active = 2
        BY <1>1 DEF TypeOK, Place, Marking, Adding, Has
    <2>1. \A u \in Threads, b \in Blocks : Has(u, b)' => Has(u, b) /\ ~(u = t /\ b = c)
        BY <1>0, <1>1, <1>2 DEF TypeOK, Places, Place, Marking, Adding, Has, Taking
    <2>2. \A b \in Blocks : \A n : Offers(n, b)' => Offers(n, b) \/ (n = curr[t] /\ b = c)
        BY <1>0, <1>1, <1>2, <2>0 DEF Offers
    <2>3. \A b \in Blocks : Listed(b)' <=> \E n : Offers(n, b)'
        BY DEF Listed, Offers
    <2>4. \A n : ~Offers(n, c)
        BY <2>0 DEF BlockInOnePlace, Listed, Offers
    <2>5. \A u \in Threads : ~Has(u, c)'
        BY <2>0, <2>1 DEF BlockInOnePlace
    <2>6. ASSUME NEW b \in Blocks, NEW u \in Threads, Has(u, b)'
          PROVE  ~Listed(b)' /\ \A w \in Threads : Has(w, b)' => w = u
        <3>1. b # c /\ Has(u, b)
            BY <2>1, <2>5, <2>6
        <3>2. \A n : ~Offers(n, b)
            BY <3>1 DEF BlockInOnePlace, Listed, Offers
        <3> QED
            BY <2>1, <2>2, <2>3, <3>1, <3>2 DEF BlockInOnePlace
    <2>7. ASSUME NEW b \in Blocks, NEW m, NEW n, Offers(m, b)', Offers(n, b)'
          PROVE  m = n
        BY <2>2, <2>4, <2>7 DEF BlockInOnePlace, Offers
    <2> QED
        BY <2>6, <2>7 DEF BlockInOnePlace, Offers
<1> QED
    BY <1>3, <1>4, <1>5, <1>6

\* A new node is inactive: its block is nowhere.
LEMMA AppendIInv ==
    ASSUME IInv, NEW t \in Threads, AppendNode(t), AtEnd(t)
    PROVE  IInv'
<1> USE DEF IInv, AppendNode, Goto, AtEnd, Return
<1>0. /\ nodes \in Seq(Node) /\ Len(nodes) \in Nat
      /\ \A n \in 1 .. Len(nodes) : nodes[n] \in Node
    BY DEF TypeOK
<1>1. pc[t] = "append" /\ ctr[t] \in hand[t] /\ ctr[t] \in Blocks
    BY DEF Places, Place, Adding, TypeOK
<1>2. /\ pc' = [pc EXCEPT ![t] = "idle"] /\ ~Marking(t)' /\ made' = made
      /\ hand' = [hand EXCEPT ![t] = @ \ {ctr[t]}]
      /\ curr' = [curr EXCEPT ![t] = 0] /\ ctr' = [ctr EXCEPT ![t] = NoBlock]
      /\ nodes' \in Seq(Node) /\ Len(nodes') = Len(nodes) + 1
      /\ \A m \in 1 .. Len(nodes) : nodes'[m] = nodes[m]
      /\ nodes'[Len(nodes) + 1] = [active |-> 0, ctr |-> ctr[t]]
    <2>1. [active |-> 0, ctr |-> ctr[t]] \in Node
        BY <1>1 DEF Node
    <2>2. nodes' = Append(nodes, [active |-> 0, ctr |-> ctr[t]])
        OBVIOUS
    <2> QED
        BY <1>0, <2>1, <2>2, AppendOne DEF TypeOK, Marking
<1>3. TypeOK'
    <2>1. hand' \in [Threads -> SUBSET Blocks]
        BY <1>2 DEF TypeOK
    <2>2. curr' \in [Threads -> Nat]
        BY <1>2 DEF TypeOK
    <2> QED
        BY <1>2, <2>1, <2>2 DEF TypeOK
<1>4. Places'
    <2>1. Place(t)'
        BY <1>2 DEF TypeOK, Place, Marking, Adding
    <2>2. \A u \in Threads \ {t} :
            /\ pc'[u] = pc[u] /\ curr'[u] = curr[u] /\ ctr'[u] = ctr[u]
            /\ hand'[u] = hand[u]
        BY DEF TypeOK
    <2>3. \A u \in Threads \ {t} : Marking(u) => nodes'[curr[u]] = nodes[curr[u]]
        BY <1>0, <1>2 DEF Places, Place, Marking
    <2> QED
        BY <1>0, <1>2, <1>3, <2>1, <2>2, <2>3, OtherPlaces
<1>5. Known'
    <2>1. \A u \in Threads : hand'[u] \subseteq hand[u]
        BY <1>2 DEF TypeOK
    <2>2. \A n \in 1 .. Len(nodes') : n \in 1 .. Len(nodes) \/ n = Len(nodes) + 1
        BY <1>0, <1>2
    <2> QED
        BY <1>1, <1>2, <2>1, <2>2 DEF Known
<1>6. BlockInOnePlace'
    <2>0. \A n \in 1 .. Len(nodes') : n \in 1 .. Len(nodes) \/ n = Len(nodes) + 1
        BY <1>0, <1>2
    <2>1. \A u \in Threads, b \in Blocks : Has(u, b)' => Has(u, b)
        BY <1>0, <1>1, <1>2 DEF TypeOK, Places, Place, Marking, Has, Taking
    <2>2. ASSUME NEW b \in Blocks, NEW n, Offers(n, b)'
          PROVE  Offers(n, b)
        <3>1. n \in 1 .. Len(nodes') /\ nodes'[n].active = 1 /\ nodes'[n].ctr = b
            BY <2>2 DEF Offers
        <3>2. n \in 1 .. Len(nodes)
            BY <1>2, <2>0, <3>1
        <3> QED
            BY <1>2, <3>1, <3>2 DEF Offers
    <2> QED
        BY <2>1, <2>2, FewerPlaces
<1> QED
    BY <1>3, <1>4, <1>5, <1>6

\* A new block was nowhere before.
LEMMA NewIInv ==
    ASSUME IInv, NEW t \in Threads, New(t)
    PROVE  IInv'
<1> USE DEF IInv, New, Goto, Return
<1>0. PICK c \in Blocks \ made :
        made' = made \cup {c} /\ hand' = [hand EXCEPT ![t] = @ \cup {c}]
    OBVIOUS
<1>1. /\ pc[t] = "new" /\ pc' = [pc EXCEPT ![t] = "idle"] /\ nodes' = nodes
      /\ Len(nodes) \in Nat /\ nodes \in Seq(Node)
    BY DEF TypeOK
<1>2. TypeOK'
    BY <1>0, <1>1 DEF TypeOK
<1>3. Places'
    <2>1. Place(t)' /\ ~Marking(t)'
        BY <1>1 DEF TypeOK, Place, Marking, Adding
    <2>2. \A u \in Threads \ {t} :
            /\ pc'[u] = pc[u] /\ curr'[u] = curr[u] /\ ctr'[u] = ctr[u]
            /\ hand'[u] = hand[u]
        BY <1>0 DEF TypeOK
    <2> QED
        BY <1>1, <1>2, <2>1, <2>2, OtherPlaces
<1>4. Known'
    <2>1. \A u \in Threads : hand'[u] \subseteq hand[u] \cup {c}
        BY <1>0 DEF TypeOK
    <2> QED
        BY <1>0, <1>1, <2>1 DEF Known
<1>5. BlockInOnePlace'
    <2>1. \A u \in Threads, b \in Blocks : Has(u, b)' => Has(u, b) \/ (u = t /\ b = c)
        BY <1>0, <1>1 DEF TypeOK, Has, Taking
    <2>2. ~Listed(c) /\ \A u \in Threads : ~Has(u, c)
        <3>1. ~Listed(c) /\ \A u \in Threads : c \notin hand[u]
            BY <1>0 DEF Known, Listed
        <3>2. \A u \in Threads : ~Taking(u, c)
            BY <1>0 DEF Known, Places, Place, Marking, Taking
        <3> QED
            BY <3>1, <3>2 DEF Has
    <2>3. \A b : Listed(b)' = Listed(b)
        BY <1>1 DEF Listed
    <2> QED
        BY <1>1, <2>1, <2>2, <2>3 DEF BlockInOnePlace
<1> QED
    BY <1>2, <1>3, <1>4, <1>5

\* All steps together.
LEMMA NextIInv == IInv /\ [Next]_vars => IInv'
<1> SUFFICES ASSUME IInv, [Next]_vars PROVE IInv'
    OBVIOUS
<1>1. CASE UNCHANGED vars
    BY <1>1 DEF vars, IInv, TypeOK, Places, Place, Known, BlockInOnePlace, Has, Taking,
                Listed, Marking, Adding
<1>2. ASSUME NEW t \in Threads,
             Alloc(t) \/ AllocStep(t) \/ AddStep(t) \/ \E b \in Blocks : Add(t, b)
      PROVE  IInv'
    <2>1. CASE Alloc(t) \/ Scan(t) \/ Read(t) \/ Walk(t) \/ \E b \in Blocks : Add(t, b)
        BY <2>1, LocalIInv
    <2>2. CASE Grab(t)
        BY <2>2, GrabIInv, PassIInv
    <2>3. CASE Claim(t)
        BY <2>3, ClaimIInv, PassIInv
    <2>4. CASE AppendNode(t)
        BY <2>4, AppendIInv, PassIInv
    <2>5. CASE Free(t)
        BY <2>5, FreeIInv
    <2>6. CASE New(t)
        BY <2>6, NewIInv
    <2>7. CASE Put(t)
        BY <2>7, PutIInv
    <2>8. CASE Publish(t)
        BY <2>8, PublishIInv
    <2> QED
        BY <1>2, <2>1, <2>2, <2>3, <2>4, <2>5, <2>6, <2>7, <2>8 DEF AllocStep, AddStep
<1> QED
    BY <1>1, <1>2 DEF Next

\* The invariant holds throughout.
THEOREM Inductive == Spec => []IInv
<1> QED
    BY InitIInv, NextIInv, PTL DEF Spec

\* Every variable keeps its type.
THEOREM TypeCorrect == Spec => []TypeOK
<1>1. IInv => TypeOK
    BY DEF IInv
<1> QED
    BY <1>1, Inductive, PTL

\* Alloc never hands out a control block that is in use or offered elsewhere.
THEOREM BlocksInOnePlace == Spec => []BlockInOnePlace
<1>1. IInv => BlockInOnePlace
    BY DEF IInv
<1> QED
    BY <1>1, Inductive, PTL

-----------------------------------------------------------------------------
(* The list implements the pool *)

\* free and out of the pool.
Frees == {b \in Blocks : Listed(b)}
Outs == {b \in Blocks : \E t \in Threads : Has(t, b)}

\* A step that moves no block.
Stays ==
    /\ \A u \in Threads, b \in Blocks : Has(u, b)' <=> Has(u, b)
    /\ \A b \in Blocks : Listed(b)' <=> Listed(b)

\* It is invisible to the pool.
LEMMA StaysPut ==
    ASSUME Stays, made' = made
    PROVE  UNCHANGED <<made, Frees, Outs>>
    BY DEF Stays, Frees, Outs

\* Steps that write no shared data, or lose a compare-and-swap.
LEMMA LocalStays ==
    ASSUME IInv, NEW t \in Threads,
           \/ Alloc(t) \/ Scan(t) \/ Read(t) \/ Walk(t) \/ \E b \in Blocks : Add(t, b)
           \/ Grab(t) /\ Active(t) # 1
           \/ Claim(t) /\ Active(t) # 0
           \/ AppendNode(t) /\ ~AtEnd(t)
    PROVE  Stays /\ made' = made
<1> USE DEF IInv, Alloc, Scan, Read, Walk, Add, Grab, Claim, AppendNode, Swap, Goto, Onward
<1>1. nodes' = nodes /\ made' = made /\ hand' = hand
    OBVIOUS
<1>2. \A u \in Threads, b \in Blocks : Taking(u, b)' <=> Taking(u, b)
    BY <1>1 DEF TypeOK, Taking
<1> QED
    BY <1>1, <1>2 DEF Stays, Has, Listed

\* Marking an empty node moves no block.
LEMMA ClaimStays ==
    ASSUME IInv, NEW t \in Threads, Claim(t), Active(t) = 0
    PROVE  Stays /\ made' = made
<1> USE DEF IInv, Claim, Goto, Active, Swap
<1>1. pc[t] = "claim" /\ curr[t] \in 1 .. Len(nodes)
    BY DEF Places, Place
<1>2. /\ Len(nodes') = Len(nodes) /\ Len(nodes) \in Nat
      /\ \A m \in 1 .. Len(nodes) :
            nodes'[m] = IF m = curr[t] THEN [active |-> 2, ctr |-> nodes[curr[t]].ctr]
                                       ELSE nodes[m]
    <2>1. nodes' = [nodes EXCEPT ![curr[t]].active = 2] /\ 2 \in Flag /\ Len(nodes) \in Nat
        BY DEF Flag, TypeOK
    <2> HIDE DEF Claim
    <2>2. TypeOK /\ curr[t] \in 1 .. Len(nodes)
        BY <1>1
    <2> QED
        BY <2>1, <2>2, Written
<1>3. \A u \in Threads, b \in Blocks : Has(u, b)' <=> Has(u, b)
    BY <1>1, <1>2 DEF TypeOK, Places, Place, Marking, Has, Taking
<1>4. \A b \in Blocks : Listed(b)' <=> Listed(b)
    BY <1>1, <1>2 DEF Listed
<1> QED
    BY <1>3, <1>4 DEF Stays

\* The block is the thread's from the mark on, so the return of Alloc is invisible.
LEMMA FreeStays ==
    ASSUME IInv, NEW t \in Threads, Free(t)
    PROVE  Stays /\ made' = made
<1> USE DEF IInv, Free, Goto, Return
<1>1. pc[t] = "free" /\ curr[t] \in 1 .. Len(nodes) /\ nodes[curr[t]].active = 2
    BY DEF Places, Place, Marking
<1>2. /\ Len(nodes') = Len(nodes) /\ Len(nodes) \in Nat
      /\ \A m \in 1 .. Len(nodes) :
            nodes'[m] = IF m = curr[t] THEN [active |-> 0, ctr |-> nodes[curr[t]].ctr]
                                       ELSE nodes[m]
    <2>1. nodes' = [nodes EXCEPT ![curr[t]].active = 0] /\ 0 \in Flag /\ Len(nodes) \in Nat
        BY DEF Flag, TypeOK
    <2> QED
        BY <1>1, <2>1, Written
<1>3. \A u \in Threads, b \in Blocks : Has(u, b)' <=> Has(u, b)
    BY <1>1, <1>2 DEF TypeOK, Places, Place, Marking, Has, Taking
<1>4. \A b \in Blocks : Listed(b)' <=> Listed(b)
    BY <1>1, <1>2 DEF Listed
<1> QED
    BY <1>3, <1>4 DEF Stays

\* The giver keeps the block until the node is active.
LEMMA PutStays ==
    ASSUME IInv, NEW t \in Threads, Put(t)
    PROVE  Stays /\ made' = made
<1> USE DEF IInv, Put, Goto
<1>1. /\ pc[t] = "put" /\ curr[t] \in 1 .. Len(nodes) /\ nodes[curr[t]].active = 2
      /\ ctr[t] \in Blocks /\ nodes \in Seq(Node) /\ Len(nodes) \in Nat
    BY DEF Places, Place, Marking, Adding, TypeOK
<1>2. /\ Len(nodes') = Len(nodes)
      /\ \A m \in 1 .. Len(nodes) :
            nodes'[m] = IF m = curr[t] THEN [active |-> 2, ctr |-> ctr[t]] ELSE nodes[m]
    <2>1. /\ TypeOK /\ curr[t] \in 1 .. Len(nodes) /\ ctr[t] \in Blocks
          /\ nodes' = [nodes EXCEPT ![curr[t]].ctr = ctr[t]]
        BY <1>1
    <2>2. /\ Len(nodes') = Len(nodes)
          /\ \A m \in 1 .. Len(nodes) :
                nodes'[m] = IF m = curr[t]
                                THEN [active |-> nodes[curr[t]].active, ctr |-> ctr[t]]
                                ELSE nodes[m]
        BY <2>1, Filled
    <2> QED
        BY <1>1, <2>2
<1>3. \A u \in Threads, b \in Blocks : Has(u, b)' <=> Has(u, b)
    BY <1>1, <1>2 DEF TypeOK, Places, Place, Marking, Has, Taking
<1>4. \A b \in Blocks : Listed(b)' <=> Listed(b)
    BY <1>1, <1>2 DEF Listed
<1> QED
    BY <1>3, <1>4 DEF Stays

\* The compare-and-swap of Alloc takes the block the node offers.
LEMMA GrabTakes ==
    ASSUME IInv, NEW t \in Threads, Grab(t), Active(t) = 1
    PROVE  \E b \in Blocks : Pool!Take(b)
<1> USE DEF IInv, Grab, Goto, Active, Swap
<1>1. /\ pc[t] = "grab" /\ curr[t] \in 1 .. Len(nodes) /\ nodes[curr[t]].active = 1
      /\ nodes[curr[t]].ctr \in Blocks
    <2>1. pc[t] = "grab" /\ curr[t] \in 1 .. Len(nodes) /\ nodes \in Seq(Node)
        BY DEF Places, Place, TypeOK
    <2>2. nodes[curr[t]] \in Node
        BY <2>1
    <2> QED
        BY <2>1, <2>2 DEF Node
<1> PICK c \in Blocks : c = nodes[curr[t]].ctr
    BY <1>1
<1>2. /\ Len(nodes') = Len(nodes) /\ Len(nodes) \in Nat
      /\ \A m \in 1 .. Len(nodes) :
            nodes'[m] = IF m = curr[t] THEN [active |-> 2, ctr |-> nodes[curr[t]].ctr]
                                       ELSE nodes[m]
    <2>1. nodes' = [nodes EXCEPT ![curr[t]].active = 2] /\ 2 \in Flag /\ Len(nodes) \in Nat
        BY DEF Flag, TypeOK
    <2> HIDE DEF Grab
    <2>2. TypeOK /\ curr[t] \in 1 .. Len(nodes)
        BY <1>1
    <2> QED
        BY <2>1, <2>2, Written
<1>3. \A u \in Threads, b \in Blocks : Has(u, b)' <=> Has(u, b) \/ (u = t /\ b = c)
    BY <1>1, <1>2 DEF TypeOK, Places, Place, Marking, Has, Taking
<1>4. \A b \in Blocks : Listed(b)' <=> Listed(b) /\ b # c
    <2>1. ~Listed(c)'
        BY <1>1, <1>2 DEF Listed, BlockInOnePlace
    <2>2. \A b \in Blocks \ {c} : Listed(b)' <=> Listed(b)
        BY <1>1, <1>2 DEF Listed
    <2> QED
        BY <2>1, <2>2
<1>5. Listed(c)
    BY <1>1 DEF Listed
<1>6. Frees' = Frees \ {c} /\ Outs' = Outs \cup {c} /\ c \in Frees
    BY <1>3, <1>4, <1>5 DEF Frees, Outs
<1> QED
    BY <1>6 DEF Pool!Take, Frees, Outs

\* curr->active = 1 gives the block back.
LEMMA PublishGives ==
    ASSUME IInv, NEW t \in Threads, Publish(t)
    PROVE  \E b \in Blocks : Pool!Give(b)
<1> USE DEF IInv, Publish, Goto, Return
<1>1. /\ pc[t] = "publish" /\ curr[t] \in 1 .. Len(nodes) /\ nodes[curr[t]].active = 2
      /\ ctr[t] \in Blocks /\ ctr[t] \in hand[t] /\ nodes[curr[t]].ctr = ctr[t]
    BY DEF Places, Place, Marking, Adding, TypeOK
<1> PICK c \in Blocks : c = ctr[t]
    BY <1>1
<1>2. /\ Len(nodes') = Len(nodes) /\ Len(nodes) \in Nat
      /\ \A m \in 1 .. Len(nodes) :
            nodes'[m] = IF m = curr[t] THEN [active |-> 1, ctr |-> nodes[curr[t]].ctr]
                                       ELSE nodes[m]
    <2>1. nodes' = [nodes EXCEPT ![curr[t]].active = 1] /\ 1 \in Flag /\ Len(nodes) \in Nat
        BY DEF Flag, TypeOK
    <2> QED
        BY <1>1, <2>1, Written
<1>3. \A u \in Threads, b \in Blocks : Has(u, b)' <=> Has(u, b) /\ ~(u = t /\ b = c)
    BY <1>1, <1>2 DEF TypeOK, Places, Place, Marking, Has, Taking
<1>4. \A b \in Blocks : Listed(b)' <=> Listed(b) \/ b = c
    <2>1. Listed(c)'
        BY <1>1, <1>2 DEF Listed
    <2>2. \A b \in Blocks \ {c} : Listed(b)' <=> Listed(b)
        BY <1>1, <1>2 DEF Listed
    <2> QED
        BY <2>1, <2>2
<1>5. Has(t, c) /\ \A u \in Threads : Has(u, c) => u = t
    BY <1>1 DEF Has, BlockInOnePlace
<1>6. Frees' = Frees \cup {c} /\ Outs' = Outs \ {c} /\ c \in Outs
    BY <1>3, <1>4, <1>5 DEF Frees, Outs
<1> QED
    BY <1>6 DEF Pool!Give, Frees, Outs

\* A block in a new node is lost.
LEMMA AppendLoses ==
    ASSUME IInv, NEW t \in Threads, AppendNode(t), AtEnd(t)
    PROVE  \E b \in Blocks : Pool!Lose(b)
<1> USE DEF IInv, AppendNode, Goto, Return, AtEnd
<1>1. /\ pc[t] = "append" /\ ctr[t] \in Blocks /\ ctr[t] \in hand[t]
      /\ nodes \in Seq(Node) /\ Len(nodes) \in Nat
    BY DEF Places, Place, Marking, Adding, TypeOK
<1> PICK c \in Blocks : c = ctr[t]
    BY <1>1
<1>2. /\ Len(nodes') = Len(nodes) + 1
      /\ \A m \in 1 .. Len(nodes) : nodes'[m] = nodes[m]
      /\ nodes'[Len(nodes) + 1] = [active |-> 0, ctr |-> c]
    <2>1. [active |-> 0, ctr |-> c] \in Node
        BY DEF Node
    <2>2. nodes' = Append(nodes, [active |-> 0, ctr |-> c])
        OBVIOUS
    <2> QED
        BY <1>1, <2>1, <2>2, AppendOne
<1>3. \A u \in Threads, b \in Blocks : Has(u, b)' <=> Has(u, b) /\ ~(u = t /\ b = c)
    BY <1>1, <1>2 DEF TypeOK, Places, Place, Marking, Has, Taking
<1>4. \A b \in Blocks : Listed(b)' <=> Listed(b)
    <2>1. \A n \in 1 .. Len(nodes') : n \in 1 .. Len(nodes) \/ n = Len(nodes) + 1
        BY <1>1, <1>2
    <2>2. 1 .. Len(nodes) \subseteq 1 .. Len(nodes')
        BY <1>1, <1>2
    <2>3. ASSUME NEW b \in Blocks, Listed(b)' PROVE Listed(b)
        <3>1. PICK n \in 1 .. Len(nodes') : nodes'[n].active = 1 /\ nodes'[n].ctr = b
            BY <2>3 DEF Listed
        <3>2. n \in 1 .. Len(nodes)
            BY <1>2, <2>1, <3>1
        <3> QED
            BY <1>2, <3>1, <3>2 DEF Listed
    <2>4. ASSUME NEW b \in Blocks, Listed(b) PROVE Listed(b)'
        <3>1. PICK n \in 1 .. Len(nodes) : nodes[n].active = 1 /\ nodes[n].ctr = b
            BY <2>4 DEF Listed
        <3> QED
            BY <1>2, <2>2, <3>1 DEF Listed
    <2> QED
        BY <2>3, <2>4
<1>5. Has(t, c) /\ \A u \in Threads : Has(u, c) => u = t
    BY <1>1 DEF Has, BlockInOnePlace
<1>6. Frees' = Frees /\ Outs' = Outs \ {c} /\ c \in Outs
    BY <1>3, <1>4, <1>5 DEF Frees, Outs
<1> QED
    BY <1>6 DEF Pool!Lose, Frees, Outs

\* make_shared creates a block.
LEMMA NewCreates ==
    ASSUME IInv, NEW t \in Threads, New(t)
    PROVE  \E b \in Blocks : Pool!New(b)
<1> USE DEF IInv, New, Goto, Return
<1>0. PICK c \in Blocks \ made :
        made' = made \cup {c} /\ hand' = [hand EXCEPT ![t] = @ \cup {c}]
    OBVIOUS
<1>1. nodes' = nodes /\ pc[t] = "new" /\ pc' = [pc EXCEPT ![t] = "idle"]
    OBVIOUS
<1>3. \A u \in Threads, b \in Blocks : Has(u, b)' <=> Has(u, b) \/ (u = t /\ b = c)
    BY <1>0, <1>1 DEF TypeOK, Has, Taking
<1>4. \A b \in Blocks : Listed(b)' <=> Listed(b)
    BY <1>1 DEF Listed
<1>6. Frees' = Frees /\ Outs' = Outs \cup {c}
    BY <1>3, <1>4 DEF Frees, Outs
<1> QED
    BY <1>0, <1>6 DEF Pool!New, Frees, Outs

\* Every step is a step of the pool or invisible to it.
LEMMA StepRefines == IInv /\ [Next]_vars => [Pool!BPNext]_(Pool!bpVars)
<1> SUFFICES ASSUME IInv, [Next]_vars PROVE [Pool!BPNext]_(Pool!bpVars)
    OBVIOUS
<1>1. CASE UNCHANGED vars
    BY <1>1 DEF vars, Pool!bpVars, Has, Taking, Listed
<1>2. ASSUME NEW t \in Threads,
             Alloc(t) \/ AllocStep(t) \/ AddStep(t) \/ \E b \in Blocks : Add(t, b)
      PROVE  [Pool!BPNext]_(Pool!bpVars)
    <2>0. ASSUME Stays, made' = made
          PROVE  UNCHANGED Pool!bpVars
        BY <2>0, StaysPut DEF Pool!bpVars, Frees, Outs
    <2>1. CASE \/ Alloc(t) \/ Scan(t) \/ Read(t) \/ Walk(t) \/ \E b \in Blocks : Add(t, b)
               \/ Grab(t) /\ Active(t) # 1
               \/ Claim(t) /\ Active(t) # 0
               \/ AppendNode(t) /\ ~AtEnd(t)
        BY <2>0, <2>1, LocalStays
    <2>2. CASE Grab(t) /\ Active(t) = 1
        BY <2>2, GrabTakes DEF Pool!BPNext
    <2>3. CASE Claim(t) /\ Active(t) = 0
        BY <2>0, <2>3, ClaimStays
    <2>4. CASE AppendNode(t) /\ AtEnd(t)
        BY <2>4, AppendLoses DEF Pool!BPNext
    <2>5. CASE Free(t)
        BY <2>0, <2>5, FreeStays
    <2>6. CASE New(t)
        BY <2>6, NewCreates DEF Pool!BPNext
    <2>7. CASE Put(t)
        BY <2>0, <2>7, PutStays
    <2>8. CASE Publish(t)
        BY <2>8, PublishGives DEF Pool!BPNext
    <2> QED
        BY <1>2, <2>1, <2>2, <2>3, <2>4, <2>5, <2>6, <2>7, <2>8 DEF AllocStep, AddStep
<1> QED
    BY <1>1, <1>2 DEF Next

\* The recycle list implements the pool of blocks: creating, taking, giving
\* back and losing a block are single steps, all others are invisible.
THEOREM ListIsPool == Spec => KeepsPromise
<1>1. Init => Pool!BPInit
    BY DEF Init, Pool!BPInit, Has, Taking, Listed
<1> QED
    BY <1>1, Inductive, StepRefines, PTL DEF Spec, KeepsPromise, Pool!BPSpec
=============================================================================
