---------------------------- MODULE RecycleList ----------------------------
(***************************************************************************)
(* RecycleLinkedList: the lock-free list through which the control blocks  *)
(* of deleted players are used again.  Nodes are only ever appended, so a  *)
(* pointer to a node is its number; head is number 0.  Each read and each  *)
(* compare-and-swap of a field that another thread writes is a step.       *)
(***************************************************************************)
EXTENDS Naturals, Sequences

CONSTANTS Threads,
    Blocks,     \* the control blocks the program may create
    NoBlock     \* a null pointer

ASSUME NoBlockAssumption == NoBlock \notin Blocks

VARIABLES
    nodes,      \* the list behind head: active and ctr of each node
    made,       \* control blocks created with new so far
    hand,       \* the blocks each thread has: taken or made, not given back
    pc, curr,   \* place in Alloc or Add_FreeListNode; the node looked at
    ctr         \* ret of Alloc, p of Add_FreeListNode

vars == <<nodes, made, hand, pc, curr, ctr>>

Node == [active : {0, 1, 2}, ctr : Blocks]

\* The nodes hold blocks, the threads have blocks, and a register is empty or
\* holds what its name says.
TypeOK ==
    /\ nodes \in Seq(Node)
    /\ made \subseteq Blocks
    /\ hand \in [Threads -> SUBSET Blocks]
    /\ pc \in [Threads -> {"idle", "scan", "grab", "read", "free", "new",
                           "walk", "claim", "put", "publish", "append"}]
    /\ curr \in [Threads -> Nat]
    /\ ctr \in [Threads -> Blocks \cup {NoBlock}]

Init ==
    /\ nodes = <<>>
    /\ made = {}
    /\ hand = [t \in Threads |-> {}]
    /\ pc = [t \in Threads |-> "idle"]
    /\ curr = [t \in Threads |-> 0]
    /\ ctr = [t \in Threads |-> NoBlock]

Goto(t, label) == pc' = [pc EXCEPT ![t] = label]

\* curr = curr->next
Onward(t) == curr' = [curr EXCEPT ![t] = @ + 1]

AtEnd(t) == curr[t] > Len(nodes)

Active(t) == nodes[curr[t]].active

Swap(t, from, to) ==
    /\ Active(t) = from
    /\ nodes' = [nodes EXCEPT ![curr[t]].active = to]

\* The call returns.
Return(t) ==
    /\ Goto(t, "idle")
    /\ curr' = [curr EXCEPT ![t] = 0]
    /\ ctr' = [ctr EXCEPT ![t] = NoBlock]

-----------------------------------------------------------------------------
(* Alloc *)

Alloc(t) ==
    /\ pc[t] = "idle"
    /\ Goto(t, "scan")
    /\ curr' = [curr EXCEPT ![t] = 1]
    /\ UNCHANGED <<nodes, made, hand, ctr>>

\* The loop over the nodes: its end, a node with a block to take, another one.
Scan(t) ==
    /\ pc[t] = "scan"
    /\ \/ AtEnd(t) /\ Goto(t, "new") /\ UNCHANGED curr
       \/ ~AtEnd(t) /\ Active(t) = 1 /\ Goto(t, "grab") /\ UNCHANGED curr
       \/ ~AtEnd(t) /\ Active(t) # 1 /\ Onward(t) /\ UNCHANGED pc
    /\ UNCHANGED <<nodes, made, hand, ctr>>

\* Bug variant: the node is marked without a compare-and-swap.
GrabBlind(t) ==
    /\ pc[t] = "grab"
    /\ nodes' = [nodes EXCEPT ![curr[t]].active = 2]
    /\ Goto(t, "read")
    /\ UNCHANGED <<made, hand, curr, ctr>>

\* CAS(&curr->active, 1, 2)
Grab(t) ==
    /\ pc[t] = "grab"
    /\ \/ Swap(t, 1, 2) /\ Goto(t, "read") /\ UNCHANGED curr
       \/ Active(t) # 1 /\ Onward(t) /\ Goto(t, "scan") /\ UNCHANGED nodes
    /\ UNCHANGED <<made, hand, ctr>>

\* Bug variant: ret is not read.
ReadForgotten(t) ==
    /\ pc[t] = "read"
    /\ Goto(t, "free")
    /\ UNCHANGED <<nodes, made, hand, curr, ctr>>

\* ret = curr->ctr
Read(t) ==
    /\ pc[t] = "read"
    /\ ctr' = [ctr EXCEPT ![t] = nodes[curr[t]].ctr]
    /\ Goto(t, "free")
    /\ UNCHANGED <<nodes, made, hand, curr>>

\* curr->active = 0; return ret
Free(t) ==
    /\ pc[t] = "free"
    /\ nodes' = [nodes EXCEPT ![curr[t]].active = 0]
    /\ hand' = [hand EXCEPT ![t] = @ \cup {ctr[t]}]
    /\ Return(t)
    /\ UNCHANGED made

\* Nothing to take: make_shared creates a control block.
New(t) ==
    /\ pc[t] = "new"
    /\ \E b \in Blocks \ made :
        /\ made' = made \cup {b}
        /\ hand' = [hand EXCEPT ![t] = @ \cup {b}]
    /\ Return(t)
    /\ UNCHANGED nodes

-----------------------------------------------------------------------------
(* Add_FreeListNode *)

Add(t, b) ==
    /\ pc[t] = "idle"
    /\ b \in hand[t]
    /\ Goto(t, "walk")
    /\ curr' = [curr EXCEPT ![t] = 1]
    /\ ctr' = [ctr EXCEPT ![t] = b]
    /\ UNCHANGED <<nodes, made, hand>>

\* The loop over the nodes: its end, an empty node, another one.
Walk(t) ==
    /\ pc[t] = "walk"
    /\ \/ AtEnd(t) /\ Goto(t, "append") /\ UNCHANGED curr
       \/ ~AtEnd(t) /\ Active(t) = 0 /\ Goto(t, "claim") /\ UNCHANGED curr
       \/ ~AtEnd(t) /\ Active(t) # 0 /\ Onward(t) /\ UNCHANGED pc
    /\ UNCHANGED <<nodes, made, hand, ctr>>

\* CAS(&curr->active, 0, 2)
Claim(t) ==
    /\ pc[t] = "claim"
    /\ \/ Swap(t, 0, 2) /\ Goto(t, "put") /\ UNCHANGED curr
       \/ Active(t) # 0 /\ Onward(t) /\ Goto(t, "walk") /\ UNCHANGED nodes
    /\ UNCHANGED <<made, hand, ctr>>

\* Bug variant: the node is made active before it has its block.
PutLate(t) ==
    /\ pc[t] = "put"
    /\ nodes' = [nodes EXCEPT ![curr[t]].active = 1]
    /\ Goto(t, "publish")
    /\ UNCHANGED <<made, hand, curr, ctr>>

\* curr->ctr = p
Put(t) ==
    /\ pc[t] = "put"
    /\ nodes' = [nodes EXCEPT ![curr[t]].ctr = ctr[t]]
    /\ Goto(t, "publish")
    /\ UNCHANGED <<made, hand, curr, ctr>>

\* curr->active = 1
Publish(t) ==
    /\ pc[t] = "publish"
    /\ nodes' = [nodes EXCEPT ![curr[t]].active = 1]
    /\ hand' = [hand EXCEPT ![t] = @ \ {ctr[t]}]
    /\ Return(t)
    /\ UNCHANGED made

\* Bug variant: the walk to the end of the list does not go on.
AppendStuck(t) ==
    /\ pc[t] = "append"
    /\ AtEnd(t)
    /\ nodes' = Append(nodes, [active |-> 0, ctr |-> ctr[t]])
    /\ hand' = [hand EXCEPT ![t] = @ \ {ctr[t]}]
    /\ Return(t)
    /\ UNCHANGED made

\* CAS(&pred->next, nullptr, n): the new node is inactive, so its block is
\* never taken, and lost when another one is put there.
AppendNode(t) ==
    /\ pc[t] = "append"
    /\ \/ /\ AtEnd(t)
          /\ nodes' = Append(nodes, [active |-> 0, ctr |-> ctr[t]])
          /\ hand' = [hand EXCEPT ![t] = @ \ {ctr[t]}]
          /\ Return(t)
       \/ /\ ~AtEnd(t)
          /\ Onward(t)
          /\ UNCHANGED <<nodes, hand, pc, ctr>>
    /\ UNCHANGED made

-----------------------------------------------------------------------------

AllocStep(t) == Scan(t) \/ Grab(t) \/ Read(t) \/ Free(t) \/ New(t)

AddStep(t) == Walk(t) \/ Claim(t) \/ Put(t) \/ Publish(t) \/ AppendNode(t)

Next ==
    \E t \in Threads :
        Alloc(t) \/ AllocStep(t) \/ AddStep(t) \/ \E b \in Blocks : Add(t, b)

Spec == Init /\ [][Next]_vars

\* Every thread is scheduled.
FairSpec == Spec /\ \A t \in Threads : WF_vars(AllocStep(t) \/ AddStep(t))

-----------------------------------------------------------------------------
(* Properties *)

\* The block of a node marked by Alloc and not yet read belongs to that call.
Taking(t, b) ==
    \/ pc[t] = "read" /\ b = nodes[curr[t]].ctr
    \/ pc[t] = "free" /\ b = ctr[t]

Has(t, b) == b \in hand[t] \/ Taking(t, b)

Listed(b) == \E n \in 1 .. Len(nodes) : nodes[n].active = 1 /\ nodes[n].ctr = b

\* A control block is never handed out twice: one thread has it, or one node
\* offers it, whatever Alloc and Add_FreeListNode of several threads do to
\* the same node in between.
BlockInOnePlace ==
    \A b \in Blocks :
        /\ \A t \in Threads : Has(t, b) =>
            ~Listed(b) /\ \A u \in Threads : Has(u, b) => u = t
        /\ \A m, n \in 1 .. Len(nodes) :
            /\ nodes[m].active = 1 /\ nodes[m].ctr = b
            /\ nodes[n].active = 1 /\ nodes[n].ctr = b
            => m = n

Pool == INSTANCE BlockPool WITH
    free <- {b \in Blocks : Listed(b)},
    out  <- {b \in Blocks : \E t \in Threads : Has(t, b)}

\* The list keeps the promise of a pool: what Alloc returns was offered at
\* the compare-and-swap, what Add_FreeListNode is given is offered or lost.
KeepsPromise == Pool!BPSpec

\* Nobody waits for anybody: each call returns, unless a control block
\* beyond the bound of the model would have to be created.
CallReturns ==
    \A t \in Threads : pc[t] # "idle" ~> (pc[t] = "idle" \/ (pc[t] = "new" /\ made = Blocks))
=============================================================================
