# A TLA+ development of the MMORPG prototype

The repository holds a game server for Windows (`src/Server/Server`, one
process, I/O completion port, lock-free containers), a graphical game client
(`src/Client/client_sample`) and a load tester (`src/Dummy_client/2019-Dummy`).
They speak the binary protocol of `src/protocol.h` over TCP. There is no other
documentation and there are no tests; everything below comes from the code.

Contents: 1 the system, 2 plan, 3 modules and code, 4 runs, 5 bounds,
6 fairness, 7 proofs, 8 what is only model-checked, 9 what is not modelled.

## 1. The system

### Threads

| threads | number | loop |
|---|---|---|
| server workers | 3 (`stdafx.h:54`) | `Server::Process` (`Server.cpp:144-183`): take one completion of the port, run its handler |
| timer | 2 | `Timer_Manager::Process`: pop a due event, post it to the port as a completion |
| client | 1 | a frame: receive, `process_data`, draw, send |
| load tester | a worker and a test thread | `Worker_Thread` takes completions, `Test_Thread` connects, moves and disconnects its clients |

All shared state of the server is reached from every worker and timer thread.
Some of it is in a `tbb::concurrent_queue`, some under a mutex, some in
lock-free shared pointers, and the rest is plain.

### Components

**Sessions** (`Server.cpp`, `Login_Manager.cpp`, `Object_Manager.cpp`).
State: the queue of free player ids; `objects[]` (raw pointers to players and
monsters) and `players[]` (shared pointers that own the players), both indexed
by id; `acceptsocket`, the socket of the one pending `AcceptEx`; the state of
each socket and of the one overlapped receive each player owns.
Operations: accept (pop an id, build the `Player`, store it in both tables,
bind the socket to the port, enter the sector, notify), receive (look the
player up by the id the port delivers; no bytes: close, empty the tables, leave
the sector, push the id back), and the `Logout` after a failed send.
Hard: the handlers of one player may run on several threads (the accept handler
still works when the first receive completes); a completion names an id and not
a player; a failed send does half of a logout, by id, from any thread.
Correct when: an id has one holder and is never lost without a cause, a handler
works on the player whose receive completed and alone, a login finds its slot
empty, the tables agree, and a client that hangs up gives its id back.

**Reassembly, server** (`Server::Do_Assemble_packet`, `Player::WSAReceive`).
State: `IObuf` with `packet_start`, `recv_start`, and the length of the posted
receive. Operation: hand on every complete packet in place, move the rest to
the front when less than MIN_BUFFER bytes of room are left, post the next
receive behind it. Hard: TCP cuts the stream anywhere; a receive of length zero
would look like the end of the connection; `memcpy` must not overlap; a length
byte must not be read before it is there. Correct when it implements "packets
whole, once and in order".

**Reassembly, client and load tester** (`process_data`, `Worker_Thread`).
State: the static `in_packet_size`, `saved_packet_size` and `packet_buffer`
that survive from receive to receive. The same promise, by another algorithm.

**Sending and fan-out** (`Send_Manager.cpp`). State: none of its own. Every
notification builds a vector of near objects and calls `Send_Packet` for each:
compare the pointer with `objects[id]`, send, log the player out if it failed.
Hard: check, send and logout are separate steps; objects are looked up again
after the vector was collected; near sets are walked without their lock.

**Sectors** (`Sector_Manager.cpp`). State: a set of ids under a lock for each
of 25 x 40 sectors (and for monsters another one). Operations: insert, erase,
update (insert into the new, then erase from the old), and the choice of the
sectors that a scan around a position must visit. Hard: the choice is made from
positions cut to integers and from edges narrower than the distance of
`is_near`. Correct when a player is in the sector it stands in, and nobody else
is; when a scan visits the sector of everything that is close.

**Players and near sets** (`Player.cpp`, `Near_set.cpp`, `Object.cpp`).
State: position, hit points, cool times, and `near_set`, the ids of the objects
in sight, under a lock. Operations: `Move` (position, terrain test or reset,
sector), `Get_Objects__Update_Near_set` (compare the old and new near set, add
oneself to the others' sets), `Sight_in` at login, attacks. Hard: two players
update each other's sets at the same time, one of them may log out in between,
and what was found is looked up again and used without a test. Correct when no
null pointer is used for an id that merely stayed in a near set, and when a
client never goes on showing a player of whom no near set knows. (That two
players at rest see each other is not something this code achieves: see 4.)

**Shared pointers** (`Lock-Free_Smart_Pointer.h`). State: control blocks with
a use count and a weak count, and `RecycleLinkedList`, the list that hands out
used control blocks again. Operations: copy, assign, reset, `make_shared`,
allocate from and return to the list, all by compare-and-swap. Hard: a slot is
read while another thread empties it and the block is recycled. Correct when an
object is deleted once and never while a counted copy exists, and a block is
never used for two objects at a time.

**Monsters** (`Monster_*.cpp`) and **timer** (`Timer_Manager.cpp`). State:
active flag, target, hit points, one overlapped structure per monster; a shared
queue of events and a priority queue per timer thread. Operations: awake, sleep,
move, hurt, push, pop, post to the port. Hard: a monster must have exactly one
chain of events while a player is near; hurt, die and report of the kill are
separate steps. Correct when events fire once and not early, when a monster that
is awake has a chain, and only one; when no blow is lost and a kill is told of
the dead only, and when a client shows the hit points the server has.

**Terrain**: the bounds of the map, and a table of heights that is read once and
decides nothing (the test is commented out). **Client**: a map of visible objects changed by
the packets. **Load tester**: a table of clients. **Background**,
**Thread_vector**: not used by the program.

### Interactions

The kernel calls the handlers through the port (id and overlapped structure);
monsters and the timer post to the same port. Handlers call `Object_Manager`,
`Sector_Manager` and `Send_Manager`; `Send_Packet` calls back into
`Object_Manager::Logout`. Client and server share only the byte stream.
`PROJECT.json` lists the hazards of this code, each at its line.

## 2. Plan

Order of work, the behaviour everything else depends on first.

| # | module | about | state |
|---|---|---|---|
| 1 | `Session` | ids, tables, sockets, receives, sectors of players | done |
| 2 | `PacketStream`, `Assembler`, `ClientAssembler` | reassembly, both sides refine one abstract stream | done |
| 3 | `BlockPool`, `RecycleList`; `Ownership`, `SharedPtr` | the list of control blocks refines a pool; the counts, on top of that pool, refine slots and copies that own players | done |
| 4 | `TimedEvents`, `Timer` | the queues of the timer threads refine a set of timed events | done |
| 5 | `Monster` | chains of events, sleep and awake, targets | done |
| 6 | `Combat` | hit points, death, its report, and what a client shows | done |
| 7 | `NearSet` | the view of players under concurrent moves, logins and logouts, with the null pointers that a logout leaves, and the clients' tables | done for players |
| 8 | `NearSector` | the choice of sectors against distances, for every size of the map | done |
| 9 | blows of monsters to players; the load tester's table of clients | the rest of who is told what | open |

Every safety property of the runs is a theorem (7). Not proved yet: that
`ScanSpec` of `NearSector` is what `Scans` of `NearSet` assumes, so that the two
could be composed, and theorems about what row 9 adds.

## 3. Modules and code

**`Session`.** A connection `c` is an accepted socket together with the
`Player` built on it: the server builds one for each socket and a socket is never used
for two. The variables are named after the code (`pool` is
`Login_Manager::queue`, `players` and `objects` the two tables, `sectors` the
sets, `acceptsocket`). `recv[c]` is the state of the one overlapped receive of
a player: posted before the socket is bound, posted, completed with data,
completed with none, in a handler, dead (no completion will ever be handled),
or returned with its id. The registers `pc`, `conn`, `key`, `me`, `at`,
`tgt`, `back` are the locals of each worker thread; `kicked` and `early` are
history and influence nothing. One action is the code between two accesses to
shared data:

| actions | code |
|---|---|
| `Connect`, `HangUp`, `Complete`, `CompleteUnbound` | network and kernel (external) |
| `AcceptTake`, `PopId`, `LoginPlayer`, `LoginFetch`, `LoginObject`, `Bind`, `Locate`, `Enter`, `AcceptDone` | `Process_Accept`, `Pop`, `Object_Manager::Login`, the constructor of `Player`, `Sector_Manager::insert` |
| `ReceiveTake`, `Close`, `Unlist`, `Unslot`, `Leave`, `PushId` | `Process_Receive` with no bytes, `Do_Disconnect`, `Logout`, `erase`, `Push` |
| `Move`, `ResetMove`, `MoveIn`, `MoveOut`, `Repost` | `Player::Move` and `Update_Sector`, the end of `Do_Assemble_packet` |
| `PickTarget`, `CheckTarget`, `SendPacket`, `DropObject`, `DropPlayer` | `Send_Packet` and the `Logout` in it; a pick from an idle thread is a notification of a monster's handler |

A null player in `Process_Accept` is dereferenced: the thread goes to
`crashed` and nothing happens afterwards (`Running`).

**`PacketStream`** is the abstract promise: pieces of the stream arrive, the
next packet is handed on when its last byte is there. A byte is represented by
its place in the stream, so a packet says where each of its bytes comes from.
**`Assembler`** is `Do_Assemble_packet`; **`ClientAssembler`** is
`process_data`. Both instantiate `PacketStream` with `done` mapped to the bytes
that have arrived and are not waiting in a buffer. `StreamShapes` enumerates
streams for TLC.

**`RecycleList`** is `RecycleLinkedList` at the grain of its reads and
compare-and-swaps: `nodes` is the list behind `head` (nodes are only appended,
so a pointer is a number), `pc`, `curr` and `ctr` are the locals of each
thread. `Alloc`, `Scan`, `Grab`, `Read`, `Free`, `New` are `Alloc()` and the
`new` of `make_shared` when it returns null; `Add`, `Walk`, `Claim`, `Put`,
`Publish`, `AppendNode` are `Add_FreeListNode`. A thread gives back any block
it has. It implements **`BlockPool`**: blocks are created, offered, taken,
given back, or lost.

**`SharedPtr`** is `shared_ptr` with the operations the server performs on
`Object_Manager::players`. `ref` names every counted reference: the slots, the
copies, and the ones a thread holds inside an operation (`new` is the result of
`make_shared`, `got` a count just taken, `drop` one about to be released). Each
read of a shared `ctr` and each compare-and-swap on one is a step; a loop on a
count that repeats until its swap succeeds is one step, the swap. The recycle
list is the pool of blocks that `RecycleList` was shown to be.

| actions | code |
|---|---|
| `Login`, `Alloc`, `InitPtr`, `InitCount` | `make_shared`, `control_block::init` |
| `StoreRead`, `StoreShare`, `StoreSwap`, `Settle` | `operator=(const shared_ptr&)`, destruction of the temporary |
| `GetPlayer`, `CopyRead`, `CopyAdd`, `CopyCheck`, `CopyCopy`, `Destroy` | `Get_Player`, `add_shared_copy`, `add_use_count`, copies in vectors |
| `Logout`, `ClearRead`, `ClearSwap` | `operator=(nullptr)` |
| `ReleaseCount`, `DeletePlayer`, `Recycle` | `release`, `destroy`, `Add_FreeListNode` |

The module lets any thread do any of these at any time, more than `Session`
allows: a login may find its slot in use. That is what the class is written
for, and it makes the properties stronger. It implements **`Ownership`**, where
a store, a logout and a copy take effect in one step each. There a player is built
for one slot and stored in that one, and a copy is first asked of a slot (`Ask`,
the call of `Get_Player`) and then gets what that slot owns at one moment, be it
nothing (`Keep`); a copy of a copy (`Share`) is an action of its own. The mapping
takes the slot from the registers of the thread: `slot[t]` as long as `copy[t]`
names the copy (`Asked`).

**`TimedEvents`** is the abstract promise of the timer: an event fires once, not
before its time, and in the end. **`Timer`** is `Timer_Manager::Pop` with its
two kinds of queue: `shared` is the concurrent priority queue, `local` the
`local_priority_queue` of each thread, `hand` the event a thread has popped. A
priority queue is a set from which one of the earliest is taken. `PopLocal`,
`LocalNotDue`, `TryPop`, `TryPopFails`, `Wakes`, `Keep`, `Return` are the
branches of `Pop`, `Post` is what `Process` does with the event returned. An
event is due when its time is strictly before the clock, as in the code.

**`Monster`** is one monster of any of the three types and everything that
touches it. Each handler of the chain is the sequence of its reads and writes
of unlocked fields:

| actions | code |
|---|---|
| `Fire` | `Timer_Manager::Process`: the one overlapped of the monster is written and posted |
| `TakeMove`, `TakeAwake`, `Enter` | the worker takes a completion; `Process_Monster_Move_Start` |
| `BeginReturning`, `BeginWanderer`, `BeginHunter`, `LookUp`, `Forget`, `Follow`, `FollowNot`, `CanMove`, `Step`, `Far` | `Move_or_Attack` and what it calls, in three types |
| `Look`, `Doze`, `GoHome`, `Rouse` | `Get_Near_Player`, `Is_Sleep__Update_Move`, `Sleep` |
| `Push`, `Rest` | the end of a handler: the next event, or the end of the chain |
| `ComeNear`, `WakeUp`, `PostAwake` | a player's scan: `Awake`, `PQCS_Monster_Awake` |
| `Attack`, `Hurt`, `Blow` | a player's attack |

Positions are reduced to "stands on its target"; whether the way is free,
whether it is far from home (`Is_far` compares the x distance with the constant
for y in one place), where players are and whether the cool time is over is
left open. `timer`, `moves` and `awakes` count the events and completions of
the monster, `exover` is the type written into its only overlapped structure. The
respawn event has no place that pushes it and is left out: a monster dies once.

**`Combat`** is a monster that is struck, and the view one other player, the
watcher, has of it: the near set of the watcher and the table of its client.

| actions | code |
|---|---|
| `Attack`, `Load`, `Swap`, `Dying` | `Process__Packet_Normal_Attack`, `_Spell`; `Object::Hurt` with the read and the compare-and-swap apart |
| `MakeResult`, `MakeAttack`, `Tell` | the two packets made from the flag `die`, and sent |
| `Classify`, `Update` | `Get_Objects__Update_Near_set` of the watcher, as far as it is about the monster |
| `MonsterMoves`, `TryInsert` | the monster's own handler: `Is_Sleep__Update_Move` |
| `MakeSight`, `SendSight`, `SightOut` | SIGHT_IN, made in the server with the hit points, and sent later, by either handler; SIGHT_OUT |
| `BulletLands` | the watcher's client: a spell hurts what it shows when the bullet lands |

`dealt`, `killers`, `unclean`, `raced` are history.

**`NearSet`** puts players on a line of spots, with sectors, `is_near` as a
distance and the sectors to scan as a constant of each spot. `objects` and
`players` are the two tables: the raw pointers go first in a logout and are what
`Get_Object` and `Send_Packet` read; the shared pointers are what `Get_Player`
reads.

| actions | code |
|---|---|
| `Login`, `LoginScan`, `LoginIntroduce`, `LoginInsert`, `LoginDone`, `Greet` | `Process_Accept`: `Update_Near_set_Sight_in`, `Send_World_in_Player` |
| `Move`, `Refuse`, `EnterSector`, `LeaveSector` | `Player::Move`, `Update_Sector` |
| `MoveScan`, `Classify`, `Introduce`, `Update` | `Get_Objects__Update_Near_set`, its four parts |
| `Tell`, `TellSelf`, `Told` | `Notify_Player_Move` and `Notify_Player_Move_Target`, the two packets of one element apart |
| `Unlist`, `Unslot`, `Quit` | the end of the stream: `Logout`, `erase` |

The scan of one sector under its lock is one step. A null pointer that is used
ends the server (`crashed`). A client that hangs up while it is still being
logged in is left to `Session`. `overtaken` and `hasty` are history.

**`NearSector`** is the arithmetic of `Get_Sector` and `Get_near_sector`, in
fixed-point numbers with `Unit` to the whole, and one player that moves by it.
The nested conditions of the code, which test left before right and top before
bottom, become a product of columns and rows (`Cells`).

The definitions headed "Bug variant" are not part of any
specification: each is an action with a plausible slip in it, kept to show that
the properties notice it.

## 4. Runs

| run | question | result |
|---|---|---|
| `session_ids` | ids, slots and receives have one owner; the tables disagree only about kicked players; a healthy player is kicked only after its id was reused | holds, about 900 000 states |
| `session_sectors` | players are in the sector they stand in, apart from the exceptions below | holds, about 177 000 states |
| `session_live` | a client that hung up gives its id back | holds under fairness |
| `assembler` | no receive without room, no overlapping `memcpy`, no unread length; refines `PacketStream` with its fairness | holds, for every stream of 12 bytes |
| `client_assembler` | the two static counts agree; refines `PacketStream` with its fairness | holds, for every stream of 10 bytes |
| `recycle_list` | a block is in one place; refines `BlockPool`; every call returns | holds, about 102 000 states; liveness under fairness |
| `shared_ptr` | counts are exact, referenced players alive, unreferenced ones deleted; a copy gets what its own slot owns, and a player goes to the slot it was built for (refines `Ownership`); uses the pool as `BlockPool` asks | holds, about 39 000 states |
| `timer` | an event is in one place; refines `TimedEvents` with its fairness | holds, about 226 000 states |
| `monster` | a monster awake has a chain; a second one needs a player that woke it on its way home; the chain of a monster that stays awake never stalls | holds, about 355 000 states |
| `combat` | blows add up; a kill is told right; a client that was told everything shows the hit points the server has; it shows the monster if and only if its player's near set has it | holds, about 1 706 000 states |
| `near_set` | a null pointer is used only if its player logged out while it was held; no client shows a player nobody keeps track of | holds, about 1 740 000 states |
| `near_sector` | a scan visits the sector of everything close | holds, about 6 700 states |

What the runs taught about the code:

* `Send_Packet` compares pointers before the send and logs out by id after its
  failure. Between the two the id can go to another client, so a healthy player can be
  kicked. `HealthyKickNeedsReuse` says that this is the only way.
* A kicked player stays in its sector and keeps its id until the receive of its
  connection ends; that completion then finds no player and the id is lost.
  `IdNotForgotten` accounts for each lost id by a dead receive.
* The accept handler goes on with a player after its socket is bound; if the
  player moves or leaves before it is put into its sector, an id remains in a
  wrong sector. `SectorsFollowPlayers` names both exceptions, `kicked` and
  `early`, and shows that there are no others.
* A receive the constructor posts that completes before the binding is lost.
* `MoveIsDisjoint` holds because a packet has at most 255 bytes and the rest is
  moved only when more than MAX_BUFFER - MIN_BUFFER bytes are used:
  `2 * MaxPacket <= MaxBuffer - MinBuffer + 2`.

* A block that needs a new node in the recycle list is stored with
  `active = 0`. It is never offered, and it is overwritten by the next block
  put there: `BlockPool` has a `Lose` step for it. The first block of every
  node is lost; nothing else goes wrong with it.
* `add_shared_copy` may count a block that was recycled for another player
  between its two reads of the slot. The second read makes it give the count
  back, so the copy still gets what the slot it was asked of owns, and never the
  player that another slot has by now with the same block (`KeepsOwnership`). But
  that count may be the last one: a failed copy may delete a player.

* A monster that sleeps may still have its last event in the timer: `Sleep`
  marks it asleep and sends it home, and its chain goes on until it arrives. A
  player that comes near meanwhile wakes it and posts a completion: two
  chains, which share the monster's one overlapped structure and move it at
  twice the pace. `SecondChainNeedsWalker` says that this is the only way to a
  second chain, and to the `Get_Player(-1)` that a changed target leads to.
* A monster whose step is refused ends its chain with `init_moving` set, asleep:
  it cannot be hurt until a player wakes it. A hunter that stands at home does
  not fall asleep.
* KILL can be told by an attacker whose blow was not the last, from the flag
  alone, and the one that dealt the last blow always tells it (`KillTold`).
* A SIGHT_IN packet whose hit points were read before a blow, and sent after it,
  leaves a client with wrong hit points; so does a bullet of a spell that
  lands after it. `ShownHp` names that race (`unclean`) as the only cause.
* Two handlers put a monster into a near set, the player's and the monster's,
  and each sends the packet after the lock is released. If SIGHT_OUT of the one
  and SIGHT_IN of the other cross, the monster is near and not shown, or shown and
  no longer near, until the player's own handler sends the next of the two.
  `SightKept` names that crossing (`raced`) as the only cause.
* Near sets are not symmetric: SIGHT_OUT erases only from the set of the one
  that moves. If the other comes back, it is "near" for the one that has the
  stale entry, and nobody is shown, until the other one moves.
* Two players that log in at the same time miss each other until one moves. A
  scan can miss a player that changes sectors, or meet it twice.
* A logout tells nobody. A client keeps showing the player until it moves and
  finds the id in its near set without a player; a client whose near set lost
  the entry before shows it for ever. `EntryTracked` covers the time in which
  both are logged in, and the server is up: a handler that uses a null pointer
  never sends the SIGHT_OUT packets it still had in its vector. To see that takes a
  third player, so this instance holds without `Up` in `EntryTracked`; it was the
  proof that asked for it.
* Two lookups by id are used without a test. `NullNeedsLogout` shows that ids
  that only stayed in a near set are never among them, so each crash needs a
  logout within one handler of another player. The states with a crash are
  reachable in this instance.
* A client that moves between LOGIN_SUCCESS and the last packet of its welcome
  can be shown players that are out of sight again (`hasty`).
* The sectors to scan do not cover the distance of `is_near`: objects see to
  13 x 7.75 units, the neighbour is scanned within 10 x 6.25 (`WORLD_SECTOR_*_EDGE`),
  and cutting to integers takes up to one unit more on the right and below. A
  player 12 units across a border is near and not found. `FindsClose` states
  what is covered: a view to the left and up, a view less one unit to the right and
  down.

The code carries no claims in words that these runs contradict, so there are no
runs that expect a violation. Deadlock is checked for `near_sector`. It is not
for the others: connections, sessions, events, hit points and the streams are
finite, so the models really stop, and a crashed process stops.

## 5. Bounds

* `Conns`: 3 with 2 ids, or 2 with 1 id. Sockets are never reused, so this
  bounds the sessions of a behaviour. Three sessions over two ids have two
  players at once, an id that is reused and one that is not, and a login that
  finds the pool empty. Two sessions over one id have the reuse that the
  sectors and liveness depend on.
* `Threads`: 2 of the server's 3. Every hazard listed for the session is
  between two handlers, the third thread adds no new pair; the theorems hold for any
  number.
* `Sectors`: 1 where they do not matter, 2 where they do: old and new.
* `RecycleList`: 3 threads and 3 blocks, so one thread may come between another one's
  mark and its write while a third walks or appends. Three nodes arise.
* `SharedPtr`: 2 threads, 2 slots, 2 copies each, 2 blocks, 3 players: one
  block is recycled at least once, and a stale block belongs to the other
  slot's player. (3 threads with one copy each hold too.)
* `Timer`: 2 threads as in the server, 3 events, delays up to 2 and a clock up
  to 4: two events in one private queue, one due and one not, and a third that
  another thread holds. An event whose time lies beyond the clock is not pushed.
* `Monster`: 2 threads, 2 attackers, at most 2 chains (`MaxChains`): with two
  chains there are already two handlers at work on the monster, and every
  property speaks of the first two.
* `Combat`: 2 attackers, 4 hit points, fist 1 and spell 2: the blow that kills
  may leave exactly nothing or too much, the other attacker comes between the
  last blow and its flag, and both handlers that show the monster come between the
  blows. The theorems hold for any number of attackers.
* `NearSet`: 2 players, each logging in and out once, on 3 spots in 2 sectors;
  a spot sees its neighbours, a move takes up to 2. One spot sees over a border
  that it does not scan. (Four spots with a view of 2 hold too.)
* `NearSector`: sectors of 10 x 5 in quarters of a unit, 3 x 3 of them, the
  smallest world with an inner sector, at positions a player can move to.
* Symmetry of threads, connections, attackers and players is used for
  invariants only.
* Streams: 12 bytes of packets of 2 to 4 for a buffer of 9 with 3 to spare, so
  that the buffer runs out several times at every offset, and 10 bytes for a
  client buffer of 5. The sizes keep the inequality of `BufferAssumption`
  tight (2 * 4 <= 9 - 3 + 2), which is when its properties are closest to failing.

## 6. Fairness

Needed by `session_live`, `CallReturns`, `AwakeIsServed`, and by the refinements
of `PacketStream` and `TimedEvents`.

* `Complete`: the kernel completes a posted receive whose connection ended.
* `ReceiveTake`: the port is a FIFO queue and the workers return to it, so each queued
  completion is taken in the end. Between two visits of the workers to the port
  taking it is not possible, hence strong fairness.
* The steps inside a handler: the operating system schedules each thread.
* `Repost` and `AcceptDone`: a handler processes finitely many packets and notifies
  finitely many objects. In the model it may choose to send or move again and
  again; strong fairness for its end stands for the finite vectors and buffers.
* `Timer`: the clock goes on, and each timer thread is scheduled.
* `Monster`: the timer fires what it holds, as `Timer` shows; each handler runs
  on; a queued completion is taken in the end, with strong fairness as above.
  Players do as they like: `AwakeIsServed` needs nothing of them.
* Nothing is assumed of clients: they may never connect, send or hang up.
* The assemblers: a handler, once begun, runs to its end.
* `RecycleList`: every thread in a call is scheduled. Its list is finite
  because the blocks are; nothing is assumed of compare-and-swaps.

## 7. Proofs

`tlapm` checks them for all values of the constants. Assumed are only the named
assumptions of the modules, which TLC also evaluates: the null values are no
connections or ids, the constructor pushes no id twice (`Session`); the peer
sends packets that begin with their length, none longer than `MaxPacket`, and
the buffers have room for them (`Assembler`, `ClientAssembler`); the worker threads are
finitely many (`Monster`), and so are threads, slots and copies, with names
apart (`SharedPtr`), and the players, ids below MAX_PLAYER (`NearSet`); damage is a
positive number (`Combat`); a view is at least one unit and the map is a whole
number of sectors (`NearSector`: 1000 is 25 times 40 and 40 times 25). Eight
modules hold the proofs; two of them are about two modules that do not meet.

**`SessionProofs`.** `IdHeldOnce` alone is not inductive: to know that
`PushId` does not push an id twice one needs that the handler is alone with
its connection, that this connection still holds the id, and that no slot or
other handler does. `IInv` adds: what the registers mean at each place of a
handler (`RegsInv`), that senders have targets with ids (`SendInv`), that two
threads never share an accept or a receive (`PairInv`), that nothing is posted
on a socket that waits for its client (`SockInv`), and that the tables name
holders (`SlotInv`). There is one lemma for each action. From `Inductive` follow
`TypeCorrect`, `IdsHeldOnce`, `IdsNotForgotten`, `HandlersServeTheirPlayers`
and the action property `SlotsNeverReplaced`. Four more invariants stand on it,
each with a lemma about the steps that leave it alone (`TableFrame`, `KickFrame`,
`PlacedFrame`) and one step for each action that does not:

* `ArrivalInv`, for `AcceptedSocketsApart`: an accept handler has its socket
  to itself until its player is in the sector. With it `BoundItself` shows
  that the handler finds its own player in its slot, or none.
* `TableInv`, for `TablesKeepAgreeing`: between the statements of `Login`
  and of `Logout` a handler will not make the tables disagree, unless its player
  was kicked meanwhile.
* `KickInv`, for `HealthyKicksNeedReuse`: a sender that logs somebody out has seen
  the end of its target's connection, and an id comes back only when the socket
  of its holder is closed. So a victim that is not the target has the id after it.
* `SectorInv`, for `SectorsKeepFollowing`: an id nobody holds is in no sector, and
  a player at rest is in its own. `Clean` is the exception that the property
  names, ids of players kicked or moved early; it never ends (`CleanBefore`).

The last section is about `NearSector`. The sector of a position is an interval
of fractions. `AxisFinds` shows for one axis that what is close lies in the same
interval or in the next one on the side whose edge the position is in;
`CellsFind` adds that there is such a sector at the border of the world; columns
and rows combine in `ScansFindClose`.

**`AssemblerProofs`.** `IInv` says which place of the stream each byte of
`IObuf` between `packet_start` and the end of the data holds (`Content`) and
where the pointers are at each place of the handler (`Places`). That a packet
starts where `packet_start` points needs the framing of the stream as a set of
starts (`FramedBy`), which avoids recursion. `RestIsShort` is the heart of
`MoveIsDisjoint`. `HandsPacketsInOrder` proves the refinement of `PacketStream`
step by step.

**`ClientProofs`** has the same for `ClientAssembler`, with `StaticsAgree`, and
then the view of the players. `ViewInv` of `NearSet` says of each handler
(`HandlerInv`) that the tables are where its stage has them (`Listed`), that nobody is
both in and out of sight in its vectors (`Shaped`), that nobody knows an id
before its login (`Acquainted`), that who will be looked up is in `objects`, or a
logout has overtaken the handler (`Safe`), that who does not exist has left and who
came into sight is in the near set when the packets go out (`Updating`), and
that a welcome speaks of the near set (`Greeting`). `PairInv` says of
two players that what one shows is covered by one of them: by its near set or
by an element it still has to tell (`Covered`). `Hiding` is for the moment
between the two packets of a SIGHT_OUT: the mover no longer answers for the
other's client by that element. A step of one handler is `Beside` the others,
which carries their part (`OthersKeep`), and `Answers` for what it leaves and
shows (`StepKeeps`); one lemma for each action shows those two. `NullsNeedLogout`
and `EntriesStayTracked` follow.

**`SharedPtrProofs`.** `CountsReferences` counts a set of holders, so the steps
that move references are counted once, in `ShiftRefs` and the lemmas around it. `IInv`
adds what the registers mean at each place of an operation (`RegsInv`); that a block
is in use, prepared or destroyed by one thread, on the list, or lost (`BlockInv`);
that the player of a block in use lives and is no other block's (`PlayerInv`); that
a living player is owned or just built (`OwnedInv`); and that the weak count of
a block in use is one (`WeakInv`), by which `destroy` always gets to the end
(`DestroyEnds`). From it follow `CountsExact`, `ReferencesStayAlive` and
`PlayersNotForgotten`. Two refinements are proved: `BlocksRecycledOnce`, that blocks
are taken and given back as `BlockPool` demands, and `OwnershipKept`, that
slots and copies own players as in `Ownership`. There `Login`, `StoreSwap`,
`ClearSwap`, `GetPlayer`, `CopyCheck`, a `CopyRead` of an empty slot, `CopyCopy`,
`Destroy` and the deletion are steps, and all others stutter: `SameCalls` says
of a step that it begins and ends no call, and `ResumeSame` that the end of a
release does neither. `RegsInv` knows for this that a thread names a copy
exactly while it makes one.

**`RecycleListProofs`.** A block is in one place because a marked node
(`active = 2`) belongs to the thread that marked it: only that thread writes
it, so what it reads from it is what it offered. `IInv` adds to
`BlockInOnePlace` what `curr` and `ctr` say at each place of a call (`Place`),
that a node is marked by one thread (`Places`), and that what was not created
is nowhere (`Known`). `OtherPlaces` carries this over a step of one thread to
all others; the lemmas below it take the actions one by one.
`ListIsPool` proves the refinement of `BlockPool`: the compare-and-swap of
`Alloc` takes a block, `curr->active = 1` gives one back, an appended node
loses one, and no other step moves a block (`Stays`).

**`TimerProofs`.** `OnePlace` says where each event is and so that none is posted
twice; `IInv` adds that what a thread is about to post is due. Each step maps to
a step of `TimedEvents` or to a stutter: only `Post` fires. `TimerImplements` is
the safety part of `KeepsTime`.

**`MonsterProofs`.** That `Chains` is a cardinality makes it awkward to count
with; `OneChain` says the same without counting: nothing is queued, or one thing is and
no thread works for the chain. `IInv` adds to `AwakeHasChain` that as long as
nobody woke the monster while a chain ran, there is one chain at most and the
target that its handler has read is still there. Every action has one of a few shapes
(`GoesOn`, `Aside`, or a move of the chain between queue and handler), and the
lemmas about the shapes carry the invariant.

**`CombatProofs`.** `Knows` says what a thread knows at each stage: one that is about
to mark the death took the last hit point, and a report that says KILL was
made after the mark. `BystandingLeaves` sets the two handlers that show the
monster aside. `LessAdds` is the arithmetic of `BlowsAddUp`: cutting at zero
after each blow is cutting once at the end.
`SightInv` adds to `SightKept` that only the watcher's handler erases the monster,
so that without a crossing the monster is near if and only if it is shown or
a packet about it is being made. `ShownInv` says what the client is short of:
`Owed` is the cardinality of the strokes of all packets on their way, one for each
point of damage, and the bullets in flight. A cardinality grows and shrinks by
one blow (`OneBlow`), so that a sum over the attackers needs no induction.

## 8. Only model-checked

Liveness: `HungUpReturnsId`, `CallReturns`, `AwakeIsServed`, and the fairness in
`HandsEveryPacket` and `KeepsTime`, whose safety parts are theorems. Liveness
under fairness is out of the prover's reach, and so is what needs ENABLED.

## 9. Not modelled

Abstracted in `Session`: the content of packets, who is notified, positions
within a sector, the reference counts of `players` (a player is never freed in
the model; the proofs speak of tables and ids, not of memory: memory is the
subject of `SharedPtr`). Raw pointers that are not counted (`objects[]`, the
pointer of `Process_Accept`) are outside `SharedPtr`. `Destroy` may never
happen, and for the copies of players in sight it never does in the code:
they leak. `weak_ptr` and `enable_shared_from_this` are used nowhere in the
program.

Monsters: the filling of the world at start, the handler of a move that overlaps
the next one of the same monster (its event comes half a second later or more), and the blows they deal to players (the
same `Object::Hurt` that `Combat` has). Walks over a near set without its lock
while another thread inserts are undefined behaviour inside `std::set`: nothing
can be promised about them, and `NearSet` has the walks that hold the lock.
The load tester's table of clients.

Left out for good: drawing and sound of the client, reading the map file (the
test of heights is commented out), the unused `Background` and `Thread_vector`, and
the vendored TBB and SFML, which are most of the files; `tbb::concurrent_queue` is
taken to be an atomic queue and `tbb::concurrent_priority_queue` a set that gives
one of its earliest events.
