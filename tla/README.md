# libogscore in TLA+

A verification development kept beside libogscore (`src/src/core` and `src/src/crypt`), the
utility library under the Open5GS network functions: queues and threads, timers,
an event loop, packet buffers, object pools, containers, state machines, TLV
messages, sockets, logging and the cryptographic functions. Each TLA+ module is translated from the C source; TLC
checks it on small instances, and TLAPS proves the properties that matter most for every
value of the constants. `PROJECT.json` says which source lines each definition stands
for, which run checks which property, and which deliberate fault of the code each
property detects (the definitions marked "seeded fault").

## 1. Inventory

| Component | State | Operations | Hard behaviour | What makes it correct |
|---|---|---|---|---|
| queue (`ogs-queue.c`) | ring `data/in/out/nelts`, waiter counts, two condition variables, `terminated` | push, pop (blocking, timed, try), interrupt_all, term | any number of threads; timeouts; spurious wake-ups; a flag read without the mutex | bounded FIFO; no lost wake-up; term frees everybody |
| pool (`ogs-pool.h`) | `free[]` ring of pointers, `index[]`, `head/tail/avail` | init, alloc, free, find, index, final | wrap-around, exhaustion, reuse order | free ring = complement of the allocated set; index and find agree |
| timer (`ogs-timer.c`) | rbtree of running timers ordered by timeout, timer pool | add, delete, start, stop, mgr_next, mgr_expire | callbacks that start, stop, delete and add timers while an expired batch is walked | only due timers fire, once per start; none is left behind |
| thread (`ogs-thread.c`) | `running` under a mutex and condition | create, destroy | creator and worker hand-shake, spurious wake-up, 5 s deadline, join before free | the function has run and ended before the record is freed |
| pkbuf (`ogs-pkbuf.c/.h`) | size-class pools, cluster pool, reference counts, data window | alloc, free, copy, reserve/put/push/pull/trim | exhaustion between two steps of alloc; buffers shared by several pkbufs | count = number of sharers; a cluster is freed with its last user; window inside the buffer |
| memory (`ogs-memory.c`) | a pkbuf behind every block | malloc, calloc, realloc, free | in-place growth; a move in two critical sections | every pkbuf has one owner; a block lies inside its buffer |
| poll (`ogs-poll.c`, `ogs-epoll.c`, `ogs-select.c`) | poll pool, backend registration | add, remove, process | handlers that remove and add polls of the batch being walked; `max_fd` upkeep | a ready registered descriptor is served; a removed one is not |
| poll on kqueue (`ogs-kqueue.c`) | list of changes, an index in each poll | add, remove, process | the last change moves into the hole; the kernel is never told of a removal | each poll finds its change; the kernel watches what is registered |
| notify (`ogs-notify.c`) | socket pair (or eventfd) | notify, drain handler | a notification at any moment of the loop | every notification is heard |
| fsm (`ogs-fsm.c`) | current state | create, init, dispatch, fini | handlers that ask for transitions, also while they are left or entered | one active state, entered and not left |
| hash (`ogs-hash.c`) | chains, count, free list, embedded iterator | get, set, iterate, expand | set during iteration; expansion | a finite map |
| rbtree (`ogs-rbtree.c`) | coloured tree with parent pointers | insert, delete, first/next | rebalancing | order kept, red-black shape |
| list (`ogs-list.h`) | doubly linked list | add, remove, loops | additions and removals in loop bodies | a sequence |
| tlv (`ogs-tlv.c`) | trees of elements in a pool, a buffer at the root | add, copy, embed, render, parse, find, free_all | lengths of 8 or 16 bits; embedding at depth; chains that share a buffer | parse inverts render; every element freed once |
| sockaddr (`ogs-sockaddr.c`) | linked address lists | get, add, filter, sort, copy, free | relinking while walking; lists handed from owner to owner | every address on one list |
| sockets, socknode (`ogs-socket.c`, `ogs-tcp.c`, `ogs-udp.c`, `ogs-socknode.c`) | socket records, descriptors, nodes with polls | open, accept, destroy, install_poll, probe | any system call failing for any address; close while registered | every descriptor and registration has one owner |
| log (`ogs-log.c`) | logs, domains by id | add, remove, install, levels, cycle, print | kept ids; files rotated from outside; lines cut to a buffer | an id names its domain while that is there; a log writes to the file of its name |
| process (`ogs-process.c`) | pipes to the children's streams | create, join, destroy, terminate, kill | fork copies the pipes of other children; creation failing half-way | the parent holds its ends only; a join ends |
| 3gpp types, conv, strings, time, getopt, misc | none | conversions, options, paths | half bytes, truncation, wrapping, permutation | decode inverts encode; outputs keep the caller's limit |
| crypt (`src/src/crypt`) | contexts of the hashes | AES, CBC, CTR, CMAC, MILENAGE, SHA, HMAC | tables and unrolled loops; in place; pieces of a message; reinit | the standards' functions |
| core (`ogs-core.c`) | order of init and terminate | initialize, terminate | order | reverse order |
| signal, env, rand (with `contrib/arc4random.c`), errno, abort, abts | OS wrappers, test driver | | | |

The components meet at few points. `ogs_malloc` and every pool user call the pool;
the timer manager and the poll set keep their records in pools; a node owns a list of addresses, a socket and
its polls; a network function runs an
event loop on one thread (`ogs_pollset_poll` with the timeout of `ogs_timer_mgr_next`,
then `ogs_timer_mgr_expire`, then the queue), and other threads push to the queue and
wake the loop with `ogs_pollset_notify`. Queue and thread are the only components with
several threads inside; the default pkbuf pool is shared under one mutex.

Everything in this code that is hard to test is listed, at its line, under "hazards" in
`PROJECT.json`, with the properties that would notice it going wrong; the properties
below were chosen from that list.

## 2. Modules and the code

`BoundedFifo`, `FifoAllocator`, `SortedList` and `FiniteMap` are abstract: what callers are promised. The other
modules are the code. An action is a stretch of code that no other thread can observe
half done: from a lock, or the return of a condition wait, to the next unlock or wait;
or, in a component that one thread owns, from one call or callback to the next.

**OgsQueue** (`ogs-queue.c`). `data`, `nelts`, `in`, `out`, `full_waiters`,
`empty_waiters` and `terminated` are the fields of the structure. `pc[t]` is where thread
`t` is: before the unlocked test of `terminated` (`Check`), at the lock (`PushEnter`,
`PopEnter`), inside the condition wait, woken (`PushWoken`, `PopWoken`), or back from a wait
that found nothing (`AnswerInterrupted`, where `terminated` is read once more outside the
mutex). `terminated` is a data race in C: the model reads it as a separate step, so every
outcome of the race that a machine with atomic words can produce is there. A signal wakes
any one sleeper, `WakeUp` is a timeout or a wake-up without cause, and a woken thread
competes for the mutex with everybody else. `InterruptAll` is the second critical
section of `ogs_queue_term`, and a call of its own.

**OgsPool** (`ogs-pool.h`). The macros, field by field; `held` is what callers have, which
the code does not record. Nodes are their positions in the array.

**OgsTimer** (`ogs-timer.c`). The tree is the sequence of its entries in order, with the
rule that a new entry follows those of its time. `Expire` is the loop that lists expired timers; `Serve`
stops the first of the list and enters its callback; inside a callback every operation may
be called on every timer; `Return` moves on. `batch` is what is left of the list, and
`CutAt` is the effect of `ogs_timer_add`'s `memset` on the list node inside a timer that is
deleted and handed out again during the walk. `touched` is a history variable: a callback
of this walk has used another timer that was still to be served. Two properties hold only
without that, and say so.

**OgsThread** (`ogs-thread.c`). One owner and one worker for each record. The owner holds
the mutex from before `pthread_create` to its wait, so the two are one step (`Create`).
`spurious` is history: the wait without a predicate has returned with no cause.
`waited` counts ticks up to the deadline of `ogs_thread_destroy`.

**OgsPkbuf**, **OgsMemory** (`ogs-pkbuf.c/.h`, `ogs-memory.c`). A pkbuf is a window on a
cluster, a cluster has one buffer and a count. Alloc, free and copy are one critical section each,
so threads need no names: any of them may do the next call. A failed assertion ends the
process (`abort`), also one that finds a pool empty half-way through alloc.
`OgsMemory` extends the module with `block`, `packet` and `moving`, that is, who holds each pkbuf:
a caller of `ogs_malloc`, a caller of `ogs_pkbuf_alloc`, or a `realloc` between its two
critical sections, during which all other threads run.

**OgsPoll** (`ogs-poll.c`, `ogs-epoll.c`, `ogs-select.c`, `ogs-notify.c`). Records are taken
from the pool in order of release. With epoll, `ptr` is the address the kernel keeps for a
descriptor, and `batch` the addresses and events of the last wait, which the walk uses
however the handlers have changed the set. With select, `list`, `max_fd` and the work sets
are kept; `link` is the pointer that `ogs_list_remove` leaves in a removed record, through
which the walk goes on when a handler has removed its own poll. Stale contents of free records are
forgotten outside a walk, where nobody reads them. On select a descriptor may have several polls, as `select_add` does not
look; removing one of them takes the descriptor out of the sets for the others too, until one of the same direction is added (`cut`, history), and a
handler may be called for what a sibling asked (`Sharing`). `meddled` is history too: a handler of this walk has removed another
poll; `late` marks polls that a handler added to a descriptor of the answer select is walking. Sockets become readable, writable and
hung up, hang-ups are reported to a descriptor that did not ask (epoll), and a notification is a
byte in the socket pair (`configure.ac` defines `HAVE_EVENTFD` nowhere).

**OgsRbtree** (`ogs-rbtree.c/.h`). Linking or unlinking a node is a step, and each round of the loop
that repairs the colours is one: `Recolour` and `RotateUp` for `ogs_rbtree_insert_color`, `Rebalance` (cases 1
to 4) for `rb_delete_color`. The code writes every case for both sides; here the side is a parameter. The
descent to the place of a new node is that of `add_timer_node`. A NULL that the code would
follow is a pointer outside the domain of `child` or `parent`, on which TLC stops. `SortedList` is what `OgsTimer`
takes the tree to be: `ImplementsSortedList` justifies the sequence used there.

**OgsHash** (`ogs-hash.c`). `ht` is the structure with its entries, which are numbered in the order of their
allocation and linked by `next` into chains and into the list of recycled ones. A loop is `StartLoop`, `Continue` and
`Break`, on the iterator inside the table (`ogs_hash_first`) or on one of its own (`ogs_hash_do`), and its body may
make any call. `expand_array` and `ogs_hash_clear` loop on the iterator inside the table, so a caller's
loop on it finds it at the end of the old array (`Rewound`).

**OgsList** (`ogs-list.h`). The links, stale ones of removed nodes included, and the two loops with bodies
that add and remove. `due` and `cut` are history: what the loop has still to visit, and whether its body has cut off
its way.

**OgsKqueue** (`ogs-kqueue.c`). `changes` is `change_list`; a poll's `index` points into it; `knotes` is what
the kernel watches for a descriptor and a direction, with the record it was told last. `kqueue_remove` never tells the kernel, so a filter stays until its descriptor is
closed, and nothing obliges the application to close it: `left` has the pairs that lost a poll, and `orphans` the records that their
events may still name, free or used again by then. Of two polls for one pair the kernel knows the last only.

**OgsFsm** (`ogs-fsm.c`). Each call of a handler is a step, and the handler may ask for any state. `seen` is the id
in the event as the handler finds it: the functions overwrite the caller's own event with ENTRY and EXIT. `active` is
history: states entered and not left.

**OgsTlv** (`ogs-tlv.c`). The elements with their links (`next`, `head`, `tail`, `parent`, `embedded`) and the buffer of a
root by its bounds. A byte is a digit to the base `ByteBase`, so that lengths of one byte are cut in small trees.
Rendering, its two ways of storing lengths and the parser are operators on trees and byte sequences.

**OgsProcess** (`ogs-process.c`). A pipe's end is a value, and each process holds a set of them: `fork` is the copy of
the set. `lost` collects what a creation that failed half-way leaves open.

**OgsLog** (`ogs-log.c`). A domain is known by its index in the pool, as its users keep it (`held`); a file by its
name and by how often something outside has moved it away (`disk`, `rotated`). `ogs_log_remove_domain` tells nobody: `orphaned` (history) has the
modules whose domain was removed since they got its id. Who gets a line is here, and what the line looks
like in `OgsText`.

**OgsSockaddr**, **OgsSocket**, **OgsSocknode** (`ogs-sockaddr.c`; `ogs-socket.c`; `ogs-socknode.c`, `ogs-tcp.c`,
`ogs-udp.c`), each on top of the one before. `record` is the blocks of addresses, `sa` the lists that the program
holds; `sock` the socket records and `kernel` the open descriptors; `node` the nodes and `watch` the
registrations of the poll set. Any system call may fail; an assertion that fails after it sets `aborted`, after which nothing
happens. Opening a node's socket tries its addresses in order, and is one step: no other thread uses the node.

**OgsSha** (`ogs-sha1.c`, `ogs-sha2.c` and their `-hmac.c`). Contexts with their block, the bytes in it and the
count of those absorbed; a byte is where it comes from, and what the compression functions compute is left open: a chaining value is the
initial value with the blocks absorbed. Sizes are divided by four in the run.

**OgsAes**, **OgsMilenage** (`ogs-aes.c`, `ogs-aes-cmac.c`; `milenage.c`). The tables are built by the formula that the
comments of the source give for them, the rounds, key schedules and modes as in the code, and compared
with a second definition from the standards.

**OgsConv**, **OgsText**, **OgsGetopt** (`ogs-conv.c`, `ogs-3gpp-types.c`, the subnets of `ogs-sockaddr.c`; `ogs-strings.c`, the lines of
`ogs-log.c`, `ogs-misc.c`, the sleep of `ogs-time.c`; `ogs-getopt.c`). Operators, each with a predicate that relates it to
its inverse or to a reference definition. **OgsCodecs** makes a call of one of them, or of a cipher, the
only step of a behaviour.

**ProofLemmas** has the facts about sequences and sets that the proofs share, and the `...Proofs` modules have the theorems (section 4).
`MCContainers` (pool, tree, hash table, list), `MCLoop` (the queue once more, timers, threads), `MCPoll` (the backends) and `MCLib` (memory, state machine, TLV, processes, log, hashes, functions
without state) put components side by side that do not share state, and a behaviour uses one of them, of those that a run names (`Parts`, `About`). The other
`MC...` modules, and these, give the constants their small values.

## 3. Runs

| Run | What it asks | Answer |
|---|---|---|
| `MCOgsQueue_safety` | is a wake-up lost; are the waiter counts exact; does anybody sleep after term; do calls, in every interleaving, with timeouts, interrupts and spurious wake-ups, look like operations on a bounded FIFO | no; yes; no; yes: refinement of `BoundedFifo` |
| `MCOgsQueue_error` | does pop answer `OGS_ERROR` only to an interrupt, as `ogs-queue.c:193` and `:216` say | **no** (finding) |
| `MCContainers` | do pool, tree, hash table and list do what their callers rely on after any sequence of calls, calls in loop bodies included | yes, with the provisos of `VisitsEachOnce` and `VisitsAll` |
| `MCLoop` | does term end every call of the queue, does an item reach a sleeper; does the poll wake in time, are timers served in order, only when due, and none left behind, with callbacks that do anything; is a thread's record there while the worker needs it, does destroy wait for the function, do create and destroy end | yes, with the proviso on `touched` where it is stated |
| `MCLoop_stopped` | does a timer stay silent that another callback of its batch has stopped or deleted, as `timer-test.c` counts on | **no** (finding) |
| `MCLoop_abort` | does destroy abort only after it has waited | **no** (finding): not after a spurious wake-up in create |
| `MCPoll` | do records and registrations agree on each backend, with several polls on a descriptor where the backend allows it; does an epoll wait see what is ready; are handlers called only for what was asked; is a notification heard | yes, but on select for polls that lost a sibling, and on kqueue for what removed polls leave behind; yes; as long as no handler of the walk removes another poll, and on select with the other direction of a shared descriptor excepted; yes |
| `MCPoll_select` | does a select wait see what is ready | **no** (finding): `max_fd` |
| `MCNet` | does every address and every descriptor have one owner, whatever fails; does sorting keep all addresses and prefer the family | yes, in a process that has not aborted |
| `MCNet_equal` | can two addresses of known families be compared | **no** (finding) |
| `MCLib_hex` | does `ogs_hex_to_ascii` stay inside a buffer of the size it is given, as `conv-test.c` calls it | **no** (finding) |
| `MCLib` | counts, owners and windows of packets; one active state; TLV trees and their way over the wire; ends of pipes and joins; ids and files of the log; HMAC of any message in any pieces; conversions, options and ciphers against reference definitions | as documented by the properties |

Several properties are conjunctions of named parts (`TimerSound`, `MemorySound`, `PollSound`, `EverythingHasOneOwner`,
`CodecsAgree` and others); the parts are stated and commented on their own.

**Findings.**
1. `queue_pop` and `queue_push` wait once. A popper woken for an item that a second popper takes
   first answers `OGS_ERROR`, which the comments in the code say means an interrupt.
2. `ogs_timer_mgr_expire` calls every callback of its list: a timer that an
   earlier callback deleted, stopped or restarted fires all the same.
3. `ogs_thread_create` waits without a predicate. After a spurious wake-up `ogs_thread_destroy` can see
   `running` false and then true and end the process at once.
4. `select_remove` sets `max_fd` to -1 when the highest descriptor goes; a `select_add` before the next
   wait sets it to the new, lower descriptor, and the registered ones above are no longer watched.
5. `ogs_sockaddr_is_equal` ends the process with "Unknown family" when two addresses of one known family differ.
6. `ogs_hex_to_ascii` compares its limit with the number of bytes it has converted, and writes more than two characters for each.

Other things the models show, which nothing in the repository contradicts: a popper
that has passed the unlocked test of `terminated` may take an item after another popper was
already told `OGS_DONE`. With any poll backend, a handler that removes *another* poll of the
same batch makes the walk use a free or reused record (`CallsAreAskedFor` needs its proviso). On kqueue a removed poll is
still watched while its descriptor stays open, and its event calls a record that is free or somebody else's (`orphans`). On select, taking one of two polls off a
descriptor stops the other as well. A module whose log domain was removed keeps the id: its next line fails an assertion, or, once the id is handed out again, has another
domain's name and level. A
transition asked for on ENTRY changes the state and sends no EXIT and no ENTRY (`OneActiveState` leaves it out). A
socket record whose `socket()` failed, and the pipes of a creation that failed, are lost
(`EverythingHasOneOwner` and `ProcessSound` keep them apart). With epoll a node with both handlers aborts in
`ogs_socknode_install_poll`.

**Bounds, and why they are enough.** Every run is exhaustive within its bounds.
- Queue: two pushers, a popper and a controller, and in the other direction one and two, are the smallest companies in which one thread can take
  what another was woken for; two slots make full, half full and empty different; two data tell orders apart.
  `MCOgsQueue_error` and the queue in `MCLoop` (liveness) have one slot, one datum, two poppers and no spurious wake-ups; in `MCLoop`, where every
  thread costs a fairness condition, the pusher and one of the poppers take the part of the controller.
- Pool: five nodes; every wrap and every order of release. Id and address arithmetic do not depend on the size.
- Tree: eight nodes, in pairs of equal keys; every shape they can have, and every case of both loops on both sides
  occurs (seven suffice for that).
- Hash table: three keys that collide at first, in a table that starts with two slots instead of sixteen, so that a third
  key expands it and separates them; two values.
- List: four nodes, one before, one at, one after the loop's and one to spare.
- Timers: three (a batch with a first, a middle and a last), durations 1 and 2, and a clock that stops at
  `MaxNow` = 4, enough for two rounds of restarts. The clock's end is a bound of the model, not of the code.
- Thread: two records, which share nothing but the abort of the process; `Deadline` = 2 ticks.
- Memory: two classes of buffers, a request that fits the small one to the last byte and one that is too large for both; `Header` = 1. Blocks of 1 and 2
  stay in place in the large class, move from the small one.
- Poll: one descriptor below and one above the notification channel, as `max_fd` needs; one is read
  and written and the other written; a record each; two bytes in the pair and a drain of one, so that a drain may leave something behind.
  kqueue: three polls on two descriptors, so that a removal moves the last change into a hole before it, and two of them may be for one pair.
  On select polls may share descriptors, and at most one byte is in the pair.
- State machine: three states, an initial and a final one; its behaviours need no bound.
- TLV: four elements, two chains, bytes to the base 4, so that a length of one byte is cut in a chain of three; three of the
  modes, which differ in the bytes of type, length and instance (the fourth, `T1_L2`, has the type of one and the length of another).
- Processes: three children. Log: two modules' names beside the library's own and three domain ids, so that ids are reused, with one log; and
  apart from that one domain, and three logs over two files, each moved up to twice, so that two logs may have one file and a file may move on both
  sides of a cycle. Domains and files do not depend on each other.
- Hashes: messages up to three blocks of the smaller size, in pieces that end at, before and behind the edge of a block; keys of
  no byte, one, a digest, and more than a block.
- Addresses: three blocks, two holders, two descriptors, two socket records, one node, a host with a loopback, an Ethernet and a
  link-local address.
- Functions: all arguments of small sets around the edges (listed in `MCLib`); the ciphers are tried on one block or message
  for each key size and mode, as their structure does not depend on the data.

**Symmetry** is declared in `MCOgsQueue_safety` (threads of a group), in
`MCContainers` (three of the four list nodes, and the values of the hash table) and in `MCNet` (blocks, records, nodes and
holders), whose properties are invariants and predicates on single steps.

**Fairness.** Queue: a thread that can run does so, and a timed wait ends (`WF` of `Step(t)` and
`Timeout(t)`); nobody is obliged to call anything, and the choice of the thread
that a signal wakes is free. `MCLoop`: the one thread of the timers goes on with its walk,
callbacks return, the application comes back to `ogs_timer_mgr_expire`, and the clock owes nothing;
owner, worker and the clock of a thread's deadline run, and the function of the worker need never return. `MCPoll`: the
application polls again, handlers return, and the kernel ends a wait in which something
is ready (that a wait with nothing ready ends is not assumed).

**Deadlock** is checked wherever a call may still be made for ever; the runs of `MCLib` do not, as a
function without state is called once, and children and descriptors run out.

## 4. Proofs

`tlapm` checks these for every value of the constants.

| Module | Theorems |
|---|---|
| `OgsQueueProofs` | `TypeCorrect`, `WaitersAreCounted`, `TermWakesEverybody`, `NoPopperIsForgotten`, `NoPusherIsForgotten`, `NobodyWaitsForEachOther`, together `QueueIsSound` and `NoWakeupIsLost`; `QueueImplementsFifo` |
| `OgsContainerProofs` | pool: `PoolTypeCorrect`, `RingHoldsFreeNodes`, `IdsFindTheirNodes`, together `PoolIsSound`; `PoolImplementsAllocator`. List: `ListLinksAgree`, `LoopsVisitAll`. Hash table: `TableIsSound`, `TableImplementsMap`, `TraversalsVisitOnce` |
| `OgsLoopProofs` | timers: `TimersAreSound`, `PollEndsInTime`, `TimersFireInOrder`. Threads: `ThreadIsSound`, `AbortMeansOverdue`, `WorkIsDone` |
| `OgsPollProofs` | epoll and select: `PollsetIsSound`, `EpollReportsReady`, `CallsWereAskedFor`. kqueue: `KqueueIsSound` |
| `OgsRbtreeProofs` | `TreesAreSound`; `TreesImplementLists` |
| `OgsNetProofs` | `OwnersAreSound`, `SortKeepsPreference` |
| `OgsLibProofs` | memory and packets: `MemoryIsSound`, `WindowsStayInside`, `PoolsLastLongest`. State machine: `MachineHasOneState`. Processes: `ChildrenAreSound`. Log: `LogsAreSound` |
| `ProofLemmas` | no theorems of the system: what appending, removing and concatenating do to sequences without repetition, windows of a ring, cardinalities |

**Assumptions**, each named in the module that declares the constants, and evaluated by TLC on every run. The queue: a finite set of
threads, a capacity above zero, markers that are not data (`QueueAssumption`, `NoCallAssumption`). Markers for "none" are none of the
things they stand in for (`PoolAssumption`, `ListAssumption`, `PkbufAssumption`, `PollAssumption`, `LogAssumption`, `SockaddrAssumption`, `SocketAssumption`,
`SocknodeAssumption`), and neither are the initial and the final handler of a state machine states (`FsmAssumption`). A pool has a size above
zero; durations of timers are positive, as `ogs_timer_start` asserts (`TimerAssumption`); a thread's deadline is a
number (`ThreadAssumption`). The nodes of a tree are finite in number, NULL is none of them, and their keys are integers (`RbtreeAssumption`). Packets: classes in the order of their sizes, as many pkbufs and clusters as
`ogs_pkbuf_pool_create` makes; a header and requests of at least a byte, and classes that have room behind the header (`MemoryAssumption`).
Descriptors are numbers, and the notification channel's is no socket's (`PollAssumption`); the records of kqueue's pool are different ones
(`KqAssumption`). Keys are finite in number and have natural hashes, and NULL is no key, value or entry (`HashAssumption`).
Children are numbered in the order of their creation (`ProcAssumption`); domain 1 is the library's own and log 1 is there (`LogAssumption`).

*Queue.* No property of the queue is inductive by itself. `CountInv` is: types, plus "a thread has a
call exactly when its place in the code says so" (`CallsInPlace`), plus `WaitersCounted`: the two
counters are the numbers of threads between their increment and decrement. It gives at once that a thread asleep makes its counter
positive, so that the next store or load does signal (`SleepersAreCounted`). The wake-up
properties then follow by induction relative to it: they count awake poppers against items,
and each action moves both by at most one, so that the lemmas `CardinalityAdd` and `CardinalityRemove` are all
the set theory they need; spurious wake-ups only add awake threads. `NobodyWaitsForEachOther`
follows from the two of them and arithmetic: asleep on both sides would need an empty queue and a full one.

*Refinement.* `FifoInv` adds `RingInv` (`in` is `out` plus `nelts`, modulo the capacity) and
`BlockInv` (who waits made a blocking call). `Contents`, the window of `nelts` slots from `out`,
stands for `fifo`; `ProofLemmas` says what a store behind it and an advance of `out` do to a window. `RefinementStep` maps every
step to an abstract one or a stutter.

*Pool.* `PoolInv`: types, `tail` is `head` plus `avail`, the window holds the nodes nobody has, each
once and none missing, slots outside it are NULL, the index has exactly the
held nodes, and the numbers of held and free nodes add up. The last is what shows that a release finds
a free slot.

*List.* `ListInv` says that there is a sequence without repetition along which `next` leads forwards from `first` and `prev` backwards from
`last` (`IsChain`), and that a loop that is not cut off has still to visit the node it goes to, those behind it, and no other
(`LoopKnows`). Adding and removing have a lemma each that gives the sequence afterwards: with the node at its end, or without it. Links of nodes
that have left the list are free to be stale; the proof shows that only a cut-off loop reads them.

*Hash table.* `HashInv` says that there are chains, a free list and a set of entries that the table holds (`Holds`): each chain, and the free
list, is a path along `next` from its head to NULL without repetition (`IsPath`); an entry is in the chain of a slot exactly when it is in
the set and its key has that slot (`Rows`); the set and the free list divide the entries allocated so far (`Covers`); `count` is the size of
the set, and no two of its entries have one key (`Counts`). Besides, `count` is at most `max` between calls, so that only a call that adds a key
makes the array grow, and while a loop goes on whose body did no harm, the keys it has still to visit are those of the entries `Ahead` of its
iterator: behind its next entry in the chain, or in a slot it has not opened (`Tracks`). A path from an entry to NULL is unique (`OnePath`), which is
how the recursive functions `ChainFrom` and `FindEntry` get their values: the position on the path is the rank of the induction. Adding,
removing and storing have each a lemma that says what the table holds afterwards (`Gains`, `Loses`, `Stores`), and `expand_array` and
`ogs_hash_clear` are a number of rounds (`IsRounds`) with an invariant of their own (`HalfMoved`, `HalfCleared`). `TableImplementsMap` reads the map off
the entries (`MapOf`). That `InitialMax + 1` is a power of two is used nowhere: it makes `hash & max` the modulus of the model.

*Tree.* `TreeIsSound` and the list of `ImplementsSortedList` are recursive along pointers, and no induction over trees is to be had, so `TreeInv` says what a tree is
without recursion. There is a sequence `q` of the linked nodes; every node has its place `P` in `q`, and below it are the places from
its left edge to its right edge (`Spans`): those of its left child end just before its own, those of its right child begin just after. Parents and
children agree, and only linked nodes have any (`Linked`); `q` has the nodes at their places and the root spans all of it (`Lists`); its keys do not decrease
(`KeysAlong`). Colours are treated in the same way: every node has a black height, which is the height of either child, plus one if the node
is black (`Even`). Between operations no red node is the root or has a red parent; in the loop of an insertion only the loop's node may break that
(`Inserting`); in the loop of a deletion exactly one black node is missing, on the way through the loop's node, unless that is the root (`Deleting`).

Each piece of surgery has a lemma with the places afterwards: a rotation keeps `q` and all places, and moves one edge of each of two nodes (`Turned`); a new leaf
opens a gap beside its parent (`Grown`); a node with one child at most closes its own (`Unlinked`). What the code does with a node of two
children, in a chain of assignments that depends on where the successor is, is shown to be two of these: its successor is taken out, and is then given the node's place and
colour (`Renamed`). Every case of the loops is then a rotation or two with the colours exchanged, and moves the one fault up, or repairs it.
The functions that recur along links (`Outermost`, `NextNode`, the descent, the list of a tree) get their values by ranks: along such a link the width of the span, or the rest of
`q`, shrinks (`Walks`, `Descends`). So `ogs_rbtree_next` leads to the next place, the descent ends where the new node fits behind those of its
key (`FitsAt`), and the list read off the pointers is `q`, which the loops leave alone: that is the refinement.

*Timers.* `TimerInv`: each running timer has one entry in the tree, entries are sorted, and as long as no callback has used a timer
that waits to be served, the timers of the list are, in order, those of the first entries of the tree, and due (`ListLeadsTree`). A callback may
do anything else; what it starts goes behind every due entry, because durations are positive. That makes the
served timer the first due one.

*Threads.* `ThreadInv` is a conjunction over records, and each action touches one: the lives of a record, its worker and the work go
together (`LivesAgree`); who waits has a worker at its start, and who waits no more has one past it unless
the wake-up was spurious (`StartIsSeen`); the loop of destroy ends on the flag or on the deadline, and a flag
still up at the last look means the deadline (`LoopIsOver`). `WorkIsDone` is an action property from the same invariant.

*Memory.* `MemoryInv` adds to the checked properties that no two clusters have one buffer, that a block, or a pkbuf of a `realloc` under
way, is the only user of its cluster (`BlocksAlone`), that its window lies behind the header (`BlocksInside`), and that two `realloc`s never
share a pkbuf (`OwnersApart`). The counts are cardinalities of sets of sharers; a free takes one sharer out of the set, and
the last one takes the cluster. `PoolsLastLongest` counts the pools of pkbufs and clusters against the
sum of the classes: clusters run out only when every class has, pkbufs only where copies share a cluster.

*Poll.* `PollInv` says of the walk, before a handler of it removes another poll, that what is left of the kernel's answer is about polls in use, each
once, and none the running handler's (`EpollBatch`); with select, that the walk's place is a poll in use or a removed one whose link
leads to one (`SelectBatch`). Outside the walk the descriptors in select's sets are those of the polls in use,
except where one of several was removed (`cut`). `KqInv` ties each poll to the change at its index, in both directions (`ChangesAgree`), which is what the move of the last
change into a hole has to restore, and what the kernel watches to the polls in use and to the pairs that removed polls were left with
(`KnotesAgree`).

*State machine.* `FsmInv` adds to `OneActiveState` what holds inside a transition: while the old state is asked to leave, it
and no other is active; while the new one is asked to enter, none is.

*Processes.* `ProcInv`: the parent's descriptors are, besides those lost in failed creations, its ends of the streams that are still open; a
descriptor of a pipe exists only since the creation of its child; and of a child's siblings only one created later can hold the
write end of its input (`ChildHolds`). So only a younger sibling that runs can keep a join waiting.

*Log.* `LogInv`: the lists are the records in use, without repetition; the ids held outside are of domains of their names, except those of modules whose domain was removed,
which after `ogs_log_final` are all.

*Net.* `NetInv` has two halves. The lists of all owners (the program's and the nodes') contain the blocks in use among them,
each once (`OwnedOnce`). Four lemmas carry every action: one list changes, a list is handed over, owners go, owners come. The
open descriptors are in the same way divided among the records that callers and nodes hold, and the registrations are those of
the nodes' polls (`DescriptorsOwned`).

*The sort.* Each round of `ogs_sortaddrinfo` puts the next address somewhere into the sorted ones. The rounds are a recursive function over
0 .. n; that it exists, and that after each round the sorted addresses are those of the input so far, with one of the preferred family first if there is one, is
shown by induction on the rounds. The induction is carried out on the least round for which the claim fails (`LeastNumber`, from the library's
theorem that the order of the numbers is well-founded), as the library's induction theorems cannot be cited.

**Only model-checked.** Liveness (`TermReleasesEverybody`, `ItemsReachSleepers`, `DueTimersAreServed`, `CallsReturn`, `NotifyIsHeard`): fairness and
`ENABLED` are out of the prover's reach. The functions without state (`CodecsAgree`, `CryptAgrees`, `MacIsStandard`): their statement is about given inputs,
and for all inputs it needs induction over data: strings, the rounds of the ciphers, the pieces of a message. `TlvSound`: trees and chains walked by
RECURSIVE operators, in modules that the prover cannot enter.

## 5. Not modelled, and why

- Contents of packets and blocks, and integer widths of sizes in them: no property here is about them.
- Misuse the callers in the library never commit: a second `ogs_pool_free`, a release of a stranger's
  node, `ogs_pkbuf_reserve` beyond the room. `pthread_create` failing: its result is ignored, and the hang that follows is
  plain from the code. A pool of timers that runs dry: `ogs_timer_add` aborts right there.
- `OGS_POLLIN|OGS_POLLOUT` in one registration; a handler that fills the buffer of its own notification channel.
- The tree inside the timer: `OgsTimer` takes its order as given; `OgsRbtree` shows it.
- The hash function and the bytes of keys; loops over a hash table whose body adds keys: nothing says what they visit.
- HMAC keys of more bytes than a digest and at most a block: `key_temp` has no room for them, and what the loop reads
  behind it is undefined.
- The compression functions of SHA-1 and SHA-2, SNOW 3G, KASUMI and ZUC: arithmetic on fixed tables with no control to explore;
  `tests/crypt` compares them with the published vectors.
- `ogs-core.c` (the order of calls in one function), `ogs-signal.c`, `ogs-env.c`, `ogs-rand.c`, `ogs-errno.c`, `ogs-abort.c` (single calls
  of the operating system), `abts.c` (the test driver), `arc4random.c` (third party, Windows only), and the branches for
  Windows everywhere.
- The event loop that joins timers, polls and queue: it is written by the network functions, outside this
  repository. What each part promises it is checked: `PollWakesForFirstTimer`, `NotifyIsHeard`, `ItemsReachSleepers`.

## 6. Plan

Done, in this order: `BoundedFifo`, `OgsQueue`, `OgsQueueProofs`; `OgsPool`, `FifoAllocator`,
the pool's proofs; `OgsTimer`; `OgsThread`; `OgsPkbuf`, `OgsMemory`; `OgsPoll`; `OgsRbtree`, `OgsHash`, `OgsList` and `MCContainers`;
`OgsKqueue`; `OgsFsm`, `OgsTlv`, `OgsProcess`, `OgsLog`, `OgsSha`, the functions without state and `MCLib`; `OgsSockaddr`, `OgsSocket`,
`OgsSocknode` and `MCNet`. Sequential components share runs.

Then the proofs, by component: queue and pool; threads and state machine; memory; timers; poll and kqueue; processes and log; list; nets; the hash table; the
red-black tree. What is left to TLC alone is under "Only model-checked" above. Sooner or later worth having: the functions of `OgsCodecs` and
`OgsTlv` rewritten without RECURSIVE operators, so that what they compute can be proved for arguments of bounded length.
