# TLA+ models of the 415 projects

The repository holds the projects and labs of an operating systems course:
independent C programs and exercises. This directory models the ones with state
and concurrency of their own, checks them with TLC on small instances and proves
what matters most about each of these with TLAPS.

Source paths below are relative to `src/Projects/` unless they say otherwise.

## 1. Inventory

| Part | State | Operations | What is hard | What makes it right |
| --- | --- | --- | --- | --- |
| **Packet driver** `P2/packetdriver.c` | free descriptor store, receiver pool, send queue, one buffer per application, the device's registered descriptor, two threads' locals | `init_packet_driver`, `send_thread`, `receive_thread`, blocking and nonblocking send and get | two driver threads, application threads and the device pass descriptors round; pool, buffers and store run full and empty; sends fail | no descriptor lost or in two hands; the device always has a clean one; packets arrive unaltered, once, in order, at their application; the threads never get stuck |
| **Process schedulers** `P1/uspsv1.c` to `uspsv4.c`, earlier versions in `P1/v1..v4` and `P1/test` | PCB array, ready queue, current process, count of live children | fork loop, a gate of SIGUSR1, rounds of signals, SIGALRM and SIGCHLD handlers, waiting | handlers interrupt main and each other; signals race `wait`, gates and exec; main and a handler both reap and both count | main returns, and not before the children it waits for; no child misses its gate or stays stopped; no signal ends a command by mistake |
| **Text helpers** `P1/p1fxns.c`, and the process table of `P1/v4/uspsv4.c` | none | lines, words, integers and text, shortened numbers, padding, the row of a process from its files in `/proc` | quotes and blanks, truncation, the most negative integer, columns of fixed width | agree with a reference definition; every value under its title |
| **String heap** `P4/strheap.c` | hash map of reference-counted strings, one mutex | `str_malloc`, `str_free`, `cleanup` at exit | lookups are made outside the mutex | one copy per string, exact counts, purge at 0, no dangling pointer |
| **Rows and table** `P4/row.c, table.c` | growing array of rows, rows of shared strings | row create/destroy, table append/remove/destroy | growth, shifting, a failing `realloc`, shared fields | behaves as a list; string references equal fields |
| **Time service** `P3/dtsv4.c` (`dtsv3.c` is the same with other line ends) | priority queue, hash map, heap objects, id counter | `insert_oneshot`, `cancel_update`, `timer_function`; `insert_repeat` is never called | receiver and timer share everything, only the timer locks; objects are freed while pointers to them remain | each event fires once, not before its time, and not after a Cancel that came in time |
| **Ticket lists** `src/Labs/L5` | free list, count, mutex, condition | blocking and nonblocking get, put, shutdown | waiting getters at shutdown, spurious wakeups | tickets conserved; all threads end |
| **Work queue** `src/Labs/L8/lab8.c` | queue, items, `active` | worker recycles or frees, main cancels | unlocked reads of `active`; main's pointers to items | no use of a freed item; both ends end |
| **Child handler** `src/Labs/L4` | `nprocesses` | fork loop, SIGCHLD handler | the counter is shared with a handler | main does not end before the last child |
| **Merge sort** `P0/sort.c` | scratch array | `sort` | ties and leftovers of a merge | sorted, stable, a permutation |
| **Array stack** `src/Labs/L1` | array, capacity, next | create, push, pop, peek, size, copies, clear, destroy | growth, refused allocations, what clear leaves | behaves as a stack that owns its elements |
| **Sets** `P0` | bucket array | mostly stubs | | |
| **Front ends and clients** `P3/dtsv1.c, dtsv2.c, dts-client.c, echoclient.c` | none kept | parse, answer, print | | |

How they interact: the table calls the string heap for every field of a row;
the driver is called by applications and calls a device, a store and bounded
buffers that come as `libTH.a`; the time service is called through the BXP
library; the schedulers meet their children only in the kernel. Otherwise the
programs are separate.

Libraries without source (`libTH.a`, `libADTs`, BXP, libc) and the kernel are
external: a call is one step that does what the callers rely on. `PROJECT.json`
lists every component, also those that are not modelled, and the hazards, line
by line.

## 2. Modules

| Module | Models | Notes |
| --- | --- | --- |
| `PacketService` | what the driver promises to applications | abstract: FIFO in both directions, with drops |
| `PacketDriver` | `packetdriver.c` | one action per library call |
| `PacketDriverRefinement` | | `ImplementsService`: the driver implements the service |
| `PacketDriverProofs` | | theorems |
| `UspsPrograms` | the texts of the eleven scheduler programs | what `main` and the handlers execute, in order |
| `Usps` | a run of one of these programs | main, handlers, children, and the kernel between them |
| `UspsProofs` | | theorems |
| `UspsText` | `p1fxns.c` with `p1getline`, `collapse_num`, `collapse_bytes`, `display` from the files in `/proc` to the row | pure functions with references |
| `StringHeap` | the contract of `strheap.h` | abstract: every call is atomic |
| `StrHeap` | `strheap.c` | one action per shared access; `ImplementsHeap` |
| `StrHeapProofs` | | theorems |
| `LineList` | what a table is for | abstract: a list of lines |
| `RowTable` | `row.c`, `table.c` | sequential; `ImplementsList` |
| `RowTableProofs` | | theorems |
| `Dts` | `dtsv4.c` | receiver and timer threads |
| `DtsProofs` | | theorems |
| `TicketPool` | what a ticket list promises | abstract: who holds which ticket |
| `FreeList`, `BoundedFreeList` | `Labs/L5/freelist.c`, `boundedfreelist.c` | the second extends the first; `ImplementsPool` |
| `WorkQueue`, `ChildHandler` | `Labs/L8/lab8.c`, `Labs/L4/starter code/chldhandler.c` | |
| `LabProofs` | | theorems about these four programs |
| `ElementStack` | what a stack of `Labs/L1` promises its caller | abstract: a sequence |
| `ArrayStack` | `Labs/L1/arraystub.c` | sequential; `ImplementsStack` |
| `ArrayStackProofs` | | theorem |
| `MergeSort` | `P0/sort.c` | a function |
| `FunctionCalls` | a call of one of the functions | inputs, outputs and what is promised of them |
| `FunctionProofs` | | theorems about the sort and the text functions |
| `MC...` | | instances for TLC; `MCSmallPrograms` puts the labs and the calls of functions into one run |

Operators named as mutants in their comments are deliberately wrong forms of the
definition after them. No specification uses them; exchanged for the definition,
each must make the property it is paired with in `PROJECT.json` fail.

### PacketDriver

`free_pds`, `PD_receiver_pool`, `waiting_PDs` and `waiting_receives` are the
globals of `packetdriver.c` (26-30); `sendPc`, `message`, `nsends` and `recvPc`,
`curr_pd`, `full_pd` the two threads' locals; `registered` and `contents` the
device and the memory of the descriptors, which are what ownership is about.
Each step ends with one library call, so that threads interleave wherever
they can in the code: `nonblocking_get_pd` looks at the pool in one step and at
the store in another, and `nonblocking_put_pd` likewise. Applications behave as
`fakeapplications.h` has it: fill a descriptor and send it, blocking or not, or
collect a packet and give its descriptor back, starting as soon as init returns.
The network may deliver at any time; what arrives with no descriptor registered
is the device's loss and no step here.

### Usps and UspsPrograms

Eleven of the repository's scheduler programs are nearly the same text: they
differ in which statements they have and in what order. `UspsPrograms` gives each
program as a sequence of labels for `main`, one for its SIGALRM handler, and the
two ways in which the SIGCHLD handlers differ; `Usps` gives a label its effect.
`pc` is the statement main is at and `sub` the place in a loop that waits.
Handlers are frames on a stack: one may start between any two steps of main or
of the other handler, blocks only its own signal, and main waits below it. Main's
own call of the SIGALRM handler is a frame that blocks nothing. The handler has a step for
each access to what it shares with a run of itself: the test of `current_process`, the load and the
store of the ticks, `enqueue` and `dequeue`, the test of `send_usr1` (`Choose`), its
clearing (`Clear`) and the signal (`Resume`). An operation on the queue inside another one, or
on the destroyed queue, may end in the status `"undefined"`. `active_procs` is
volatile, so main's decrement is a load and a store. A child has main's SIGUSR1
handler until it execs and none after; `stopped`, `usr1`, `seen` and `died` are
what the kernel knows of it. The timer is external and fires up to `MaxAlarms`
times.

### StrHeap

The reads and writes of `strheap`, the map and `reference_count` are separate
actions, with `++` and `--` split into load and store; `held` is what callers
have, which is what decides when they may `str_free`. A read of a freed node
gives any value. `Pinned` strings are those main holds for the whole run.
The result of `str_free` (always false in the code) is left out.

### RowTable

Rows are addresses, `theFields` what they hold, `rows` and `size` the table's
array. `Row_create`, `t_append` with `realloc`, which may fail, `t_remove`,
`t_destroy` and the destruction of the row in hand are whole actions: there
are no threads. `Uses` is the set of places, row and index, at which a string is
a field; counting references is counting these places.

### Dts

`PQ` holds `[key, value]` pairs of pointers, `timeval` and `event` what they point
to, or `Freed`. The receiver's requests are split at the calls the timer may
overlap (queue insert, map put, the late read of `event->id`; map get, flag
write), the timer at each call of the queue, the test of the flag and the frees.
Only the timer takes the mutex, so nothing makes `PQ->insert` atomic: it lasts from
`InsertOneShot` to `Inserted`, and `inserting` holds its entry. A read of freed memory
gives any value, and a key that is freed while it is queued takes the order out of the
priority queue (`heap = "unordered"`). What C gives no meaning to is in `Break`:
`min` or `removeMin` within `PQ->insert`, which may lose, duplicate or tear an
entry; the timer's `hashmap->remove` against `putUnique`; a write into a freed event; a second
free of `timeval_ptr`, whose chunk strings and the nodes of queues and maps may
share. After it `heap` is `"undefined"` and the behaviour is over. The properties of the module speak of
what happens before, and of the executions in which none of this happens: in those
with an overlap, that the overlap did no harm.
Both `sscanf` calls store into `tv_sec` (`Priorities`). BXP is taken to deliver
one request at a time, and `query_copy` to be large enough: it has the room of a pointer
(`P3/dtsv4.c:235`) and is overrun by any longer request (265), so that the model is of executions
in which this overwrites nothing in use.

### The labs and the functions

`FreeList` takes a critical section as one step after the mutex was obtained;
tickets are numbers and 0 is NULL. In `BoundedFreeList` a thread in
`pthread_cond_wait` is in `waiting` until a broadcast or a spurious wakeup.
`WorkQueue` has a step per access, inside critical sections too, since both threads
read `active` without the lock. `ChildHandler` splits `nprocesses++`; `chmain` is
the statement its main is at, `running` and `zombies` count the children. Their
operators and variables have names of their own, so that one module can extend both.

`ArrayStack` has an action per call, each with the outcome of a refused allocation.
`clear` frees the array and keeps the pointer; the calls that use it afterwards
(`push`, a second `clear`, `destroy`) lead to the phase `"undefined"`, where the model
ends. What the caller has (`held`) and what the stack freed (`freed`) are
what owning its elements is about; `ElementStack` says it of a plain sequence.

`MergeSort` and `UspsText` are functions of their input; a string is the sequence of
its characters before the NUL, and integers wrap. Loops and recursive calls are
recursive functions over the positions, numbers or calls they go through. `display` reads
files given as sequences of characters, from which `p1getline` cuts the lines, and returns
the row. `FunctionCalls` makes one call a run: `unit` is the function, `input` one of the
inputs that the constants give it, and `output` what it returned.

`MCSmallPrograms` is all of these, one `unit` at a time: the variables of the others
stay in their initial state.

## 3. Runs

| Run | Question | Instance |
| --- | --- | --- |
| `driver_safety` | Are descriptors conserved, exclusive and clean, and is the driver a FIFO packet service? | 2 applications with a thread each, 6 descriptors, pool 1, buffers 2, send queue 1, 2 tries, 3 arrivals |
| `driver_liveness` | Do the driver's threads always come back, whatever applications do? | 1 application with 2 threads, 4 descriptors, pool and buffers 1, 2 arrivals |
| `driver_discards` (finding) | Are only extra packets dropped? | 5 descriptors |
| `usps` | What holds of waiting, counting, gates and handlers in all eleven programs? Do main and the commands end? | 2 commands, 3 alarms, quantum none, 20 or 40 |
| `usps_second_signal` (finding) | Does the scheduler start a command and never end it? | 1 command, 2 alarms, quantum 20 |
| `strheap_alone` | Does the heap, in one thread, leak nothing? | 3 strings, up to 4 references to a string |
| `strheap_shared` | Does the mutex keep shared strings right? | 2 threads, 2 pinned strings, up to 3 references of a thread to a string |
| `strheap_threads` (finding) | Is a string stored once? | 2 threads, 1 new string |
| `row_table` | Is the table a list, and are references exact? | 5 rows, capacity 1 grown to 4 |
| `dts_safety` | As long as all is defined, does each event fire once or not at all, can it be found, and is it silent once cancelled? | 2 event addresses, 3 ids, 2 seconds |
| `dts_on_time` (finding) | Does an event wait for its time? | 1 event |
| `small_programs` | Are tickets conserved, items freed once, children reaped, elements of a stack owned by one side, lines cut, numbers written, rows filled and arrays sorted right? | 3 threads (2 of them blocking) and 2 tickets, 1 spurious wakeup; 3 items; 3 children; lines of up to 5 characters from letter, blank, tab and both quotes; all 8-bit integers; rows of a process with numbers of 1 to 20 digits, all three files there or one missing; a stack for 3 elements, capacity 1 or 2 and at most 4; arrays of up to 5 elements with 3 keys |

Why the bounds suffice.

* In `driver_safety` the pool is full with one descriptor and a second one must go
  to the store, an application's buffer overflows with the third arrival, the
  send queue overflows with the second packet, and six descriptors are few
  enough for applications to empty the store, so that every branch of both
  threads is taken. The proofs remove the bounds for everything except
  liveness.
* In `usps` two children make one of them the other's rival for a SIGCHLD, for a
  place in the queue and for a lookup by pid; three alarms start the handler in
  main's call of it, again in its own work and once more after the queue is
  destroyed. A quantum of 20 is one tick, so that the first alarm already preempts; 40 is
  two. The proofs remove the bounds, quanta included, for all but liveness.
* In `strheap_shared` two threads are enough for any pair of accesses to overlap,
  and three references for a count to go up and down past a stale load. Here and
  in `row_table` the proofs remove the bounds.
* In `row_table` the array doubles twice and rows are removed at the first,
  middle and last index.
* In `dts_safety` both event addresses are in use at once and are used again for
  the third id, which stale pointers need to do harm; three `timeval` addresses
  allow a freed key to stay queued.
* In `small_programs` two blocking threads and one that is not exhaust the
  tickets, so that a getter waits for another one's put; a merge of five
  elements has halves of different lengths and ties across them; five characters
  hold two words with quotes; 20 digits are as many as 64 bits give; a stack of
  three elements is doubled once or twice, and cannot grow when full at 4. The proofs
  remove the bounds for the ticket lists, `lab8.c`, `chldhandler.c` and the
  stack, for all but liveness, and for the lines, the integers and the arrays. Only
  the rows of the process table are checked at these bounds alone.

`CHECK_DEADLOCK FALSE` is said in the driver runs, where every thread may wait for a
packet that the bounded network no longer sends, and in those of the time
service, which ends where it is undefined and whose ids and seconds are bounded. The other
runs check for deadlock; a program that has ended stutters there in a step of
its own (`Over`).

Symmetry is used on interchangeable addresses (descriptors, nodes, rows, events,
timevals), in safety runs only; `StrHeap` and `StringHeap` never choose between two of them.

### Findings

* `driver_discards`: with no descriptor free, `receive_thread` reuses the one just
  filled (`P2/packetdriver.c:195-203`) and drops a packet for an application with
  an empty buffer; `packetdriver.h:57` allows only extra packets to be dropped.
* `strheap_threads`: two threads miss the same new string at `P4/strheap.c:75`
  and both put it; `strheap.h:42` promises one copy. This is why `strheap_shared`
  keeps to strings that exist: with them every property holds.
* `dts_on_time`: `P3/dtsv4.c:131` writes the microseconds word over the seconds.
* `usps_second_signal`: main's call of the handler (`P1/uspsv4.c:507`, `uspsv3.c:333`) blocks
  nothing. With a quantum of one tick, a first alarm between the test of `send_usr1_signal` (294) and its
  assignment (296) sends SIGUSR1, a second one SIGSTOP and SIGCONT; the child
  executes its command, and main then sends it the SIGUSR1 it tested for, which ends it.

Described by the models and not a run of their own:

* `Dts`: `PQ->insert` (`P3/dtsv4.c:147`) does not take the mutex that line 444 initialises "to be
  used", so the timer may be in the queue at the same time; an event can be lost or fire twice there,
  and the three properties of `dts_safety` hold only of executions in which it did no harm
  (`QueueRace` in `Break`).
* `Usps`: the parent's branch of `uspsv3` and `uspsv4` ends in a `break` (`P1/uspsv4.c:489`) that
  leaves the fork loop after the first command and before `pcount++`; `active_procs` becomes 0 and
  main may return without waiting, against the comment at `P1/uspsv4.c:14`.
* `Dts`: a `Cancel` of an event that is finished reaches a later event at the same
  address, because `hashmap->remove` (`P3/dtsv4.c:385,394`) is given the address of
  the id and removes nothing, and suppresses it; a client may be answered an
  id read from a freed event (`P3/dtsv4.c:155`). `RegisteredIdFindsEvent` and
  `CancelHonoured` say what holds all the same.
* `Usps`, in `uspsv3` and `uspsv4`: the timer's handler inside main's call of it can
  put a process on the queue twice; the child may be left stopped, or with
  SIGUSR1 pending, when main returns; the queue is destroyed while the timer is
  armed, and the next alarm uses it (`status` may become `"undefined"`). In `v4`
  and `test` both reapers count down, `active_procs` can reach -2 and is never
  positive at `pause`, which is therefore never entered.
* `Usps`, in `v2/uspsv2.c` and `test/uspsv2.c`: no child waits at a gate, so SIGUSR1 may
  reach a command after its exec and end it.
* The descriptor of the workload that was opened is dropped (`P1/uspsv4.c:365`,
  `P1/uspsv1.c:94`), so that commands are read from standard input.
* `ChildHandler`: the last SIGCHLD may come between the test and `pause`, or a
  decrement be lost, and main sleeps for ever. The program promises nothing here.

Met while reading and outside the models: `P1/v3/uspsv3.c:62-66` does not compile;
`P1/test/uspsv3.c` and `uspsv4.c` pass an interval they never set to `setitimer`;
`pid_search` returns -1 for a pid that is not there and the caller writes
`pcb_arr[-1]`; the arrays of 512 PCBs, 128 arguments and 250 fields (`P4/row.c:22`)
are filled without a test; a line longer than the buffer becomes two commands;
`P1/uspsv4.c:256` prints an array that was never filled; `P1/test/uspsv4.c:109` copies
characters that were never set.

### Fairness

* `driver_liveness`: weak fairness of initialisation and of each driver thread as a
  whole, which is what a thread scheduler gives, and that a `sendPacket` call
  returns, after `SENDING_LIMIT` tries at most. Applications and the network get
  none; they may stop anywhere, also holding descriptors. `SentDescriptorReturns`
  and `ReceiverReturnsToDevice` are thus promises of the driver alone.
* `usps`: weak fairness of the program's one thread (`Thread`: main or the handler on
  top of it) and of every child (`Child`): the kernel runs what can run, and a
  command that is not stopped ends some day. The timer has none.
* `small_programs`: weak fairness of every thread; of spurious wakeups, none. The two
  threads of `lab8.c` sleep for half a second or more without the lock, in
  which the other one gets it: strong fairness of taking the lock. `random()`
  yields every index again and again: strong fairness of each `Pick`. Nobody has
  to send SIGINT.

## 4. Proofs

All theorems are for any values of the constants that satisfy the named
assumptions of the modules, or those the theorem states itself.

| Module | Theorem | Fact |
| --- | --- | --- |
| `PacketDriverProofs` | `TypeCorrect` | `Spec => []TypeOK`, with it that no queue exceeds its size |
| | `NothingLost`, `NothingShared` | `NoDescriptorLost`, `NoDescriptorShared` |
| | `DeviceAlwaysReady`, `PacketsStayIntact` | `DeviceReady`, `PacketsIntact` |
| | `HandsDoNotInterfere` | a step moves one descriptor at most (`HandedOverSingly`) and writes into none that is kept (`NotWrittenWhileHeld`) |
| | `Refinement` | `Spec => ImplementsService` |
| `UspsProofs` | `Invariance` | `Spec => []Inv`, on which the others rest |
| | `WaitsForEvery`, `CountCovers` | `WaitsForEveryChild`, `CountCoversChildren` |
| | `OpenedOnce`, `StartTogether`, `NoNull` | `GateOpenedOnce`, `CommandsStartTogether`, `NoNullProcess` |
| | `TypeCorrect` | `TypeOK` |
| `StrHeapProofs` | `CountsStayExact`, `PointersStayLive`, `NothingEverLeaks`, `TypeCorrect` | `CountsExact`, `PointersLive`, `NothingLeaks`, `TypeOK`, each from `Sheltered` |
| | `Refinement` | `Spec => ImplementsHeap`, from `Sheltered` |
| `RowTableProofs` | `RowsStayOwned`, `CountsStayMatched`, `TypeCorrect` | `RowsOwned`, `CountsMatchRows`, `TypeOK` |
| | `Refinement` | `Spec => ImplementsList` |
| `LabProofs` | `ListConservation`, `ListRefinement` | freelist.c: `TicketsConserved`, `ImplementsPool` |
| | `Conservation`, `CountCorrect` | boundedfreelist.c: `TicketsConserved`, `CountIsLength` |
| | `Refinement` | boundedfreelist.c: `ImplementsPool` |
| | `QueueInvariance`, `NothingDangles`, `LeavesNothing` | lab8.c: the invariant, `NoDangling`, and that a thread leaves its loop only when every item is freed |
| | `Counting`, `EndsAfterChildren` | chldhandler.c: the invariant, `EndsReaped` |
| `FunctionProofs` | `AnyArraySortsStably` | sort.c: `SortsStably`, for arrays of any length |
| | `AnyNumberReadsBack` | `NumbersReadBack`, for integers of any width |
| | `AnyLineAsScanned` | `WordsAsScanned`, for lines of any length and characters |
| | `CollapsesByThrees`, `BytesCollapseByThrees` | `collapse_num` and `collapse_bytes` are `Shortened`, for numbers of any length |
| `ArrayStackProofs` | `Refinement` | `Spec => ImplementsStack` |
| `DtsProofs` | `EventsOnce`, `RegisteredFinds`, `CancelsHonoured`, `TypeCorrect` | `EachEventOnce`, `RegisteredIdFindsEvent`, `CancelHonoured`, `TypeOK` |

**Packet driver.** None of its last four properties is inductive. That a delivered
packet stays addressed to its application needs every write into a descriptor to
go to one that nobody else has, so contents need ownership; and that the receiver
puts a descriptor into an existing buffer needs the contents to name an
application, so ownership needs contents. The inductive invariant is their
conjunction, `IInv`: `TypeInv` (`TypeOK` with what each program counter says of the
thread's pointers), `NoDescriptorShared`, `NoDescriptorLost`, `DeviceReady` and
`PacketsIntact`. Ownership is proved through one notion: a step *moves* one
descriptor from one place to another. A lemma per action says which move it makes,
and two lemmas say once that a move keeps places disjoint and loses nothing.
Contents are proved per thread, from what overwriting or moving one exclusively
owned descriptor leaves alone.

`HandsDoNotInterfere` says it of the steps themselves: one descriptor changes hands at most, and
what a thread, a queue or an application keeps over a step is not overwritten in it. Only
the descriptor the receiver shares with the device (`current`) may be written where it is: what
the device fills is that one and no other, by `TypeInv`.

That the driver implements `PacketService` needs one conjunct more, `Recycled`:
what lies in the store or the pool, or is about to be registered, holds no packet
of anyone, so that taking and returning descriptors is invisible (`RInv`). The mapping
reads an application's inbox off its buffer, then the packet the receiver is
delivering, then the one in the device; the outbox off the send queue behind the
message being tried. `NetworkArrive` is then `Arrive`, a step in which the receiver gives a packet up is
`Discard`, the last try of a send is `Dispatch`, and what an application does
with a descriptor is `Compose`, `Accept`, `Collect` or `Finish`. Every other step is
invisible, most of them because no descriptor with a packet changes its place
(`Untouched`), and the delivery because a packet moves from the head of one part
of the inbox to the end of the part before it, with nothing between.

**Process schedulers.** The text of a program is data to `Usps`, so the proof first
derives, for each of the four shapes of main, which statement follows which; everything after it
is by statement. The invariant has these parts.

* `FramesInv`: a signal is blocked in its own handler, so the stack has at
  most one frame of a kind, and main's own call is at its bottom. This is what lets
  the rest speak of *the* handler (`alrm`, `chld`) and *the* call.
* `CountInv`, `QuantumInv`, `QuietInv`: pids are entries of the table in order; a clamped
  quantum comes to at most 50 ticks; `uspsv1` and `uspsv2` have no handlers at all.
* `ReapInv`, for `WaitsForEveryChild` and `CountCoversChildren`. main and the SIGCHLD handler
  both reap and both decrement `active_procs`, and a decrement of the handler that
  falls between main's load and store is overwritten. The count is therefore not the
  number of children left, but never below it: it covers the children that
  are not reaped (`Left`) plus the one a handler has reaped and not yet counted
  (`Marks`), after main's load with one to spare.
* `SchedInv`, for `NoNullProcess`. The handler may interrupt main's call of itself
  between any two statements and then both hold the process that is
  preempted. The balance keeps them apart: queue length plus the current process is
  one, plus one for each of the two runs that has enqueued it and not yet dropped it
  (`Twice`). A handler that dispatches thus always finds an entry and leaves
  `current_process` set where the interrupted call goes on to use it.
* `GateInv`, for `GateOpenedOnce` and `CommandsStartTogether`. SIGUSR1 kills a command that
  has left the gate, so it must be sent once, and that no command dies of it is refuted
  (`usps_second_signal`): main's call may have tested `send_usr1` before a handler cleared it. What
  holds is that the handler on the timer's signal does not repeat it. The set flag, or such a
  handler between `Clear` and the signal, is the one token for SIGUSR1, and the child of
  whoever has it was never sent the signal; no other run of it comes between the test and the
  clearing in that handler, since such a run would be blocked or is below it on the stack.

For `uspsv3` and `uspsv4` the parts use that the fork loop ends after one command (the
`break` of section 3): the theorems say what the code does, which is less than it means to.

**String heap.** The finding shows that the properties fail for threads that bring in
or give up strings under each other's lookups. `Sheltered` is what excludes it: all
strings are pinned by main, or there is one thread. Under it no node comes or goes
while another thread is between its lookup and the mutex, so every lookup is still
right when the mutex is held; the mutex makes load and store of a count one step;
and a count is the cardinality of the set of references threads and main have, to
which each call adds or from which it takes one. For the refinement, a call takes
effect at the store of the count, at the put of a new node or at the removal; all
other steps are invisible.

**Rows and table.** The fields of a set of live rows are the finite set of places
`Uses`; creating a row adds a disjoint set of places and destroying rows removes
theirs, and cardinalities follow. For the list, growing copies a prefix, and a
removal is `RemoveAt`, shown position by position.

**Ticket lists.** The mutex belongs to the thread inside a get or a put; a ticket is on
the list once or with one thread (`ListInv`, of both programs). The second program
adds that the count is the length of the list, which is
what keeps a waiter that wakes from following NULL; its critical sections are those of
the first, so their lemmas are shared.

**Work queue.** An item is queued once, with the worker or freed (`ItemsPlaced`), and
`active` is the number of those not freed, which is why a test without the mutex is
enough to leave a loop. That main never reaches a freed item is `FreedCancelled`: only
cancelled items are freed, and a cancelled item is in main's array only while main,
with the mutex, is between the cancellation and the clearing of its slot.

**Child handler.** As in the schedulers, an increment that overwrites a decrement leaves
the count too high, never too low: `Covered` states it for the count main has
loaded as well.

**Array stack.** Entries below `next` are elements, and growing copies them; the
stack is the array read downwards from `next`. `Usable`, an assumption of the theorem,
is that the default capacity is positive, since an array without room cannot be doubled.

**Functions.** `CallInv` says that a call returns its function of its input; the rest is
about the functions, from `InputsAssumption`: lines and arrays are of characters and of integer
keys. The library's induction theorems take a predicate, which the
provers cannot instantiate, so `Induction` is stated of a set of naturals and proved from the
least element of what is not in it, and `Recursion` shows that a recursive definition in which
every use of the function is at an argument of smaller size has a solution. Each recursive
definition of the model is shown to be one (`ScratchDef`, `SortDef`, `DigitsDef`, `AnsDef`,
`ArgsDef`, `ScanDef`); that the words of a line come to an end, for example, is that
`p1getword` goes forward (`GoesForward`).

* Sort: `Before` orders elements by key, and equal keys by where they stood. A merge of two
  stretches that are in this order and stand in this order takes the left of two equal
  elements, which is the `Before` one (`TakesLeftBefore`), so what it writes is in order, and
  as long and with the same elements as what it replaces (`ScratchFills`, `MergeSorts`). `msort` is by
  induction over the length of the stretch; with `Before` for the order, stable is sorted.
* Numbers: the digits of n, reversed and read back, are n: no multiplication of `p1atoi`
  goes beyond n, so none wraps (`DigitsReadBack`).
* Words: `Outside` says that main's loop stands where no word is open. Between two such
  places `p1getword` skips blanks, then takes a quoted or a bare word; the pass over the
  characters opens the word there, grows it and closes it at the same place (`OneWord`). The
  rest of the line is by induction over its length.

**Time service.** `FiresOnTime` is refuted. Until a step of `Break`,
three properties hold whatever the priorities and the timevals do, because no event is
freed but the one the timer has taken out of the queue itself; of what follows `Break`
nothing is claimed. The invariant `Inv` has
three layers. `Places`: an event that is not freed is in the queue, in `PQ->insert` or in
`ready_q`, once. `Ids`: it has an accepted id of its own, and the id is finished exactly if the
event is the one the timer has tested and is about to free. `Requests`: what the
receiver's pointer, the map, the answered ids and the cancel flags say of the events.
The last layer is where the races are: the receiver holds a pointer to an event that
the timer may free at any step and malloc may hand out again, so `InsertsEvent` speaks
of the event only for as long as it is live, and `MapFinds` only of ids that are not
finished. The assumptions are that addresses, ids and times differ from `NULL` and `Freed`.

Model-checked only, and why:

* what needs fairness, which is beyond the prover: `SentDescriptorReturns` and
  `ReceiverReturnsToDevice` of the driver, `MainEnds` and `EveryCommandEnds` of the schedulers,
  `ShutdownEnds` and `AllItemsFreed` of the labs;
* `RowUnderHeader`, which puts the whole of `display` and the contents of three files together:
  its inputs are fixed texts that TLC evaluates, not a law of a recursion. The numbers
  of the row are shortened as the two theorems about `collapse_num` and `collapse_bytes` say;
* what is refuted: `DiscardsOnlyExtraPackets`, `StoredOnce`, `FiresOnTime` and
  `SchedulerKillsNobody`.

## 5. What could come next

1. Action properties of the time service over the invariant that is there: which thread may
   move or free which event.
2. A second writer of the string heap at exit (`cleanup`).

## 6. Not modelled

* `P0/hashset.c` does not compile and, like `P0/llistset.c`, is mostly stubs; the P0
  tests call them in sequence.
* `P1/v3/uspsv3.c` does not compile; `P1/test/uspsv1.c` is `uspsv1.c` again.
* What the stack of `Labs/L1` does after its array was freed by `st_clear` and is used again:
  it is undefined.
* Programs without state between two inputs: `P3/dtsv1.c`, `dtsv2.c`, the clients, the
  workloads and timing programs, the exercises of `Labs/L3`. `P3/dtsv3.c` is a copy of `dtsv4.c`.
* Binary libraries, and `cleanup` of the string heap, which runs when no thread is
  left. Of `p1fxns.c`: the functions that only write.
* Output and the text of requests and answers are left out of all modules. In `Usps`
  the whole of `print_process_info` is one step, `Show`; what it prints is `UspsText`'s
  `display`. Not among its inputs: a command name with blanks, which shifts the columns.
  Of a zombie, whose `cmdline` is empty, the code prints what the buffer held before;
  `RowUnderHeader` leaves those columns open.
