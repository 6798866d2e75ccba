# Verification of the sadlang runtime in TLA+

sadlang is a compiled, Arabic-first language: a C++ front end (lexer, parser,
semantic passes, borrow checker), an SSA intermediate representation (SIR), an
LLVM back end that emits the concurrency primitives and the maps instruction by instruction, a
C runtime embedded in every program, and libraries (graphics, networking) and tools
(language server, package manager, build tool) around it. This directory holds
TLA+ models of the parts where several threads meet or a data structure must
stay whole through every sequence of calls, TLC configurations that
check them on small instances, and proofs, checked by TLAPS, of their safety for
every instance.

    tlc -workers 2 -config MCChannel.cfg MCChannel      # a run
    tlapm ChannelProofs.tla                             # the proofs of a module

## 1. Inventory

Paths are relative to the repository. "Status" is what this project has today.

### Parts with state

| Part | State | Operations | Hard because | Correct when | Status |
|---|---|---|---|---|---|
| **Channel** (`src/compiler/src/backend/llvm/builders/directives/channels_ops.cpp`, loop in `.../frontend/builders/statement_for_range.cpp`) | one heap block: capacity, count, head, tail, closed, send lock, slots | create, send, try_send, send_timeout, recv, try_recv, recv_timeout, close, `for x in channel` | many producers under a spin lock, a consumer that takes no lock, a close that is a bare store, waiting by polling | a bounded first-in first-out queue; no slot written while it is read; the lock always comes back; a close wakes receivers | modelled, proved |
| **Thread registry** (`src/tools/compiler/runtime/sad_embedded_runtime.c`, calls in `concurrency_ops.cpp`) | array of `pthread_t*` under a mutex, its capacity, "growth failed" flag | spawn, spawn_closure, join, wait_all, wait_any | handles are addresses malloc hands out again; the thread runs before it is registered; several joiners | each handle joined and freed once; none leaked; a call that returns has waited | modelled, proved |
| **UI command queue and event loop** (`src/features/graphics/core/src/command_queue.cpp`, `ui_event_loop.cpp`) | write and read buffer under a mutex, atomic pending count, condition variable; running, dirty | push, notify, drain, waitForCommands; run, tick, processCommands, stop | double buffer, re-queueing of what a frame cannot execute, timed waits, stop from any thread | no command lost, order kept, what is executed is painted, wake-ups not lost, stop ends the loop | modelled, proved |
| **Garbage collector** (`src/shared/memory_gc/src/engine/garbage_collector.cpp`; `pin.h`; allocation in `llvm_runtime.cpp`) | object list, roots, root providers, pause flag, marks and phase of the incremental cycle; the Pin handles | alloc, realloc, free, register, unregister, addRoot/removeRoot, providers, collect, collectIncremental, pause; Pin copy, move, assign | a worklist over a graph with cycles; handles that share, pass on and drop roots; between two calls of an incremental cycle the program goes on | exactly what no root leads to is freed, once; a root per handle; a collection ends | modelled, proved |
| **Smart pointers** (`src/compiler/include/runtime/smart_ptr.h`) | control block: strong and weak count, data; `control_` of each pointer | create, copy, move, clone, upgrade, assign, release of Rc, Arc, Weak | counts and decisions are separate atomic steps; a release runs destructors that release | counts are exact; object and block deleted once, after the last pointer; no leak | modelled, proved |
| **Mutex and wait group** (`concurrency_ops.cpp`, `sad_embedded_runtime.c`) | a recursive mutex plus a flag word; a counter word | lock, try_lock, unlock, isLocked; add, done, wait | the flag is written outside the discipline of the mutex; the counter is a plain load and store | mutual exclusion; a refusal is true; nested locks return; inside the mutex the counter is exact | modelled, proved |
| **Maps** (`src/compiler/src/backend/llvm/builders/collections/map_ops.cpp`) | a header: count, capacity, three arrays (keys, values, type tags) with a slot per key | create, set (typed, run-time tagged), dyn get, typed fetch, size, has, delete, copy, keys, values | three arrays to keep in step; a linear scan that relies on an empty slot; deletes, growth and copies between any two calls | an ordered map: one value per key, read back with its tag; keys in order of insertion; no read or write outside the rows; a copy is independent | modelled, proved |
| **Select** (`src/compiler/src/frontend/builders/statement_concurrency.cpp`) | none of its own | select over try_recv / try_send cases | a value received is also the "was there one" test | a case is taken exactly when its operation happened | not modelled |
| **Borrow checker** (`src/shared/ownership/src/*.cpp`) | scopes of variables with state, borrows, moves | one visitor per statement | branches merged, loops visited once | no use after move that it accepts | not modelled |
| **Hot reload** (`src/shared/hot_reload/src`) | one pending path, file times, watcher thread | watch, poll, reload, restart | two files changed between two polls share the one pending path | every change is reloaded | not modelled |
| **Module resolver** (`src/shared/modules/src`) | cache, import stack | resolve, load | cycles | each module loaded once, cycles reported | not modelled |
| **Language server** (`src/tools/lsp/src`) | open documents and versions | open, change, close, request | cancellation, stale analyses | answers belong to a version that was current | not modelled |
| **Build tool cache** (`src/tools/build`) | time stamps and hashes | plan, build, save | a crash between build and save | an up-to-date target is up to date | not modelled |

### Parts that compute, and are left out

The lexer, parser, type checker, null-safety pass, SIR builder and optimizer,
the rest of the LLVM back end, the driver, runtime values, error manager,
profiler, FFI tables, freestanding runtime, layout and rendering, reactive
binding compiler, formatter, analysers, bundlers, package manager and standard
library either are functions of their input (trees, texts, instruction lists, on which a
model would repeat the code) or are I/O. `.github/`, `docs/`, examples
and vendored code hold no program logic. `PROJECT.json` lists each with its reason.

### How the parts meet

* Compiled code calls the **thread registry** for every `go`/spawn; what the new
  thread runs is again compiled code, which uses **channels**, **mutexes** and wait
  groups. These share only process memory: a channel is a pointer passed to the
  thread, and the registry never looks inside a thread. The two modules therefore
  compose by interleaving with no common variable, and are checked apart.
* Program threads talk to the **UI loop** only through the command queue (push,
  notify) and `stop`; the loop talks back through callbacks on its own thread.
* Compiled code allocates through `llvm_runtime.cpp`, which registers with the
  **garbage collector**; `Pin` handles add and remove its roots. `ManagedHeap`
  holds what these share, and both collections and their specification extend it
  or follow it.
* **Smart pointers** are the other memory mode: they count and know nothing of
  the collector. Threads share them like any other memory.
* **Maps** are memory of one thread: nothing in the emitted code locks one. Growing
  leaves the old arrays to themselves, neither freed nor read again.
* The **borrow checker** runs at compile time and decides which programs get as
  far as any of this.

The hazards (what can go wrong at which line, and which property would notice)
are listed in `PROJECT.json` under "hazards"; one that no property covers says why.
What a single call shows, and so an ordinary test would, is in section 7 instead.

## 2. Plan

Order is by how much of a running program depends on the part.

1. `FifoChannel`, `Channel`, `ChannelProofs` — done.
2. `ThreadRegistry`, `ThreadRegistryProofs` — done.
3. `UIEventLoop`, `UIEventLoopProofs` — done.
4. `ManagedHeap`, `Reclaimer`, `GarbageCollector`, `GarbageCollectorProofs` and
   `IncrementalCollector` — done.
5. `SmartPtr`, `SmartPtrProofs` — done.
6. `AbstractMutex`, `Sync`, `SyncProofs` — done.
7. `OrderedMap`, `EmittedMap`, `EmittedMapProofs` — done.
8. Open: hot reload (the watcher, the pending path and the engine), the document
   versions of the language server, `Select` on top of `Channel`, and the borrow
   checker against a reference semantics of a small statement language.

## 3. The modules

Conventions: a shared access that the code does without a lock is a step of its
own; what runs under one lock is one step; `pc` variables name the places between
the steps. Operators whose comment says "mutant" or "a bug" are plausible bugs of
the definition that follows them; no specification uses them. They show, for
each property, that it can be broken.

### FifoChannel: what a channel promises

`queue` and `closed` are the channel; `req`, `kind`, `val`, `late` say how far each
producer's send has come, `rcv`, `ckind`, `got` the same for the consumer.
`Accept`, `Refuse`, `Deliver`, `FindEmpty`, `GiveUp` are the atomic effects. A blocking
receive may give up if it *saw* the queue empty and *afterwards* saw the channel
closed, which is what the code does and less than its comment says (section 7).

### Channel: what the code generator emits

`count`, `head`, `tail`, `closed`, `sendLock`, `data` are words 1 to 6 of the block;
`reg`, `val`, `chead`, `cval`, `left` are registers of the emitted code, and die with the call.

| Actions | Emitted by |
|---|---|
| `Init` | `emitAsyncCreateChannel` |
| `TakeLock`, `CheckClosed`, `SendCheckSpace`, `UnlockSleep`, `Sleep`, `LoadTail`, `StoreSlot`, `BumpTail`, `Publish`, `UnlockDone` | `emitAsyncChannelSend`, block by block |
| the same with `TryCheckSpace` | `emitAsyncChannelTrySend`, and `send_timeout`, which is lowered to it |
| `WaitData`, `RecvCheckClosed`, `CheckTime`, `RecvSleep`, `LoadHead`, `LoadSlot`, `BumpHead`, `Take` | the receives: blocking, try (`ckind = "try"`) and timed |
| `Close` | `emitAsyncChannelClose` |
| `BeginLoop`, `LoopHasData`, `LoopIsClosed`, `LoopBody` | the loop of `statement_for_range.cpp` |

Abstractions: a slot and its type tag are one slot. The words that two threads touch at a
time — the count, the closed flag, the lock — are atomics, loaded with acquire and changed with
release (the exchange that takes the lock is acquire). `head`, `tail`, the slots and the capacity are plain accesses,
which the lock, the single consumer and the count put in order (`NoSlotRace`), so
interleaving single accesses stands for the memory model. One thread receives, as
the code declares (the head is unguarded); several send. What the body of a channel
loop does is one step, without a receive of its own on the same channel. Capacity
0 is excluded: such a channel never has room, and its blocking send never returns.

### ThreadRegistry: spawn, join, wait_all

`registry`, `cap`, `growFailed` are the three `g_sadThreadRegistry*` variables;
`thread[h]` is what the `pthread_t` at address `h` denotes, `NoThread` when the address
is free, so a freed address can come back for another thread while the program keeps the old
handle in `ticket`.

| Actions | Code |
|---|---|
| `Spawn`, then `RegistryAdd` | `pthread_create`, then `sad_rt_thread_registry_add`: the thread runs in between |
| `BeginJoin`, `Claim`, `JoinClaimed` | `sad_rt_thread_join`: `registry_claim` under the lock, `join_claimed` outside it |
| `BeginJoinAll`, `Pop`, `JoinClaimed` | `sad_rt_thread_join_all`: pop the last entry, wait or detach oneself, again |
| `JoinRefused` | the same call of `pthread_join` when it answers with an error |
| `Exit` | the end of a thread's body |

`sad_rt_thread_join_claimed` throws away what `pthread_join` answers. POSIX lets it refuse, with
`EDEADLK`, a thread that itself waits for the caller; libraries differ in whether they do. So the
model lets a call that is in such a pair either wait or go on at once (`JoinRefused`): it then frees the handle
of a thread that still runs and stays unjoined. One of the two can be refused, never both.

Left out: a spawn that fails (it changes nothing); the Windows twin of the code;
`wait_any`, which is lowered to a join of its first operand and adds no step. When main exits the process
ends, so `Next` needs `life[Main] = "run"`.

### UIEventLoop: command queue and event loop

`write` is the write buffer, `pending` the atomic count beside it (it drifts, being changed
outside the lock; the loop never decides on it, so it has no property),
`batch` what is left of a drained buffer, `left` this frame's share of it.

| Actions | Code |
|---|---|
| `Push`, `AddCount`, `Notify` | `CommandQueue::push` (append under the lock, count outside), `notify` |
| `Stop` | `UIEventLoop::stop` |
| `BeginRun`, `SetRunning`, `CheckRunning`, `Pace` | `run` |
| `SystemEvents`, `Paint` | `tick` |
| `Swap`, `ResetCount` | `CommandQueue::drain` |
| `Execute`, `Shutdown`, `Requeue`, `RequeueAdd`, `EndBatch` | `processCommands` |
| `Wait`, `Timeout` | `waitForCommands` |

Abstractions: a command is its place in the order of sending, its kind an edit or a
shutdown, and the widget tree is the sequence of commands executed. A handler that pushes commands itself
is a sender acting between two steps of the loop. A paint callback is set, and
`maxCommandsPerFrame` is at least 1 (with 0 the loop would put every
command back for ever). `MaxCmds` bounds the commands sent.

### ManagedHeap, Reclaimer, GarbageCollector: a full collection

`ManagedHeap` is what a program can do between collections. `heap` is the allocated
addresses, `refs` the addresses in the words of each object, `tracked` the table
`objects_`, `roots` how often `roots_` lists an address, `pin` what each `Pin`
points to, `emitted` what the root providers would emit. `Reclaimer` is the
promise: a collection changes nothing until its last step, which frees exactly the tracked objects
outside `Reachable` — defined by closed sets, not by a search, so that it does
not repeat the algorithm. `GarbageCollector` is the algorithm.

| Actions | Code |
|---|---|
| `Alloc`, `Realloc`, `Free`, `Malloc` | `sad_llvm_alloc` and its kin, with the call of the collector each makes |
| `RegisterObject`, `UnregisterObject`, `Pause`, `Provide` | the collector's methods of these names |
| `PinCopy`, `PinMove`, `PinAssign` | constructors, assignments and destructor of `Pin`; from or to an empty handle where the code constructs or destroys one |
| `StartMark`, `Mark`, `Sweep` | `collect`; `markFromRootsLocked`, one step per entry of the worklist; `sweepUnmarkedLocked` |

Abstractions: a word that is no address of an object is not in `refs`. Memory that
`malloc` returns is not cleared, so a new object may refer to anything. The
collector runs in the thread that calls it and holds the lock: the model has one program
thread, as the header of the collector describes its use. A program registers only memory that is
not tracked, and frees only what is allocated. Destroyers free the memory.

### IncrementalCollector

`objects` is the vector, because the marks are kept by place in it: `incMarked`,
`incIndex` and `incPhase` are the fields of the same names. `IncMark` and `IncSweep` are one step of a
call; between calls the program allocates, frees and pins. A mark read past the end
of the list may be found set or not. Objects do not refer to each other, for this
mark phase reads no reference.

### SmartPtr

`strong`, `weak`, `object` are the control blocks, `ptr` the `control_` of each Rc,
Arc (`Strongs`) and Weak (`Weaks`), `pc` and `src` an operation under way. A
pointer with a `Home` is a member of the object of that block: `DeleteMember` is its
destructor, run inside the release of another pointer.

| Actions | Code |
|---|---|
| `Create`, `Copy`, `Move`, `Upgrade` + `TakeUpgrade` | the constructors, `clone`, `fromRc`, `fromArc`, `upgradeToRc`, `upgradeToArc` |
| `Drop`, `Assign`, then the release, then `CopyAssigned` or `MoveAssigned` | destructor, `operator=` |
| `ReleaseStrong`, `DeleteMember`, `Deleted`, `CheckWeak`, `FreeBlock` | `release` of Rc and Arc |
| `ReleaseWeak`, `CheckStrong`, `FreeBlock` | `release` of Weak |

`Shared` are the pointers different threads may use: operations on them overlap, but
two operations never use one pointer at a time (the pointers themselves are no
atomics). An operation on any other pointer runs while nothing else is under
way, except the destructors it runs itself. A member is reached through a strong
pointer to its object and is set once.

### AbstractMutex, Sync

`owner` and `depth` are the system's recursive mutex, `flag` the word beside it,
`inside` what each thread believes to hold, `counter` the wait group and `due` what
it should be. `Lock`, `LockAcquire`, `SetFlag` are `emitAsyncMutexLock`; `Unlock` (clears
the flag), `UnlockRelease` are `emitAsyncMutexUnlock`, also called without holding; `TryFlag`, `TryAcquire`,
`SetFlag` are try_lock; `LoadCount`, `StoreCount` are add and done. `Guarded`
says that a program uses the wait group inside the mutex. `AbstractMutex`
has one holder, nested locks, and lets a question be answered with "taken" only
while there is a holder; "free" is a hint.

### OrderedMap, EmittedMap

`OrderedMap` is the promise, the same for every engine: a map is the sequence of its
rows, setting a key keeps its place or goes to the end, deleting closes up, a copy is a map of
its own. `EmittedMap` is what the code generator emits. `hdr[m]` is the header,
`heap[b]` the three arrays behind it (they are allocated, grown and copied
together, so they are one block), `ret` the result of the last call, `exited` that
the program has ended with an error.

| Definitions | Code |
|---|---|
| `FindSlot`, `Compact`, `CollectKeys`, `CollectValues` | `__sad_map_find_slot`, `__sad_map_compact`, `__sad_map_collect` |
| `IsFull`, `CapFor`, `Grown`, `ArraysFor` | `emitMapGrowIfFull` |
| `Create`, `SetTyped`, `SetDyn`, `Delete`, `Copy` | the calls that change a map, one step each |
| `SetDynRefused`, `FetchRefused` | the two errors that end the program: a kind without a tag, RUN074 without a handler |
| `GetDyn` (with its default), `Fetch`, `Has`, `Size`, `KeysOf`, `ValuesOf` | the calls that only read |

Abstractions: a key is a model value (`strcmp` is equality, `strdup` gives an equal
key); a value is its tag and one word. What `malloc` hands out holds `Junk`, except the keys,
which are zeroed. An array no header points to leaves the model. The refinement
reads the rows of a map off its slots below `count`.

Left out: `merge`, which emits nothing; the raw get the front end falls back to for
kinds such as bytes and characters (`expression_index.cpp:583-591`; the code calls its lack
of a guard "a declared limit"); the checks of the receiver, which end the program
before anything changes; the hash map of the C runtime
(`sad_embedded_runtime.c`), which no emitted call uses; the maps of the native back end.

## 4. The runs

| Run | Instance | States | Shows |
|---|---|---|---|
| `channel` | 2 producers, 2 values, capacity 2, timeouts 0 and 1 ms | 530 k | `ChannelInv`, `NoSlotRace`, `LoopRecvFindsData`, that Channel implements FifoChannel (`RefinesFifo`), and `LockReleased`, `CloseWakesReceiver`, `TimedRecvReturns`, `PublishedIsReceived` |
| `channel_close` | 1 producer, capacity 1 | counterexample | a receive answers "closed" while a value is in the ring |
| `registry` | main and 2 threads, all of which join; 2 addresses, first capacity 1 | 31 k | `RegistryInv`, `NoDoubleJoin`, `NoLeak`, `ReturnMeansDone`, `CallsReturn` |
| `ui` | 1 sender, 3 commands, 2 a frame | 144 k | `UIInv`, `NothingLost`, `InOrder`, `ShownBeforeSleep`, `NoLostWakeup`, `StopEnds`, `EveryCommandRuns` |
| `ui_fifo` | 1 sender, 3 commands, 1 a frame | counterexample | a later command is executed first |
| `ui_stop` | 1 sender, no command | counterexample | a `stop` is overwritten by the start of `run` |
| `gc` | 3 addresses, 2 handles, one word per object | 242 k | `TrackedIsAllocated`, `CollectorInv` (with `RootPerPin`), `PinsKeepAlive`, `ReclaimsGarbage`, `CollectReturns` |
| `gc_incremental` | 3 addresses | counterexample | a pinned object is freed |
| `smart_ptr` | 3 strong and 2 weak variables, 2 strong members, 2 blocks | 57 k | `CountsMatch`, `NoDangling`, `StrongKeepsAlive`, `NoLeak`, `ReleaseEnds` |
| `smart_ptr_weak` | 1 variable, 1 weak member | counterexample | a control block is used after it was deleted |
| `map` | 2 maps, 3 keys, 2 values, 3 blocks; first capacity 1 or 2, growth by 2 | 57 k | `MapInv`, `SlotFound`, `CollectFits`, `OrderKept`, and that EmittedMap implements OrderedMap (`RefinesOrderedMap`) |
| `sync` | 3 threads, 2 nested locks, counter up to 2 from 0 | 14 k | `SyncInv`, `MutualExclusion`, `CounterExact`, `RefinesMutex`, `NestedLockReturns` |

Why these bounds are enough to meet the interesting cases:

* Two producers are the least that race for the lock and the tail, and two values
  the least that show a value overwritten or out of order. With two slots
  the ring goes round, is full, is empty, and is half full while both ends
  work. A timeout of 1 ms has a nap and an expiry. In this run each
  producer sends a value of its own (`SendsOwnName`, an action constraint); it cuts
  only the beginnings of calls, about which no fairness is assumed.
* Two spawned threads and main, which all join: two calls race for one handle, a
  `wait_all` takes what a join was about to, a thread meets its own handle, the two spawned
  ones wait for each other (for ever, or until one is refused) while main waits for one of them.
  Two addresses make the registry grow from 1 to 2, and `malloc` hands out again
  the address of a thread that was joined before the other was spawned. Deadlock is not an error: the
  process ends with main, and a circle of waits is a state of the code.
  Longer circles, and a refused `wait_all` that goes on to a third thread, the theorems cover.
* Three commands with a share of two: the batch overflows, its last command is put
  back, and another may be sent meanwhile; stops and shutdowns fall anywhere. What
  several senders add is the order of their pushes, which the lock makes one.
* Three objects make a chain, a cycle beside a root, and a piece of garbage;
  a word is any of them or none. Two handles are the least that copy, move and overwrite each other.
* Two blocks with a member each make a chain and a cycle of strong pointers; three variables let
  two threads drop and copy pointers to one block while a third assigns. Five
  strong pointers are shared by threads; an operation on a weak one runs alone.
* Three threads and a depth of two: a nested lock, an unlock inside it that clears the flag,
  and two others that try, ask and unlock what they do not hold.

* Three keys make a row before, at and behind a deleted one. Arrays of one or two
  slots are full at once, so that a map grows twice, and the capacity is what the constants
  `MinCapacity` and `GrowthFactor` say, 8 and 2 in the code. Two maps are a copy
  and its original; three blocks let either grow. A value with a tag that can be stored
  again and one that cannot are the two kinds `set` tells apart. `MaxRows` (3, over both
  maps) bounds the search: states with more rows are checked but not continued.

What the instances show for their constants the theorems below show for all.

## 5. Fairness

* **Channel**: weak fairness of each producer's steps inside a call and of the
  consumer's. The OS runs every thread; nobody is obliged to call
  anything. The exchange of a taken lock is not a step (it changes nothing), so a producer that spins
  is not promised the lock, and no property says it is: the code's lock is not fair.
* **Registry**: weak fairness of the steps inside the runtime, strong fairness of
  the end of a spawned thread's body (a body that runs for ever is rightly never joined;
  strong, because the body may be inside calls again and again before it ends). No fairness
  of `JoinRefused`: nothing obliges `pthread_join` to refuse, so threads that wait for each other
  may do so for ever, which the code does not prevent. `CallsReturn` says that nothing
  else holds a call up: it comes back, or is caught in or behind a circle of waits (`Deadlocked`).
* **UI**: weak fairness of loop and senders, strong fairness of the time limit of
  the wait: `wait_for` has a deadline, and notifications before it do not move the deadline.
* **Collector**: weak fairness of a collection that has begun: it is a call, and the thread that made it runs on.
* **Maps**: none; every call is one step, and nothing waits.
* **Smart pointers, mutex**: weak fairness of the steps inside an operation. No
  fairness of waiting for a lock: `NestedLockReturns` is about a thread that holds it.

## 6. The proofs

Thirty-seven theorems in seven modules, from nothing but the named assumptions on the
constants: `ChannelAssumption` (a capacity of at least 1), `RegistryAssumption`
(`Main` is a thread, the markers are no members), `LoopAssumption` (a share of at
least 1), `HeapAssumption` (the handles are finitely many), `SmartPtrAssumption`
(so are the pointers), `SyncAssumption`, `MapAssumption` (capacities of at least
1, growth by at least 2, the null pointer is no key). Each
module proves an inductive invariant — initial states satisfy it, every action
preserves it, one step per action — and derives the others. The first conjunct of
each is the type invariant of its module, proved in its own right as `TypeCorrect`
(for the maps it is part of `RowsStayPacked`).

* **`ChannelInv`** = types, exclusion under the lock, ring, calls. The invariants one
  wants (`NoSlotRace`) are not inductive: that a producer at "store" is not at the slot being
  read follows only from where the free slots start, and that place depends on
  whether the consumer has moved `head` but not yet lowered `count`. `Oldest` and `Ahead`
  say it: a producer's register is `count` places after the oldest slot,
  whatever both sides are in the middle of. From it follow `TypeOK`,
  `NoSlotRace`, `LoopRecvFindsData`, and **`Refinement`**: `Spec => Fifo!Spec`, where a send takes effect
  when it raises `count` and a receive when it lowers it, all other steps being
  stutters or steps of the calls. `Ahead` replaces the remainder, about which the
  solver knows little, and a lemma ties it to `Succ`.
* **`RegistryInv`** = types, one owner per handle, what an unborn thread is like, who claimed a
  running thread waits for it (or ended, or was refused because that thread waits for it), where a handle given to the program is, what a call is waiting for.
  Ownership is the heart: registry entries are pairwise different, handles in
  hand are not in the registry, and no two threads hold one; so `SwapRemove` (lemma: its entries
  are those of the registry without the removed one) and reuse of addresses are harmless. From it
  `NoDoubleJoin`, `NoLeak` and the action property `ReturnMeansDone`.
* **`UIInv`** = types, where the loop can be with commands or unpainted edits in hand,
  `NothingLost`, `InOrder`, `NoLostWakeup`. Lemmas about concatenation, tails and ranges
  carry the re-queueing. From it the four properties and `ShownBeforeSleep`.
* **`CollectorInv`** = types, `RootPerPin`, `TrackedIsAllocated`, and the mark phase:
  the marked objects and the worklist are reachable, hold the roots, and what a marked
  object refers to is marked or in the worklist. When the worklist is empty the marked set is closed,
  so it is `Reachable`, whichever order the entries came in; that gives
  **`CollectionReclaimsGarbage`**, `Spec => R!Spec`. With one root per handle
  it gives **`PinsKeep`**: what a handle leads to, over any chain of tracked objects, is not freed. `RootPerPin` needs how the set of handles that
  point to an address changes when one handle does, by the lemmas on cardinality.
* **`SmartInv`** = `CountsMatch`, `NoDangling`, `NoLeak`, and what they need: where an
  operation is says what it points to (`PcInv`), operands under way are left alone
  (`SrcInv`), an operation on a weak pointer runs alone (`QuietInv`), a counted strong
  pointer has a live object (`KeptInv`), and whoever found a count at one is the last of its
  kind (`LastInv`). `CountsMatch` changes by one with the set of counted
  pointers, by the lemmas on cardinality; `StrongKeepsAlive` follows from `KeptInv` and `LastInv`.
  The theorems assume `Disciplined`: threads share strong
  pointers only, and no object has a weak member. The code needs something of the kind: it
  breaks in `smart_ptr_weak`, and when a Weak is dropped while another thread drops the last Arc.
* **`SyncInv`** = who counts what of the mutex (`OwnerInv`), the flag is up only under
  an owner who is not about to release (`FlagInv`), and inside the mutex what a thread
  loaded of the counter is still there (`GroupInv`). From it mutual exclusion,
  `NoLostUpdate` (assuming `Guarded`) and the refinement of `AbstractMutex`.

* **`MapInv`** = types, `OwnArrays` (no two maps share arrays), `RowsOK` (a slot has a key
  exactly when it is below `count`, the keys differ, `count` is below the capacity, a
  row holds one written value), `RetOK`. Packed rows are what everything else hangs on: the scan ends
  because a slot is left over (`ScanFindsSlot`), `keys` and `values` find exactly
  `count` occupied slots (`CollectStaysInside`, by counting the slots before the
  n-th), and slot order is insertion order. `count < cap` alone would not do: with a
  hole, the first empty slot is before the key. Lemmas say what the emitted
  helpers do to rows: `GrowKeepsRows`, `LookupAgrees`, `PutUpserts`,
  `CompactDeletes`, `CollectsRows`. With them each call is the call of
  `OrderedMap` of the same name (**`EmittedMapIsOrdered`**, `Spec => Ordered!Spec`), and
  **`InsertionOrderKept`** follows from the refinement: `UpsertKeeps` and
  `WithoutKeeps` show it of sequences of rows, `KeepsMeansFollows` carries it back to slots.

Only model-checked: all liveness (`LockReleased`, `CloseWakesReceiver`,
`TimedRecvReturns`, `PublishedIsReceived`, `CallsReturn`, `StopEnds`,
`EveryCommandRuns`, `CollectReturns`, `ReleaseEnds`, `NestedLockReturns`). The
prover does no liveness under fairness.

## 7. Where code and its text differ

* **`channel_close`** (`channels_ops.cpp:347`). The comment has a receive answer
  with the sentinel when the channel is "closed && empty". Count and closed are two loads in this order; a
  value published and a close between them lose the value. The `for` loop over a channel does the same.
* **`ui_fifo`** (`ui_event_loop.cpp:181`). The header of the commands promises the order of sending.
  What a frame could not execute is pushed behind what was sent since.
* **`ui_stop`** (`ui_event_loop.cpp:42`). `stop` is said to be safe from any thread; `run`
  begins by storing `true` into the flag and so forgets a stop that came between its call and that store.
* **`gc_incremental`** (`garbage_collector.cpp:362`). A Pin "guarantees the pointee stays alive". The
  incremental collection looks at no root: what was registered after its mark phase is
  freed, pinned or not, on the strength of a mark read past the end of the list.
* **`smart_ptr_weak`** (`smart_ptr.h:372`). Weak is there to break cycles, and a test has a node
  with a weak reference to itself. Its destruction deletes the control block
  inside the release that goes on to write to it.

Met while modelling, without a run:

* `wait` of a wait group emits no code (`concurrency_ops.cpp:527-545`), so it returns whatever the counter is;
  the comment on it says so, the guide (`.github/skills/sad-lang-coding/SKILL.md`)
  that it blocks until the counter is 0.
* `wait_all` is said to join every live thread (`sad_embedded_runtime.c:1114`); a
  thread whose handle another call claimed first is not waited for. `ReturnMeansDone`
  states exactly what is.
* `try_lock` is meant to refuse the owner (`concurrency_ops.cpp:175`); after lock, lock,
  unlock the flag is down and it succeeds.
* A `set` of a run-time tagged value accepts "every kind with a counterpart in the map
  value tag space" (`map_ops.cpp:1075-1079`), and the unit `()` has such a counterpart, tag 9
  (`sir_constants.h:818`), which a `set` of a literal `()` writes. A `()` read from one map and stored
  in another ends the program all the same (`SetDynRefused`).
* A select case that receives is taken if the value received is not 0
  (`statement_concurrency.cpp:486`): a 0 is consumed and thrown away.
* The registry is there so that no spawned thread stays unjoined (`sad_embedded_runtime.c:878-883`). One
  whose `pthread_join` answers `EDEADLK` does, for the answer is not looked at (990).
* A channel made with capacity 0 never has room, so a blocking send on it never
  returns (`channels_ops.cpp:206`).
* Assigning to a smart pointer from a member of the object it alone keeps alive reads that member
  after the object is gone (`smart_ptr.h:238-239`).

## 8. Not modelled

The open parts of section 2, and the computing parts of section 1. Of the modelled
parts: a circle of threads that join one another is a possible end of the registry's model, not a violation; main returning
without `wait_all` kills threads, by design; the environment of a spawned closure has a lifetime the
runtime declares to be the program's concern. What a widget command does to the tree, layout and
drawing are one step each. Allocation failure is modelled only where
the code survives it (the registry's growth). Destructors that a sweep runs under the collector's lock, and
two threads that register one object, are hazards of the collector outside its model. Atomics
are one instruction each.
