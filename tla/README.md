# ESPressio-System in TLA+

A verification project for the header-only library in `src/src`: what its
concurrent and stateful parts do, checked with TLC on small instances, and the
results that matter most proved with TLAPS for any number of threads,
primitives, signals, slots, owners, blocks, platforms and calls. Every safety
property of the runs, and every refinement, is also a theorem.

The library is the layer between ESPressio components and a platform. The
platform installs *providers* (pointers to interface objects) in process-wide
slots; components use portable wrappers that ask those slots. Nothing runs by
itself: the concurrency is that of the application's threads and interrupts, and
of the platform, which may install, replace and remove providers at any moment,
also after objects with static lifetime have begun to work.

## 1. The system

| Component | State | Operations | Used by / uses |
|---|---|---|---|
| `Mutex`, `RecursiveMutex`, `ReadWriteLock` (Synchronization.hpp:117-254) | `_resolved`, `_owned`, `_fallback`, `_resolutionGuard` | `lock`, `try_lock`, `unlock` and the shared forms, all through `Resolve()` | read the synchronization slot once; forward to the platform's primitive or to the standard one |
| Binary signals (258-331) | `_initiallySet`, `_signal`, `_resolved`, `_mutex` | `CreateBinarySignal`, `Give`, `GiveFromInterrupt`, `Wait`, `Reset` | read the slot at each call until it yields a signal; hold a `Mutex` |
| Provider slots (Synchronization 95, Queue 85, GPIO 153, Execution 149, clock 59 and 112, entropy 53, Memory 92) | one atomic pointer each | `SetProvider`, `ResetProvider`, `Provider` and their like | written by platforms, read by everything |
| `Allocator`, containers, smart pointers (Memory.hpp) | `_provider` of each allocator and deleter | `allocate`, `deallocate`, copy, `==`, `MakeUnique`, `MakeShared` | read the memory slot when they bind; call the provider |
| Polymorphic ownership (PolymorphicMemory.hpp) | `_provider`, `_destroy` of each deleter | `MakePolymorphicUnique`, destruction | the same |
| `DefaultMemoryProvider` (62-84) | none | `Allocate`, `Deallocate` | the fallback of the memory slot; chooses the form of `operator new` and `delete` |
| Byte streams (ByteStream.hpp) | none | `WriteByte`, `WriteText`, `WriteLine` (two forms) | call `Write()` of the platform, `WriteLine` twice |
| Queues (Queue.hpp) | none | `Create` (four overloads), `IQueueProvider::Create` with a policy | the slot at each call; the queue is a platform's object owned by a `unique_ptr` |
| Execution (Execution.hpp) | none but the slot | `Create`, `Destroy`, `Suspend`, `Resume` of the provider | the slot at each call; contexts are numbers of their provider |
| GPIO (GPIO.hpp) | none but the slot | creation of interrupts, moves of `InterruptCreationResult` | the slot; the interrupt is owned by a `unique_ptr` beside a status |
| Clocks (SystemPlatformClock.hpp) | two slots | `CreateHighResolutionCounter`, readings | the slots; a counter is owned by a `unique_ptr` |
| Entropy (SystemPlatformEntropy.hpp) | the slot | `Fill` | the slot |
| `PlatformResult`, `ProcessorAffinity` (Platform.hpp) | values | queries | what the others return and take |
| Umbrella headers | none | includes and aliases | |

What is hard, and what makes each part correct:

- **Lazy resolution.** The wrappers decide at their first use which primitive
  stands behind them, with a double-checked lock around an `atomic_flag`. Many
  threads may be first; the provider may come or go in the middle; its factory
  may throw or return nothing. Correct: one choice, made once, seen by everybody
  with its construction, and kept; hence one lock.
- **Deferred signals.** As before, but nothing is decided while there is no
  signal, every call may ask again, and an interrupt may look at any moment and
  must not wait. Correct: the signals of all callers are one binary signal with
  the initial state that was asked for; an interrupt always gets its answer.
- **Memory.** Allocators bind lazily, are copied, moved, swapped and compared,
  while the provider is replaced. Correct: each block returns to its provider,
  and nothing leaks, also when a constructor throws; a block has the size of its
  objects, and is released as it was requested.
- **Slots.** Seven headers repeat the same idea with three different rules for
  null. Correct: no null where the reader does not expect one; what was
  installed in order is found in order, also through the pointer that an
  exchange returns.
- **Created objects.** Providers come and go between the load of a slot and the
  call, and between the creation of an object and its end. Correct: what a
  result calls a success exists, whatever was installed since, and no context
  loses its handle while its platform stays the same.
- **Byte output.** A line is two writes, either may fail or fall short, and other
  threads write in between. Correct: success means that everything arrived, and
  no terminator ends half a line if callers take turns.

`PROJECT.json` lists every hazard at its line, with the properties that watch it
or the reason why none does.

## 2. The modules

    AbstractLock          what a lock promises
    LazyResolution        Resolve() of the three wrappers
      LazyMutex           Mutex             } EXTENDS LazyResolution,
      LazyRecursiveMutex  RecursiveMutex    } implements AbstractLock
      LazyReadWriteLock   ReadWriteLock     }
      LazyResolutionProofs
      LazyMutexProofs, LazyRecursiveMutexProofs, LazyReadWriteLockProofs
    AbstractSignal        what a binary signal promises
    DeferredSignal        DeferredBinarySignal, implements AbstractSignal
      DeferredSignalProofs
    ProviderMemory        who allocated a block and who gets it back
    BlockRequests         how large blocks are and how they are released
      MemoryProofs        of both
    ProviderSlots         the process-wide slots
      ProviderSlotsProofs
    CreatedObjects        contexts, interrupts, queues and counters
    ByteOutput            the text operations of a byte output
      ServiceProofs       of both

`MemoryProofs` and `ServiceProofs` each hold the proofs of two modules, which
have no name in common and of which no theorem uses both: they are extended
together only to keep related proofs in one place.

Operators named `...Wrong` stand beside the definition they vary. They are what
a plausible mistake in that line would make of it (a relaxed store, a dropped
check, a missing `clear`). No specification uses them. Each property is known to
fail when the definition is replaced by one of them, which is how we know that
it says something about the code; `PROJECT.json` pairs them.

### LazyResolution and the memory order

`Resolve()` is one action per access to shared memory:

| Action | Code (Mutex; the other two wrappers are the same text) |
|---|---|
| `Call` | 165-166, the acquire load, and the fast path if it returns a pointer |
| `Spin` | 149, the `test_and_set(acquire)` that succeeds |
| `Recheck` | 168, the relaxed load under the guard |
| `LoadProvider` | 171-172, `Provider()` |
| `Create` | 172-173, the factory: a new primitive, nothing, or an exception |
| `Store` | 174-175, the choice and the release store |
| `Release` | 151, `clear(release)` |
| `Return` | the forwarded call returns |

The code is correct because of its memory order, so the model is not
sequentially consistent. Every thread has a *view*: the writes that happen
before its next step. A load may return an old value unless a newer one is in
the view; a release store carries the view of its thread, and the acquire that
reads it adds that view to its own. Two kinds of writes matter, the construction
of a primitive and the store into `_resolved`, and views are sets of those. With
a relaxed store (`StoredViewWrong`) the property `PublishedBeforeUse` fails;
with a relaxed `clear` (`ClearedViewWrong`) two primitives get made and
`MutualExclusion` fails. What a view cannot express is out-of-thin-air values,
which this code has no dependency cycle for. Views are not handed through the
user's lock itself; that allows more stale reads than there are, never fewer.

The provider slot is a plain register here: a wrapper reads it once, so a stale
read of it is an execution in which `SetProvider` comes later. `ProviderSlots`
looks at the memory order of the slots themselves.

### LazyMutex, LazyRecursiveMutex, LazyReadWriteLock

Each extends `LazyResolution` with the methods. `Begin` is the call with the
first step of `Resolve()`, `Resolve` the rest of it, and `Acquire`, `TryFail`,
`Unlock` (and the shared forms) the forwarded call with the return. The
primitives are standard locks or the platform's, known by the contract of their
interface: they are locks, and `TryLock` may fail spuriously, as the standard
allows. The question is whether the *wrapper* is a lock, and every thread could
be locking a primitive of its own: what a lock holds is a function of the
primitive. Callers keep the rules of their lock (they unlock what they locked);
breaking them is undefined for the standard locks also.

### DeferredSignal

The same load, check, create, store for a signal, under `_mutex`, which is a
`Mutex` and here one lock (`LazyMutex` shows that it is). No provider, and a
platform that returns nothing, leave `_resolved` null and the caller refused
(`Unavailable`), and the next caller asks again. The wrapper's `Resolve()` is
`noexcept` and does not catch: a platform's exception ends the program
(`terminated`), so the runs do not check for deadlock. `Init` has both results
of `CreateBinarySignal()`: the platform's own signal, or a deferred one.
`CallFromInterrupt` is the single load of `GiveFromInterrupt()`; its alternative
is refusal. The operations of the platform's signal (`Give`, `Take`, `TimeOut`,
`Reset`) are external.

### ProviderMemory

An owner is a container, a `UniquePtr`, a `PolymorphicUniquePtr` or a
`SharedPtr`; `bound` is the `_provider` of its allocator or deleter, `store` the
blocks it owns, and `origin` the provider that each block came from. The actions
are `SetProvider`, `ResetProvider`, the allocator's operations (`Allocate`,
which binds, also when the provider throws in `AllocateThrew`, and `Deallocate`)
and what owners do with allocators (construct, move, swap, destroy). `Make`,
`Made` and `MakeThrew` are the three `Make...` functions; the object's
constructor runs between them, when the provider may be replaced. `MakeEmpty` is
a smart pointer without an object: its deleter has the provider of the moment,
or is inert if it is a `PolymorphicUniquePtr`, and a deleter without a provider
gives nothing back (`GiveUp`); assignments then put objects and deleters
together in all ways, and `Clear` is `reset()`.

What containers of the standard library do with the allocator is external and
follows libstdc++: move assignment and swap take the allocator along, as its
traits ask. Three things that its containers do are steps of their own, since
they can leave blocks with an allocator that is not bound:

| Action | What the container does | Use |
|---|---|---|
| `AllocateRebound` | allocates the map of a `Deque` or the buckets of an unordered container through a temporary copy of its allocator | `"rebound"` |
| `Transfer` | takes over blocks of another container whose allocator compares equal | `"transfer"` |
| `AssignShort` | takes over the allocator of a short `String` by move assignment and keeps its own buffer | `"assign"` |

With an allocator that is bound they are harmless and always possible, with one
that is not they are a use (`MayWith`). `mispaired` remembers that some block
went back to another provider.

What the application does is said by the constant `Uses`, the facilities that it
touches beside containers, and the variable `quiet`, chosen at the start: whether
providers are only replaced while no block is live. In quiet behaviours the
application does everything, in the others what `Uses` names (`May`). The code is
right under one condition or the other, and not without (section 5). Beside
`MakeShared`, what `Uses` excludes for an application that replaces providers
under live blocks are unbound containers: it has to construct its `Deque`s,
unordered containers and `String`s with an allocator that names a provider, or
to leave out these operations.

### BlockRequests

One block from its allocation to its release. Every place of the code that asks
for a block or gives one back computes the request from what it knows, as nothing
stores the size, and each is an operator of its own, so that they can disagree:

| Place | Request | Release | After an exception |
|---|---|---|---|
| `Allocator` (Memory.hpp:154, 160) | `ArrayRequest` | `ArrayReturn` | |
| `MakeUnique`, `ObjectDeleter` (230, 209, 235) | `ObjectRequest` | `ObjectReturn` | `ObjectUnwound` |
| `MakePolymorphicUnique`, `DestroyPolymorphicObject` (PolymorphicMemory.hpp:93, 60, 112) | `PolymorphicRequest` | `PolymorphicReturn` | `PolymorphicUnwound` |
| `DefaultMemoryProvider` (Memory.hpp:67, 76) | `NewIsAligned` | `DeleteIsAligned` | |

`AllocateArray` has the test of line 152 and the product in a `std::size_t`,
which wraps around at `SizeMax`; `Refuse` is its exception. A
`PolymorphicUniquePtr` points to a base that begins `offset` bytes into the
object (`Upcast`), and its deleter casts back (`Downcast`). `block` is what
`DefaultMemoryProvider` makes of a request, and `symmetric` remembers that every
release was that of its request and its block.

### ProviderSlots

A slot is the list of all stores to it. A thread's view has the providers that
it knows to be constructed and, per slot, the oldest store that it may still
read. `SetNullable` (Synchronization, Queue, GPIO, high-resolution counter),
`SetWithFallback` (Execution, monotonic clock, entropy) and `SetWithExchange`
(Memory) are the three kinds of setter, `Reset` and `Get` the rest. Platforms
call a setter only with a provider that their thread knows to be constructed, or
with the one that an exchange returned (`Restore`): `previous` is the store that
the last exchange of each thread replaced, and whether the thread knows that
provider to be constructed is the question of `ReplacedInOrder`. The exchange
reads with acquire (`Acquired`); `ResetProvider()` discards what it returns.

### CreatedObjects

Four headers let a platform create an object for the caller. They have the same
two steps, the load of the slot (`Load`) and the call that returns (`Create`,
`CreateNothing`, `CreateThrew`, `CreateNowhere` for the fallback or the null
pointer, `NoController`), between which the slot may change; a behaviour is about
one of them (`service`). The difference that matters is what the caller holds. A
queue, an interrupt or a counter is owned by a `unique_ptr`: assigning a result
destroys what the variable owned, moving leaves a null handle behind, and the
object's destructor needs no provider (`Assign`, `MoveTo`, `Release`). A context
is a number, `Destroy()` goes to the provider of the moment, and the caller keeps
the handle when it is refused (`Destroy`, `DestroyRefused`). `Legacy` are the
queue providers that do not override `Create()` with a policy; `Honoured` is the
default, which refuses external memory for them; as it is the whole policy test,
no property repeats it. That a `unique_ptr` destroys its object once is the
standard library's promise, not a property of these headers; `TrueMeansAlive`
rests on it. `replaced` remembers that a
provider was replaced by another while it had objects or calls in progress.
`wiki/Implementing-Providers.md` says that providers are installed during the
platform's startup, and for contexts everything is claimed as long as this is
kept; removing the platform and installing it again is allowed.

### ByteOutput

A call is the sequence of pieces that it writes (`Requests`); `Write` is one
`Write()` of the platform, with its status and with how much arrived, which the
interface does not tie together (`Outcomes`), and what the code makes of the
status: whether it goes on (`Ends`) and what it returns (`Answer`). Between the
text and the terminator other writers come, unless `serialised`, chosen at the
start, says that callers take turns. `shortened` is what the model knows of a
short write and the code drops.

## 3. The runs

| Run | Instance | What it shows |
|---|---|---|
| `mutex` | 3 threads, 2 primitives | at most one factory call; no use before construction; one live primitive; the choice is permanent; spinning ends; the wrapper implements the abstract lock; `unlock()` finds the primitive that `lock()` took |
| `recursive_mutex` | 2 threads, 2 primitives, 3 levels | the lock with levels; the owner never waits for its own lock |
| `read_write_lock` | 3 threads, 1 primitive | the lock with shared owners; a writer is alone |
| `signal` | 2 tasks, 1 interrupt, 2 signals | one signal, published before use, implements the abstract signal; waiting for `_mutex` ends once it is resolved; `GiveFromInterrupt()` ends although tasks stand still anywhere |
| `slots` | 3 threads, 1 slot of each kind, 1 provider, 3 stores | no null where there is a fallback; installation order is seen by who finds a provider and by who gets one back from an exchange |
| `memory` | 3 owners, 2 blocks, 3 providers; unique and polymorphic pointers, and containers as `Uses` leaves them, with any replacement, everything with quiet ones | blocks go home, nothing leaks |
| `sizes` | 4-bit `size_t`, 6 types, 2 policies | no size wraps, no fitting size is refused, each of the five releases matches its request and block |
| `objects` | 2 threads, 2 platforms (one legacy), 2 numbers, 2 variables | only platforms create; a true result names a live object; contexts keep their handles |
| `bytes` | 2 writers, 3 calls | success means written; no terminator ends half a line |
| `memory_shared`, `memory_transfer` | 2 owners | violations, see section 5 |
| `bytes_short` | 2 writers, 2 calls | a violation, see section 5 |

Why these bounds are enough. A race on resolution needs a winner, one that comes
while the winner holds the guard, and one that comes on the fast path: three
threads. Two primitives tell a second creation from the first; a third would
need a second one before it, which `AskedOnce` excludes.
`recursive_mutex` needs three levels for one that is neither first nor last.
`read_write_lock` needs two readers and a writer; a wrong second primitive is
the provider's beside the fallback, so one is enough. In `slots`, passing a
provider on takes an installer, one that reads or exchanges and reinstalls, and
a reader.
In memory, one owner keeps a block while two exchange another. In `sizes`, the
types have the smallest size, the largest, one that does not divide the range
and one of two alignments beyond and at that of plain `new`; all counts are
tried. In `objects`, the second platform replaces the first between the load and
the call of one thread while the other creates; two variables are a move, two
numbers keep a handle apart from the next one. In `bytes`, the third call comes
between the two writes of a line of the first or the second. The bounds named in
the modules are `MaxDepth`, `MaxStores` and `MaxCalls`; nothing else is cut off.
The history variable `asks` needs no bound because `AskedOnce` gives it one; a
wrong variant that breaks this is caught by the invariant itself.

### Fairness

- `mutex` and `recursive_mutex`: a thread inside `Resolve()` keeps running and
  the platform's factory returns (`WF` of its steps). Nobody is assumed to get a
  lock, or to get the flag when others compete: `ResolveTerminates` holds
  because the competition ends, as everybody who leaves the guard leaves
  `_resolved` set. The code spins without yielding, so on a single processor
  with strict priorities a thread can keep the holder of the flag from running.
  The assumption excludes this, and it is listed as a hazard: the library does
  not schedule.
- `recursive_mutex` adds `WF` of a nested lock by the owner, which waits for
  nobody.
- Signals: `FairSpec` keeps interrupts running and nobody else, so that
  `InterruptReturns` holds with tasks that stand still. `SettlesOnceResolved` is
  stated under `TasksRun`, with no fairness about who gets `_mutex`: before
  resolution a waiting task may lose for ever, which is why it starts from
  there.
- Nothing else is fair, and the other runs, `read_write_lock` among them, assume
  no fairness: its `Resolve()` is the text that `mutex` looks at. Providers need
  never be installed, calls need not come, and locks need not be released.

## 4. The proofs

| Theorem | For any | By |
|---|---|---|
| `ResolutionTypeCorrect`, `FactoryAskedOnce`, `SafePublication`, `OnePrimitiveForAll`, `ChoiceIsPermanent` | threads and primitives | `IInv`, `ResolvedStays` |
| `NobodyLeavesTheFlag`, `NoSecondResolution` | the same | `IInv` and `FlagHasItsThread` |
| `TypeCorrect`, `MutexExcludes`, `UnlockIsPaired`, `MutexImplementsLock` | threads and primitives | `IInv` and the mutex's own part |
| `TypeCorrect`, `RecursiveMutexExcludes`, `UnlockIsPaired`, `RecursiveMutexImplementsLock` | the same, and depths | `IInv`, `OwnerInv`, `CountInv` |
| `TypeCorrect`, `WriterExcludes`, `UnlockIsPaired`, `ReadWriteLockImplementsLock` | threads and primitives | `IInv`, `OwnerInv`, `AloneInv` |
| `TypeCorrect`, `SafePublication`, `OneSignalForAll`, `SignalImplementsContract` | tasks, interrupts and signals | `DInv` |
| `InterruptNeverWaits`, `MutexNeverLeftBehind`, `NoSecondSignal` | the same | `DInv` and `MutexHasItsTask` |
| `SlotsTypeCorrect`, `InstallationOrderIsSeen`, `ReplacementIsSeen` | threads, slots of each kind, providers, stores | `SlotsInv` |
| `MemoryTypeCorrect`, `NoLeak` | providers, owners, blocks, uses | `OwnInv` |
| `BlocksGoHome`, `QuietBlocksGoHome` | the same, if `Safe`; if `quiet` | `OwnInv` and `PairInv` |
| `RequestTypeCorrect`, `NoOverflow`, `RefusalIsJustified`, `ReleaseIsSymmetric` | width of `size_t`, types, policies | `RInv` |
| `ObjectTypeCorrect`, `TrueResultsLive`, `NoContextLost` | threads, platforms, numbers, variables | `CInv` |
| `SuccessIsWritten`, `NoHalfLine` | writers and calls | `BInv` |

Assumptions: the named `ASSUME`s of the modules only, which say that null, the
fallback and the marker of the store are none of the other values, that the
three kinds of slots are disjoint, that sizes and alignments are in the range of
`size_t`, and that `MaxStores` and `MaxCalls` are natural numbers: the results
are for each such bound, however large. In `BlocksGoHome` also `Safe`, that
`Uses` names smart pointers only, which is the condition under which the code is
right while providers are replaced under live blocks.

**LazyResolution.** None of the properties is inductive. That only one thread is
between `Recheck` and `Release` follows from the flag, but the flag alone does
not make the second one *see* what the first one stored. The invariant follows
the knowledge of that store: whoever has it in his view has the construction
too (`ConstructionInv`); the view that the flag carries has it whenever the flag
is free and `_resolved` is set (`HandOverInv`); so who takes the flag and is past
`Recheck` is the first (`ProgressInv`), has nothing to replace (`OwnedInv`), and
`_resolved` never changes again. Dropping `HandOverInv` is what a relaxed
`clear` would do to the argument.

**LazyMutex.** With one primitive for all, the holder of that primitive is the
only thread inside. What must be added is that a thread inside already knows of
the store: its `unlock()` cannot read null, so that it needs neither flag nor
provider. The refinement maps `Acquire` and `Unlock` to the abstract lock's steps
and all others to stutters.

**LazyRecursiveMutex, LazyReadWriteLock.** Their steps are steps of
`LazyResolution` with the rest unchanged (`NextResolves`), so that `IInv` holds
of them too. The levels of a thread are the count of the primitive in
`_resolved`, and no other primitive is ever held (`OwnerInv`, `CountInv`): with
two primitives the abstract levels could not be read off any of them. For the
read-write lock each reader is a sharer, the writer the owner, and no primitive
has both (`AloneInv`). Only types of the two wrappers are proved without a run.

**DeferredSignal.** The argument of `LazyResolution` does not carry over as it
stands, because a task may leave `_mutex` with nothing stored, and the next one
asks again. So `HandOverInv` speaks of behaviours in which something was stored,
and has a second disjunct: a signal that `CreateBinarySignal()` returned directly
is known to everybody although no unlock carries it. For the refinement the
state of the wrapper is `_initiallySet` before the store and the state of the one
signal after it; `StateInv` says that they agree at the moment of the store, and
`CallInv` that no task whose call began after that moment is refused. The store
is the abstract step by which the signal becomes available; the ends of the
methods are the abstract calls, and all else stutters.

**ProviderMemory.** Ownership is inductive block by block, with one addition: a
`PolymorphicUniquePtr` that has an object has a deleter with a provider, or its
block would be lost to the inert one. Pairing needs that the provider an owner
*would ask now* is the one its blocks came from (`PairInv`). This survives a
replacement if an owner with blocks is bound (`BlocksGoHome`), or if no block is
live (`QuietBlocksGoHome`); it breaks exactly where an unbound owner has blocks,
which `MakeShared` and the three uses of unbound containers bring about.

**BlockRequests.** The test divides and the size is a product; `SizeFits` proves
that the one is the test of the other, and `NoWrap` that the product is then
exact. The invariant (`Known`) says what was asked for, of which kind of owner,
and `ReturnsKnown` that each place of release computes just that; the two tests
of the alignment agree, and the cast back undoes the one to the base.

**CreatedObjects.** For what a `unique_ptr` owns, the invariant is that the
handles are the live objects, each in one variable (`OwnedInv`). A handle of a
context does not name its maker, and `ContextsKept` is not inductive: a
`Destroy()` on another platform may hit a context of the same number.
`OnePlatform` excludes this: as long as nothing was replaced, the platform in
the slot, those that calls in progress have loaded and the makers of the live
contexts are one, also while the slot is empty, when a call may still reach the
platform that it loaded before.

**ProviderSlots.** `InstalledInOrder` speaks of the newest store that a thread
knows of in each slot, and a step that moves a thread on in several slots at
once does not preserve it by itself. What is inductive is that all views are
*closed*, those of the threads and those that any store ever carried: a view
with a store in it has everything that its writer knew (`Closed`,
`StoresClosed`, `ViewsClosed`). Closed views join to closed views, since in each
slot the later of two stores is in one of them; a view stays closed when others
store, because a store is never changed; and a new store is known to its own
thread only, whose view it carries. An exchange joins what the replaced store
carries, which has its provider; that stays so because views only grow (`Grows`,
`ReplacedKept`), and it is why `Restore` is a store like the others. That the
stores are finitely many is part of the invariant: the bound is on the
cardinality of their set.

**ByteOutput.** The status of a call is that of its last `Write()` only. The
invariant says what a call in progress has written, unless a write was
shortened: the pieces before the one that is next, whole and in order, and
nothing else (`PrefixInv`); the call goes on only after a success, and other
writers cannot touch its pieces as each call has a number of its own
(`NumberInv`). For `NoHalfLine` also that, when callers take turns, the text of
a line in progress is the last thing in the output (`TurnInv`). A recursive
choice of the call's pieces from the output could not be reasoned about;
`Written` says instead that there is an increasing placement of the pieces.

**What is safety in the liveness properties.** Liveness itself is beyond the
proof system. Two things that it stands on are not. Nobody leaves a lock of the
library behind: the flag of `ResolutionGuard` and `_mutex` of a deferred signal
are taken exactly while a thread is in the scope of the guard object, whatever
the platform's factory does (`NobodyLeavesTheFlag`, `MutexNeverLeftBehind`), so
that who waits always waits for somebody. And the work under the lock is done
once: who gets it after the store only leaves (`NoSecondResolution`,
`NoSecondSignal`). `InterruptNeverWaits` is why `GiveFromInterrupt()` needs
nobody else to run. What is left to TLC is that a thread that keeps running
reaches the end of a scope, and that a waiter is not overtaken for ever.

TLC only: `ResolveTerminates`, `NestedLockReturns`,
`SettlesOnceResolved` and `InterruptReturns`, which are liveness under fairness.
All other properties of the passing runs are theorems.

## 5. What disagrees

- `MakeShared()` (Memory.hpp:250) hands `allocate_shared` an unbound allocator.
  The library allocates through a copy, which binds, and keeps an unbound one in
  the control block: a `SharedPtr` that outlives a replacement of the provider
  returns its block to the new provider. Run `memory_shared`. The map of a
  `Deque` and the buckets of `UnorderedSet::reserve()` are allocated through a
  temporary copy, and go astray in the same way if the provider is replaced
  before the container allocates its first node (`Uses <- {"rebound"}` shows
  it). The comment at Memory.hpp:131-132 says that the matching deallocation
  "always returns storage to the correct heap".
- `operator==` (167) compares an unbound allocator by the provider of the
  moment, so that an unbound container takes over blocks without being bound
  (`extract`/`insert`, `merge`, `Vector(Vector&&, allocator)`), and asks the
  slot again when it releases them. Run `memory_transfer`. Move assignment of a
  short `String` with an unbound allocator is the reverse: libstdc++ finds the
  allocators equal, keeps the target's buffer for the characters, and overwrites
  its bound allocator by the unbound one, as line 139 asks; after a replacement
  the buffer goes to the new provider (`Uses <- {"assign"}` shows it).
- `src/README.md:59`, `src/CHANGELOG.md:19` and `src/wiki/Memory-Policies.md:46`
  (and the provider contract of the wiki, under "Stable provider lifetime") say
  that allocators capture the provider at construction. They bind at the first
  allocation, as the remarks at Memory.hpp:129 say, so that the allocator that
  takes over blocks in `memory_transfer` is still unbound when it releases them.
- `WriteText()` (ByteStream.hpp:59) receives the number of bytes written in a
  local variable and drops it: a short write that the platform reports as a
  success becomes a success of `WriteText()`, and `WriteLine()` goes on to the
  terminator. Run `bytes_short`; `bytes` shows that success means written as
  long as no write is shortened.

## 6. What is not modelled

- `Suspend()` and `Resume()` of contexts, which take the route of `Destroy()`
  and change only the platform's state; `SleepMilliseconds()` and `Yield()`;
  queries.
- `SteadyMonotonicClock` (a reading of `std::chrono`), the null entropy source,
  the value of an affinity, which nothing in the repository decides on.
- The umbrella headers, and the interfaces without code of queues (send,
  receive), GPIO (pins, switching interrupts) and byte input.
- The reference count of `SharedPtr` (of the standard library): one owner stands
  for all copies.
- What platforms do with alignment and policy. The forwarding of
  `ConfigureAutomaticExternalPreference()`.
- The lifetime of providers: nothing in the code tracks it. A platform that
  destroys a provider while a thread is between loading and calling it is beyond
  every property here; listed as a hazard.
- Destruction of a wrapper while threads use it.

## 7. Plan

Done in this order, the most important first: lazy resolution, the three locks,
the deferred signal, memory, sizes, slots, created objects, byte output; then the
proofs of all of them. Left:

1. An abstract specification of a line output (a call appends its line at once)
   that `ByteOutput` implements when callers take turns, and of a heap that
   `ProviderMemory` implements under `Safe`.
2. Two readings of a clock or an entropy source with a replacement between them,
   once the documentation says what callers may rely on.
