--------------------------- MODULE ProviderMemory ---------------------------
(***************************************************************************)
(* Which memory provider gets a block back                                 *)
(* (src/src/ESPressio_Memory.hpp, src/src/ESPressio_PolymorphicMemory.hpp):*)
(* the provider slot, the lazily bound Allocator, and everything that owns *)
(* blocks: the containers, UniquePtr, PolymorphicUniquePtr and SharedPtr.  *)
(*                                                                         *)
(* An owner is a container or a smart pointer.  What a container of the    *)
(* standard library does with its allocator is external: it is modelled as *)
(* libstdc++ does it, by the steps that it is made of, to the extent that  *)
(* allocator binding shows; which steps a container takes is left open.    *)
(* Sizes, alignments and policies travel with the type and are left out.   *)
(***************************************************************************)
CONSTANTS
  Providers,        \* memory providers that are ever installed
  DefaultProvider,  \* the DefaultMemoryProvider
  Owners,
  Blocks,           \* blocks of memory
  Null,             \* the null pointer
  Uses              \* what the application does, beside the plain use of
                    \* containers, also when providers are replaced while
                    \* blocks are live

ASSUME MemoryAssumption ==
  /\ DefaultProvider \in Providers
  /\ Null \notin Providers
  /\ Uses \subseteq {"unique", "polymorphic", "shared",
                     "rebound", "transfer", "assign"}

VARIABLES
  quiet,      \* providers are replaced only while no block is live; chosen
              \* at the start and kept
  current,    \* ProviderSlot()
  kind,       \* what each owner is, "none" if it does not exist
  building,   \* the smart pointers whose object's constructor is running
  bound,      \* _provider of each owner's allocator or deleter
  store,      \* the blocks each owner owns
  origin,     \* the provider that allocated each block, Null if it is free
  mispaired   \* some block went back to another provider (history)

vars == <<quiet, current, kind, building, bound, store, origin, mispaired>>

Kinds == {"container", "unique", "polymorphic", "shared"}

Init ==
  /\ quiet \in BOOLEAN
  /\ current = DefaultProvider
  /\ kind = [o \in Owners |-> "none"]
  /\ building = {}
  /\ bound = [o \in Owners |-> Null]
  /\ store = [o \in Owners |-> {}]
  /\ origin = [b \in Blocks |-> Null]
  /\ mispaired = FALSE

Live == {b \in Blocks : origin[b] # Null}
Ready(o) == kind[o] # "none" /\ o \notin building

\* Where replacements are quiet, the application does everything.
May(use) == use \in Uses \/ quiet

\* What may leave blocks with an allocator that is not bound: harmless with
\* one that is, and else a use of its own.
MayWith(provider, use) == provider # Null \/ May(use)

-----------------------------------------------------------------------------
(* The slot.                                                               *)

\* SetProvider(), where null stands for the default provider.
SetProvider(argument) ==
  /\ quiet => Live = {}
  /\ current' = IF argument = Null THEN DefaultProvider ELSE argument
  /\ UNCHANGED <<quiet, kind, building, bound, store, origin, mispaired>>

ResetProvider == SetProvider(DefaultProvider)

-----------------------------------------------------------------------------
(* The allocator.  The operators named ...Wrong are wrong variants, which  *)
(* the checks of the properties use.                                       *)

\* Provider(): the effective provider.
Effective(o) == IF bound[o] # Null THEN bound[o] ELSE current

\* operator==; wrong: allocators that are all equal.
EqualWrong(o, p) == TRUE
Equal(o, p) == Effective(o) = Effective(p)

\* BindProvider(): what _provider is after it; wrong: it is not kept.
BindWrong(o) == bound[o]
Bind(o) == Effective(o)

\* IMemoryProvider::Allocate() of provider p, for owner o.
AllocateFrom(p, o, b) ==
  /\ b \notin Live
  /\ origin' = [origin EXCEPT ![b] = p]
  /\ store' = [store EXCEPT ![o] = @ \cup {b}]
  /\ UNCHANGED mispaired

\* IMemoryProvider::Deallocate() of provider p.
DeallocateTo(p, blocks) ==
  /\ origin' = [b \in Blocks |-> IF b \in blocks THEN Null ELSE origin[b]]
  /\ mispaired' = (mispaired \/ \E b \in blocks : origin[b] # p)

\* A container is constructed: with an allocator of its own, with one that
\* names a provider, or with a copy of another container's allocator.
Construct(o, p) ==
  /\ kind[o] = "none"
  /\ kind' = [kind EXCEPT ![o] = "container"]
  /\ bound' = [bound EXCEPT ![o] = p]
  /\ UNCHANGED <<quiet, current, building, store, origin, mispaired>>

\* A container allocates through the allocator it holds.
Allocate(o, b) ==
  /\ kind[o] = "container"
  /\ AllocateFrom(Effective(o), o, b)
  /\ bound' = [bound EXCEPT ![o] = Bind(o)]
  /\ UNCHANGED <<quiet, current, kind, building>>

\* The provider has no memory and throws: allocate() has bound already.
AllocateThrew(o) ==
  /\ kind[o] = "container"
  /\ bound' = [bound EXCEPT ![o] = Bind(o)]
  /\ UNCHANGED <<quiet, current, kind, building, store, origin, mispaired>>

\* Deque allocates its map, UnorderedSet and UnorderedMap their buckets through
\* a temporary copy of the allocator they hold: it is the copy that gets bound.
\* The one they hold is bound with the first node, until when another thread
\* may replace the provider; after reserve() that may be never.
AllocateRebound(o, b) ==
  /\ kind[o] = "container"
  /\ MayWith(bound[o], "rebound")
  /\ AllocateFrom(Effective(o), o, b)
  /\ UNCHANGED <<quiet, current, kind, building, bound>>

\* A container gives up some of its blocks.
Deallocate(o, b) ==
  /\ kind[o] = "container"
  /\ b \in store[o]
  /\ DeallocateTo(Effective(o), {b})
  /\ store' = [store EXCEPT ![o] = @ \ {b}]
  /\ UNCHANGED <<quiet, current, kind, building, bound>>

\* Blocks change hands between containers whose allocators compare equal:
\* Set and Map merge() and insert() of an extracted node, the constructors of
\* Vector and String from another one and an allocator.
Transfer(o, p, b) ==
  /\ o # p /\ kind[o] = "container" /\ kind[p] = "container"
  /\ MayWith(bound[o], "transfer")
  /\ Equal(o, p)
  /\ b \in store[p]
  /\ store' = [store EXCEPT ![o] = @ \cup {b}, ![p] = @ \ {b}]
  /\ UNCHANGED <<quiet, current, kind, building, bound, origin, mispaired>>

\* Move assignment of a short String p, which has no block: with allocators
\* that compare equal, o keeps its buffer for the characters and takes over
\* the allocator of p all the same.
AssignShort(o, p) ==
  /\ o # p /\ kind[o] = "container" /\ kind[p] = "container"
  /\ MayWith(bound[p], "assign")
  /\ Equal(o, p)
  /\ store[p] = {}
  /\ bound' = [bound EXCEPT ![o] = bound[p]]
  /\ UNCHANGED <<quiet, current, kind, building, store, origin, mispaired>>

-----------------------------------------------------------------------------
(* MakeUnique(), MakePolymorphicUnique() and MakeShared().                 *)

\* They take the block from the current provider and run the constructor of
\* the object, which takes its time.
Make(o, k, b) ==
  /\ k # "container" /\ May(k)
  /\ kind[o] = "none"
  /\ AllocateFrom(current, o, b)
  /\ kind' = [kind EXCEPT ![o] = k]
  /\ bound' = [bound EXCEPT ![o] = current]
  /\ building' = building \cup {o}
  /\ UNCHANGED <<quiet, current>>

\* A smart pointer without an object.  ObjectDeleter() has the provider of the
\* moment, PolymorphicObjectDeleter() is inert: it has none.
MakeEmpty(o, k) ==
  /\ k # "container" /\ May(k)
  /\ kind[o] = "none"
  /\ kind' = [kind EXCEPT ![o] = k]
  /\ bound' = [bound EXCEPT ![o] = IF k = "unique" THEN current ELSE Null]
  /\ UNCHANGED <<quiet, current, building, store, origin, mispaired>>

\* The provider that the smart pointer remembers: of its deleter, the one in
\* the local "provider"; of a SharedPtr's control block, that of the copy of
\* the allocator that MakeShared() made and never used itself.
Remembered(o) == IF kind[o] = "shared" THEN Null ELSE bound[o]

Made(o) ==
  /\ o \in building
  /\ building' = building \ {o}
  /\ bound' = [bound EXCEPT ![o] = Remembered(o)]
  /\ UNCHANGED <<quiet, current, kind, store, origin, mispaired>>

\* The owner ends and owns nothing any more; wrong: it keeps its pointer.
ForgetWrong(o) ==
  /\ kind' = [kind EXCEPT ![o] = "none"]
  /\ bound' = [bound EXCEPT ![o] = Null]
  /\ building' = building \ {o}
  /\ UNCHANGED <<quiet, current, store>>

Forget(o) ==
  /\ kind' = [kind EXCEPT ![o] = "none"]
  /\ bound' = [bound EXCEPT ![o] = Null]
  /\ store' = [store EXCEPT ![o] = {}]
  /\ building' = building \ {o}
  /\ UNCHANGED <<quiet, current>>

\* The constructor threw: catch (...) returns the block; wrong: it does not.
MakeThrewWrong(o) ==
  /\ o \in building
  /\ Forget(o)
  /\ UNCHANGED <<origin, mispaired>>

MakeThrew(o) ==
  /\ o \in building
  /\ Forget(o)
  /\ DeallocateTo(bound[o], store[o])

-----------------------------------------------------------------------------
(* What all owners do.                                                     *)

\* An owner gives up its blocks.  The deleter of a PolymorphicUniquePtr does
\* nothing without a provider.
GiveUp(o) ==
  IF kind[o] = "polymorphic" /\ bound[o] = Null
  THEN UNCHANGED <<origin, mispaired>>
  ELSE DeallocateTo(Effective(o), store[o])

\* The destructor of an owner.
Destroy(o) ==
  /\ Ready(o)
  /\ Forget(o)
  /\ GiveUp(o)

\* reset() of a smart pointer: a unique_ptr keeps its deleter.
Clear(o) ==
  /\ Ready(o) /\ kind[o] # "container"
  /\ GiveUp(o)
  /\ store' = [store EXCEPT ![o] = {}]
  /\ UNCHANGED <<quiet, current, kind, building, bound>>

\* Move construction of o from p, and move assignment: o gives up what it has
\* and takes over the blocks of p with its allocator or deleter.  So do Vector,
\* Set, Map, the unordered ones, a String unless AssignShort() describes it,
\* and the smart pointers.  A Deque always keeps a map and a node: it moves by
\* Construct, Allocate and Swap.
MoveFrom(o, p) ==
  /\ o # p /\ Ready(p)
  /\ kind[o] \in {"none", kind[p]} /\ o \notin building
  /\ GiveUp(o)
  /\ kind' = [kind EXCEPT ![o] = kind[p]]
  /\ bound' = [bound EXCEPT ![o] = bound[p]]
  /\ store' = [store EXCEPT ![o] = store[p], ![p] = {}]
  /\ UNCHANGED <<quiet, current, building>>

\* swap(), which swaps allocators and deleters too.
Swap(o, p) ==
  /\ o # p /\ Ready(o) /\ Ready(p) /\ kind[o] = kind[p]
  /\ bound' = [bound EXCEPT ![o] = bound[p], ![p] = bound[o]]
  /\ store' = [store EXCEPT ![o] = store[p], ![p] = store[o]]
  /\ UNCHANGED <<quiet, current, kind, building, origin, mispaired>>

Next ==
  \/ \E p \in Providers \cup {Null} : SetProvider(p)
  \/ ResetProvider
  \/ \E o \in Owners :
       \/ \E p \in Providers \cup {Null} : Construct(o, p)
       \/ \E b \in Blocks :
            \/ Allocate(o, b) \/ AllocateRebound(o, b) \/ Deallocate(o, b)
            \/ \E k \in Kinds : Make(o, k, b)
            \/ \E p \in Owners : Transfer(o, p, b)
       \/ \E k \in Kinds : MakeEmpty(o, k)
       \/ AllocateThrew(o) \/ Made(o) \/ MakeThrew(o)
       \/ Destroy(o) \/ Clear(o)
       \/ \E p \in Owners : MoveFrom(o, p) \/ Swap(o, p) \/ AssignShort(o, p)

Spec == Init /\ [][Next]_vars

-----------------------------------------------------------------------------
\* Every variable has its type, and only existing owners own blocks.
TypeOK ==
  /\ quiet \in BOOLEAN
  /\ current \in Providers
  /\ kind \in [Owners -> Kinds \cup {"none"}]
  /\ building \in SUBSET Owners
  /\ bound \in [Owners -> Providers \cup {Null}]
  /\ store \in [Owners -> SUBSET Blocks]
  /\ origin \in [Blocks -> Providers \cup {Null}]
  /\ mispaired \in BOOLEAN
  /\ \A o \in Owners : kind[o] = "none" => o \notin building /\ store[o] = {}

\* Every block goes back to the provider it came from, however often the
\* provider was replaced in between and however the block changed hands
\* (ESPressio_Memory.hpp:131-132): for the uses in Uses, and wherever a
\* provider is replaced only when no block is live.
PairedDeallocation == ~mispaired

\* No block leaks, also when a constructor throws (ESPressio_Memory.hpp:234,
\* ESPressio_PolymorphicMemory.hpp:111), and none is owned twice.
EveryBlockOwnedOnce ==
  /\ Live = UNION {store[o] : o \in Owners}
  /\ \A o, p \in Owners : o # p => store[o] \cap store[p] = {}
=============================================================================
