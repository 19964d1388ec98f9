---------------------------- MODULE BlockRequests ----------------------------
(***************************************************************************)
(* How large a block is and how it is released                             *)
(* (src/src/ESPressio_Memory.hpp, src/src/ESPressio_PolymorphicMemory.hpp):*)
(* the sizes, alignments and policies that Allocator, MakeUnique() and     *)
(* MakePolymorphicUnique() pass to a memory provider, and what             *)
(* DefaultMemoryProvider makes of them.  Which provider it is, is the      *)
(* subject of ProviderMemory.                                              *)
(*                                                                         *)
(* Blocks have nothing to do with each other: there is one at a time.      *)
(***************************************************************************)
EXTENDS Integers

CONSTANTS
  SizeMax,        \* the largest std::size_t
  Sizes,          \* the values of sizeof
  Alignments,     \* the values of alignof
  NewAlignment,   \* __STDCPP_DEFAULT_NEW_ALIGNMENT__
  Policies,       \* memory policies
  None            \* no block, no owner

SizeT == 0..SizeMax
Types == {t \in [size : Sizes, alignment : Alignments] :
            t.size % t.alignment = 0}
Requests == [bytes : SizeT, alignment : Alignments, policy : Policies]

\* An owner has "count" objects of a "type".  A PolymorphicUniquePtr points to
\* their "base", which is "offset" bytes behind their beginning; the others
\* point to the beginning, and their base is their type.
Holders == [kind : {"container", "unique", "polymorphic"}, policy : Policies,
            type : Types, base : Types, offset : SizeT, count : SizeT]

Holder(kind, policy, type, base, offset, count) ==
  [kind |-> kind, policy |-> policy, type |-> type,
   base |-> base, offset |-> offset, count |-> count]

ASSUME RequestAssumption ==
  /\ SizeMax \in Nat \ {0}
  /\ Sizes \subseteq 1..SizeMax
  /\ Alignments \subseteq 1..SizeMax
  /\ None \notin Holders

VARIABLES
  owner,      \* what holds the block, with what it knows of it
  asked,      \* what the provider was asked for
  block,      \* what the default provider asked ::operator new for
  refused,    \* the bytes that allocate() last refused, 0 before
  symmetric   \* every release was the counterpart of its request (history)

requestVars == <<owner, asked, block, refused, symmetric>>

RequestInit ==
  /\ owner = None /\ asked = None /\ block = None
  /\ refused = 0
  /\ symmetric = TRUE

-----------------------------------------------------------------------------
(* The operators named ...Wrong are wrong variants, which the checks of    *)
(* the properties use.                                                     *)

\* The test of allocate(); wrong: one object too few, and no test.
TooManyWrong(count, type) == count >= SizeMax \div type.size
UntestedWrong(count, type) == FALSE
TooMany(count, type) == count > SizeMax \div type.size

\* The product of two std::size_t.
Bytes(count, type) == (count * type.size) % (SizeMax + 1)

\* What is passed to Allocate() and Deallocate(): by allocate() and deallocate()
\* for the count that a container remembers; wrong: the bytes are not computed.
ArrayRequest(o) ==
  [bytes |-> Bytes(o.count, o.type), alignment |-> o.type.alignment,
   policy |-> o.policy]

ArrayReturnWrong(o) ==
  [bytes |-> o.count, alignment |-> o.type.alignment, policy |-> o.policy]
ArrayReturn(o) ==
  [bytes |-> Bytes(o.count, o.type), alignment |-> o.type.alignment,
   policy |-> o.policy]

\* By MakeUnique(), by ObjectDeleter, and by MakeUnique() when the constructor
\* has thrown.
ObjectRequest(o) ==
  [bytes |-> o.type.size, alignment |-> o.type.alignment, policy |-> o.policy]

ObjectReturn(o) ==
  [bytes |-> o.type.size, alignment |-> o.type.alignment, policy |-> o.policy]

ObjectUnwound(o) ==
  [bytes |-> o.type.size, alignment |-> o.type.alignment, policy |-> o.policy]

\* By MakePolymorphicUnique(), by DestroyPolymorphicObject(), which knows the
\* derived type, and again when the constructor has thrown; wrong: of the type
\* that the pointer points to.
PolymorphicRequest(o) ==
  [bytes |-> o.type.size, alignment |-> o.type.alignment, policy |-> o.policy]

PolymorphicReturnWrong(o) ==
  [bytes |-> o.base.size, alignment |-> o.base.alignment, policy |-> o.policy]
PolymorphicReturn(o) ==
  [bytes |-> o.type.size, alignment |-> o.type.alignment, policy |-> o.policy]

PolymorphicUnwound(o) ==
  [bytes |-> o.type.size, alignment |-> o.type.alignment, policy |-> o.policy]

\* The pointer that a PolymorphicUniquePtr holds, and what becomes of it in
\* DestroyPolymorphicObject(), counted from the beginning of the block; wrong:
\* it is not cast back.
Upcast(o) == o.offset
DowncastWrong(o) == Upcast(o)
Downcast(o) == Upcast(o) - o.offset

\* DefaultMemoryProvider uses the aligned forms of new and delete for types
\* that the plain ones do not align, and never asks for no bytes; wrong: the
\* boundary of delete is another, and no bytes are asked for.
NewIsAligned(alignment) == alignment > NewAlignment
DeleteIsAlignedWrong(alignment) == alignment >= NewAlignment
DeleteIsAligned(alignment) == alignment > NewAlignment
NewBytesWrong(bytes) == bytes
NewBytes(bytes) == IF bytes = 0 THEN 1 ELSE bytes

Allocated(request) ==
  [bytes |-> NewBytes(request.bytes),
   aligned |-> NewIsAligned(request.alignment)]

\* The owner o gets its block.
Obtain(o, request) ==
  /\ owner = None /\ owner' = o
  /\ asked' = request
  /\ block' = Allocated(request)
  /\ UNCHANGED <<refused, symmetric>>

\* Allocator::allocate().
AllocateArray(o) ==
  /\ o.kind = "container"
  /\ ~TooMany(o.count, o.type)
  /\ Obtain(o, ArrayRequest(o))

\* allocate() throws std::bad_array_new_length.
Refuse(count, type) ==
  /\ owner = None
  /\ TooMany(count, type)
  /\ refused' = count * type.size
  /\ UNCHANGED <<owner, asked, block, symmetric>>

MakeUnique(o) ==
  /\ o.kind = "unique" /\ o.count = 1
  /\ Obtain(o, ObjectRequest(o))

\* The derived type contains its base.
MakePolymorphicUnique(o) ==
  /\ o.kind = "polymorphic" /\ o.count = 1
  /\ o.base.alignment <= o.type.alignment
  /\ o.offset + o.base.size <= o.type.size
  /\ o.offset % o.base.alignment = 0
  /\ Obtain(o, PolymorphicRequest(o))

\* Deallocate() for the owner.
Release(kind, request, address) ==
  /\ owner # None /\ owner.kind = kind
  /\ symmetric' =
       ( /\ symmetric
         /\ address = 0 /\ request = asked
         /\ DeleteIsAligned(request.alignment) = block.aligned )
  /\ owner' = None /\ asked' = None /\ block' = None
  /\ UNCHANGED refused

\* Allocator::deallocate().
DeallocateArray == Release("container", ArrayReturn(owner), 0)

\* ObjectDeleter.
DeleteObject == Release("unique", ObjectReturn(owner), 0)

DestroyPolymorphicObject ==
  Release("polymorphic", PolymorphicReturn(owner), Downcast(owner))

\* catch (...) of the makers.
ConstructorThrew ==
  \/ Release("unique", ObjectUnwound(owner), 0)
  \/ Release("polymorphic", PolymorphicUnwound(owner), 0)

RequestNext ==
  \/ \E type \in Types, policy \in Policies :
       \/ \E count \in SizeT :
            AllocateArray(Holder("container", policy, type, type, 0, count))
       \/ MakeUnique(Holder("unique", policy, type, type, 0, 1))
       \/ \E base \in Types, offset \in SizeT :
            MakePolymorphicUnique(
              Holder("polymorphic", policy, type, base, offset, 1))
  \/ \E count \in SizeT, type \in Types : Refuse(count, type)
  \/ DeallocateArray \/ DeleteObject \/ DestroyPolymorphicObject
  \/ ConstructorThrew

RequestSpec == RequestInit /\ [][RequestNext]_requestVars

-----------------------------------------------------------------------------
\* Every variable has its type, and no zero-sized block is allocated
\* (ESPressio_Memory.hpp:65).
RequestTypeOK ==
  /\ owner \in Holders \cup {None}
  /\ owner # None =>
       /\ asked \in Requests
       /\ block \in [bytes : 1..SizeMax, aligned : BOOLEAN]
  /\ refused \in Nat
  /\ symmetric \in BOOLEAN

\* A block holds all the objects that it was allocated for: the size of an
\* array never wraps around (ESPressio_Memory.hpp:152-154).
LargeEnough ==
  owner # None => block.bytes >= owner.count * owner.type.size

\* Only what does not fit into std::size_t is refused.
RefusedOnlyIfTooLarge == refused # 0 => refused > SizeMax

\* A block is released at its beginning, with the size, alignment and policy of
\* its request and by the form of delete that matches the form of new, at each
\* of the five places that release one (ESPressio_Memory.hpp:76, 160, 209, 235,
\* ESPressio_PolymorphicMemory.hpp:57-64, 112-117), also through a pointer to a
\* base class: "Allocation/deallocation symmetry" of
\* src/wiki/Memory-Provider-Contract.md.
SymmetricRelease == symmetric
=============================================================================
