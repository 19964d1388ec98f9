---------------------------- MODULE MemoryProofs ----------------------------
(***************************************************************************)
(* Proofs about ProviderMemory, for any providers, owners and blocks, and  *)
(* about BlockRequests, for any width of std::size_t, any types and any    *)
(* policies.  The two have no name in common, and no theorem is about both.*)
(*                                                                         *)
(* Ownership holds whatever the application does.  Pairing holds if, where *)
(* providers are replaced while blocks are live, it does not use what      *)
(* finds the provider again by asking the slot: then the provider that an  *)
(* owner will ask is at every moment the one its blocks came from.         *)
(*                                                                         *)
(* The size of an array cannot wrap around behind the test of allocate(),  *)
(* and it does wrap around, or rather would, whenever the test refuses;    *)
(* what an owner knows is always what it asked for.                        *)
(***************************************************************************)
EXTENDS ProviderMemory, BlockRequests, TLAPS

\* What the application may do while it replaces providers under live blocks.
Safe == Uses \subseteq {"unique", "polymorphic"}

\* EveryBlockOwnedOnce, block by block, and that the deleter of a
\* PolymorphicUniquePtr with an object is not the inert one.
OwnInv ==
  /\ \A b \in Blocks : origin[b] # Null <=> \E o \in Owners : b \in store[o]
  /\ \A o, p \in Owners : o # p => store[o] \cap store[p] = {}
  /\ \A o \in Owners :
       kind[o] = "polymorphic" /\ store[o] # {} => bound[o] # Null

\* The provider that an owner will ask is the one its blocks came from; it is
\* the one in the slot only if the slot cannot change.
PairInv ==
  /\ ~mispaired
  /\ \A o \in Owners : \A b \in store[o] : origin[b] = Effective(o)
  /\ \A o \in Owners : store[o] # {} => quiet \/ bound[o] # Null
  /\ \A o \in Owners : kind[o] \in Uses \cup {"container", "none"} \/ quiet
  /\ \A o \in building :
       /\ kind[o] # "container" /\ bound[o] # Null
       /\ quiet => bound[o] = current /\ store[o] # {}

-----------------------------------------------------------------------------
LEMMA InitMemory == Init => TypeOK /\ OwnInv /\ PairInv
BY MemoryAssumption DEF Init, TypeOK, OwnInv, PairInv, Kinds

LEMMA TypeStep ==
  TypeOK /\ [Next]_vars => TypeOK'
<1> SUFFICES ASSUME TypeOK, [Next]_vars PROVE TypeOK'
  OBVIOUS
<1> USE MemoryAssumption DEF TypeOK, Kinds, Effective, May, MayWith, GiveUp
<1>1. ASSUME NEW p \in Providers \cup {Null}, SetProvider(p)
      PROVE  TypeOK'
  BY <1>1 DEF SetProvider
<1>2. ASSUME NEW o \in Owners, NEW p \in Providers \cup {Null}, Construct(o, p)
      PROVE  TypeOK'
  BY <1>2 DEF Construct
<1>3. ASSUME NEW o \in Owners, NEW b \in Blocks, Allocate(o, b)
      PROVE  TypeOK'
  BY <1>3 DEF Allocate, AllocateFrom, Bind
<1>4. ASSUME NEW o \in Owners, NEW b \in Blocks, AllocateRebound(o, b)
      PROVE  TypeOK'
  BY <1>4 DEF AllocateRebound, AllocateFrom
<1>5. ASSUME NEW o \in Owners, NEW b \in Blocks, Deallocate(o, b)
      PROVE  TypeOK'
  BY <1>5 DEF Deallocate, DeallocateTo
<1>6. ASSUME NEW o \in Owners, NEW k \in Kinds, NEW b \in Blocks, Make(o, k, b)
      PROVE  TypeOK'
  BY <1>6 DEF Make, AllocateFrom
<1>7. ASSUME NEW o \in Owners, NEW p \in Owners, NEW b \in Blocks,
             Transfer(o, p, b)
      PROVE  TypeOK'
  BY <1>7 DEF Transfer, Equal
<1>8. ASSUME NEW o \in Owners, Made(o)
      PROVE  TypeOK'
  BY <1>8 DEF Made, Remembered
<1>9. ASSUME NEW o \in Owners, MakeThrew(o)
      PROVE  TypeOK'
  BY <1>9 DEF MakeThrew, Forget, DeallocateTo
<1>10. ASSUME NEW o \in Owners, Destroy(o)
      PROVE  TypeOK'
  BY <1>10 DEF Destroy, Forget, DeallocateTo, Ready
<1>11. ASSUME NEW o \in Owners, NEW p \in Owners, MoveFrom(o, p)
      PROVE  TypeOK'
  BY <1>11 DEF MoveFrom, DeallocateTo, Ready
<1>12. ASSUME NEW o \in Owners, NEW p \in Owners, Swap(o, p)
      PROVE  TypeOK'
  BY <1>12 DEF Swap, Ready
<1>13. ASSUME NEW o \in Owners, AllocateThrew(o)
      PROVE  TypeOK'
  BY <1>13 DEF AllocateThrew, Bind
<1>14. ASSUME NEW o \in Owners, NEW k \in Kinds, MakeEmpty(o, k)
      PROVE  TypeOK'
  BY <1>14 DEF MakeEmpty
<1>15. ASSUME NEW o \in Owners, Clear(o)
      PROVE  TypeOK'
  BY <1>15 DEF Clear, DeallocateTo, Ready
<1>16. ASSUME NEW o \in Owners, NEW p \in Owners, AssignShort(o, p)
      PROVE  TypeOK'
  BY <1>16 DEF AssignShort, Equal
<1>17. CASE UNCHANGED vars
  BY <1>17 DEF vars
<1> QED
  BY <1>1, <1>2, <1>3, <1>4, <1>5, <1>6, <1>7, <1>8, <1>9, <1>10, <1>11, <1>12,
     <1>13, <1>14, <1>15, <1>16, <1>17
  DEF Next, ResetProvider

LEMMA OwnStep ==
  TypeOK /\ OwnInv /\ [Next]_vars => OwnInv'
<1> SUFFICES ASSUME TypeOK, OwnInv, [Next]_vars PROVE OwnInv'
  OBVIOUS
<1> USE MemoryAssumption
    DEF TypeOK, OwnInv, Live, Kinds, Effective, May, MayWith, GiveUp
<1>1. ASSUME NEW p \in Providers \cup {Null}, SetProvider(p)
      PROVE  OwnInv'
  BY <1>1 DEF SetProvider
<1>2. ASSUME NEW o \in Owners, NEW p \in Providers \cup {Null}, Construct(o, p)
      PROVE  OwnInv'
  BY <1>2 DEF Construct
<1>3. ASSUME NEW o \in Owners, NEW b \in Blocks, Allocate(o, b)
      PROVE  OwnInv'
  BY <1>3 DEF Allocate, AllocateFrom, Bind
<1>4. ASSUME NEW o \in Owners, NEW b \in Blocks, AllocateRebound(o, b)
      PROVE  OwnInv'
  BY <1>4 DEF AllocateRebound, AllocateFrom
<1>5. ASSUME NEW o \in Owners, NEW b \in Blocks, Deallocate(o, b)
      PROVE  OwnInv'
  BY <1>5 DEF Deallocate, DeallocateTo
<1>6. ASSUME NEW o \in Owners, NEW k \in Kinds, NEW b \in Blocks, Make(o, k, b)
      PROVE  OwnInv'
  BY <1>6 DEF Make, AllocateFrom
<1>7. ASSUME NEW o \in Owners, NEW p \in Owners, NEW b \in Blocks,
             Transfer(o, p, b)
      PROVE  OwnInv'
  BY <1>7 DEF Transfer, Equal
<1>8. ASSUME NEW o \in Owners, Made(o)
      PROVE  OwnInv'
  BY <1>8 DEF Made, Remembered
<1>9. ASSUME NEW o \in Owners, MakeThrew(o)
      PROVE  OwnInv'
  BY <1>9 DEF MakeThrew, Forget, DeallocateTo
<1>10. ASSUME NEW o \in Owners, Destroy(o)
      PROVE  OwnInv'
  BY <1>10 DEF Destroy, Forget, DeallocateTo, Ready
<1>11. ASSUME NEW o \in Owners, NEW p \in Owners, MoveFrom(o, p)
      PROVE  OwnInv'
  BY <1>11 DEF MoveFrom, DeallocateTo, Ready
<1>12. ASSUME NEW o \in Owners, NEW p \in Owners, Swap(o, p)
      PROVE  OwnInv'
  BY <1>12 DEF Swap, Ready
<1>13. ASSUME NEW o \in Owners, AllocateThrew(o)
      PROVE  OwnInv'
  BY <1>13 DEF AllocateThrew, Bind
<1>14. ASSUME NEW o \in Owners, NEW k \in Kinds, MakeEmpty(o, k)
      PROVE  OwnInv'
  BY <1>14 DEF MakeEmpty
<1>15. ASSUME NEW o \in Owners, Clear(o)
      PROVE  OwnInv'
  BY <1>15 DEF Clear, DeallocateTo, Ready
<1>16. ASSUME NEW o \in Owners, NEW p \in Owners, AssignShort(o, p)
      PROVE  OwnInv'
  BY <1>16 DEF AssignShort, Equal
<1>17. CASE UNCHANGED vars
  BY <1>17 DEF vars
<1> QED
  BY <1>1, <1>2, <1>3, <1>4, <1>5, <1>6, <1>7, <1>8, <1>9, <1>10, <1>11, <1>12,
     <1>13, <1>14, <1>15, <1>16, <1>17
  DEF Next, ResetProvider

LEMMA PairStep ==
  (Safe \/ quiet) /\ TypeOK /\ OwnInv /\ PairInv /\ [Next]_vars => PairInv'
<1> SUFFICES ASSUME Safe \/ quiet, TypeOK, OwnInv, PairInv, [Next]_vars
             PROVE  PairInv'
  OBVIOUS
<1> USE MemoryAssumption
    DEF Safe, TypeOK, OwnInv, PairInv, Live, Kinds, Effective, May, MayWith,
        GiveUp
<1>1. ASSUME NEW p \in Providers \cup {Null}, SetProvider(p)
      PROVE  PairInv'
  BY <1>1 DEF SetProvider
<1>2. ASSUME NEW o \in Owners, NEW p \in Providers \cup {Null}, Construct(o, p)
      PROVE  PairInv'
  BY <1>2 DEF Construct
<1>3. ASSUME NEW o \in Owners, NEW b \in Blocks, Allocate(o, b)
      PROVE  PairInv'
  BY <1>3 DEF Allocate, AllocateFrom, Bind
<1>4. ASSUME NEW o \in Owners, NEW b \in Blocks, AllocateRebound(o, b)
      PROVE  PairInv'
  BY <1>4 DEF AllocateRebound, AllocateFrom
<1>5. ASSUME NEW o \in Owners, NEW b \in Blocks, Deallocate(o, b)
      PROVE  PairInv'
  BY <1>5 DEF Deallocate, DeallocateTo
<1>6. ASSUME NEW o \in Owners, NEW k \in Kinds, NEW b \in Blocks, Make(o, k, b)
      PROVE  PairInv'
  BY <1>6 DEF Make, AllocateFrom
<1>7. ASSUME NEW o \in Owners, NEW p \in Owners, NEW b \in Blocks,
             Transfer(o, p, b)
      PROVE  PairInv'
  BY <1>7 DEF Transfer, Equal
<1>8. ASSUME NEW o \in Owners, Made(o)
      PROVE  PairInv'
  BY <1>8 DEF Made, Remembered
<1>9. ASSUME NEW o \in Owners, MakeThrew(o)
      PROVE  PairInv'
  BY <1>9 DEF MakeThrew, Forget, DeallocateTo
<1>10. ASSUME NEW o \in Owners, Destroy(o)
      PROVE  PairInv'
  BY <1>10 DEF Destroy, Forget, DeallocateTo, Ready
<1>11. ASSUME NEW o \in Owners, NEW p \in Owners, MoveFrom(o, p)
      PROVE  PairInv'
  BY <1>11 DEF MoveFrom, DeallocateTo, Ready
<1>12. ASSUME NEW o \in Owners, NEW p \in Owners, Swap(o, p)
      PROVE  PairInv'
  BY <1>12 DEF Swap, Ready
<1>13. ASSUME NEW o \in Owners, AllocateThrew(o)
      PROVE  PairInv'
  BY <1>13 DEF AllocateThrew, Bind
<1>14. ASSUME NEW o \in Owners, NEW k \in Kinds, MakeEmpty(o, k)
      PROVE  PairInv'
  BY <1>14 DEF MakeEmpty
<1>15. ASSUME NEW o \in Owners, Clear(o)
      PROVE  PairInv'
  BY <1>15 DEF Clear, DeallocateTo, Ready
<1>16. ASSUME NEW o \in Owners, NEW p \in Owners, AssignShort(o, p)
      PROVE  PairInv'
  BY <1>16 DEF AssignShort, Equal
<1>17. CASE UNCHANGED vars
  BY <1>17 DEF vars
<1> QED
  BY <1>1, <1>2, <1>3, <1>4, <1>5, <1>6, <1>7, <1>8, <1>9, <1>10, <1>11, <1>12,
     <1>13, <1>14, <1>15, <1>16, <1>17
  DEF Next, ResetProvider

-----------------------------------------------------------------------------
LEMMA OwnInvariant == Spec => [](TypeOK /\ OwnInv)
BY InitMemory, TypeStep, OwnStep, PTL DEF Spec

LEMMA QuietKept == [Next]_vars => quiet' = quiet
BY DEF Next, vars, SetProvider, ResetProvider, Construct, Allocate,
       AllocateThrew, AllocateRebound, Deallocate, Transfer, AssignShort, Make,
       MakeEmpty, Made, MakeThrew, Forget, Destroy, Clear, MoveFrom, Swap

LEMMA PairInvariant ==
  Spec => [](TypeOK /\ OwnInv /\ (Safe \/ quiet => PairInv))
<1> DEFINE PInv == Safe \/ quiet => PairInv
<1>1. Init => TypeOK /\ OwnInv /\ PInv
  BY InitMemory
<1>2. TypeOK /\ OwnInv /\ PInv /\ [Next]_vars => (TypeOK /\ OwnInv /\ PInv)'
  <2> SUFFICES ASSUME TypeOK, OwnInv, PInv, [Next]_vars
               PROVE  TypeOK' /\ OwnInv' /\ PInv'
    OBVIOUS
  <2>1. TypeOK' /\ OwnInv'
    BY TypeStep, OwnStep
  <2>2. ASSUME Safe \/ quiet' PROVE PairInv'
    <3>1. Safe \/ quiet
      BY <2>2, QuietKept
    <3>2. PairInv
      BY <3>1
    <3> QED BY <3>1, <3>2, PairStep
  <2>3. PInv'
    BY <2>2 DEF Safe
  <2> QED BY <2>1, <2>3
<1> QED BY <1>1, <1>2, PTL DEF Spec

\* The variables keep their types, and only existing owners own blocks.
THEOREM MemoryTypeCorrect == Spec => []TypeOK
BY OwnInvariant, PTL

\* No block leaks and none has two owners.
THEOREM NoLeak == Spec => []EveryBlockOwnedOnce
<1>1. TypeOK /\ OwnInv => EveryBlockOwnedOnce
  BY DEF TypeOK, OwnInv, EveryBlockOwnedOnce, Live
<1> QED BY <1>1, OwnInvariant, PTL

\* Every block goes back to the provider it came from, if the application does
\* only what is safe while it replaces providers under live blocks.
THEOREM BlocksGoHome == Safe => (Spec => []PairedDeallocation)
<1> SUFFICES ASSUME Safe PROVE Spec => []PairedDeallocation
  OBVIOUS
<1>1. (Safe \/ quiet => PairInv) => PairedDeallocation
  BY DEF PairInv, PairedDeallocation
<1> QED BY <1>1, PairInvariant, PTL

\* Whatever it does, every block goes back if providers are replaced only while
\* no block is live.
THEOREM QuietBlocksGoHome == Spec => [](quiet => PairedDeallocation)
<1>1. (Safe \/ quiet => PairInv) => (quiet => PairedDeallocation)
  BY DEF PairInv, PairedDeallocation
<1> QED BY <1>1, PairInvariant, PTL

-----------------------------------------------------------------------------
(* BlockRequests.                                                          *)

\* What an owner knows of its block.
Known(o) ==
  [bytes |-> o.count * o.type.size, alignment |-> o.type.alignment,
   policy |-> o.policy]

\* It is what was asked for.
KnownInv ==
  owner # None =>
    /\ owner.count * owner.type.size <= SizeMax
    /\ owner.kind # "container" => owner.count = 1
    /\ asked = Known(owner)
    /\ block = Allocated(asked)

RInv == RequestTypeOK /\ KnownInv /\ RefusedOnlyIfTooLarge /\ SymmetricRelease

\* The test of allocate(), SizeMax / sizeof, is the test of the product.
LEMMA Quotient ==
  ASSUME NEW m \in Nat, NEW s \in Nat \ {0}
  PROVE  m \div s \in Nat /\ (m \div s) * s <= m /\ m < (m \div s + 1) * s
OBVIOUS

LEMMA Monotone ==
  ASSUME NEW a \in Nat, NEW b \in Nat, NEW s \in Nat, a <= b
  PROVE  a * s <= b * s
OBVIOUS

LEMMA SizeFits ==
  ASSUME NEW type \in Types, NEW count \in SizeT
  PROVE  /\ type.size \in 1..SizeMax
         /\ count * type.size \in Nat
         /\ TooMany(count, type) <=> count * type.size > SizeMax
<1>1. type.size \in 1..SizeMax
  BY RequestAssumption DEF Types
<1> DEFINE s == type.size  q == SizeMax \div s
<1> HIDE DEF s
<1>2. s \in Nat \ {0} /\ SizeMax \in Nat /\ count \in Nat
  BY <1>1, RequestAssumption DEF s, SizeT
<1>3. q \in Nat /\ q * s <= SizeMax /\ SizeMax < (q + 1) * s
  BY <1>2, Quotient
<1> HIDE DEF q
<1>4. count * s \in Nat
  BY <1>2
<1>5. ASSUME count <= q PROVE count * s <= SizeMax
  <2>1. count * s <= q * s
    BY <1>2, <1>3, <1>5, Monotone
  <2> QED BY <1>2, <1>3, <1>4, <2>1
<1>6. ASSUME count > q PROVE count * s > SizeMax
  <2>1. q + 1 <= count /\ q + 1 \in Nat
    BY <1>2, <1>3, <1>6
  <2>2. (q + 1) * s <= count * s
    BY <1>2, <2>1, Monotone
  <2> QED BY <1>2, <1>3, <1>4, <2>1, <2>2
<1>7. count > q <=> count * s > SizeMax
  BY <1>2, <1>3, <1>4, <1>5, <1>6
<1> QED BY <1>1, <1>4, <1>7 DEF s, q, TooMany

LEMMA NoWrap ==
  ASSUME NEW type \in Types, NEW count \in SizeT, count * type.size <= SizeMax
  PROVE  Bytes(count, type) = count * type.size
<1>1. \A n \in 0..SizeMax : n % (SizeMax + 1) = n
  BY RequestAssumption
<1> QED BY <1>1, SizeFits, RequestAssumption DEF Bytes

-----------------------------------------------------------------------------
LEMMA HolderType ==
  ASSUME NEW o \in Holders
  PROVE  /\ o.type \in Types /\ o.count \in SizeT /\ o.policy \in Policies
         /\ o.offset \in SizeT /\ o.type.size \in 1..SizeMax
         /\ o.count = 1 => o.count * o.type.size = o.type.size
<1>1. o.type \in Types /\ o.count \in SizeT /\ o.policy \in Policies
      /\ o.offset \in SizeT
  BY DEF Holders
<1>2. o.type.size \in 1..SizeMax
  BY <1>1, SizeFits
<1>3. \A n \in 1..SizeMax : 1 * n = n
  BY RequestAssumption
<1> QED BY <1>1, <1>2, <1>3

\* Every site that asks for a block asks for what its owner will know.
LEMMA RequestsKnown ==
  ASSUME NEW o \in Holders, o.count * o.type.size <= SizeMax
  PROVE  /\ ArrayRequest(o) = Known(o)
         /\ o.count = 1 => ObjectRequest(o) = Known(o)
         /\ o.count = 1 => PolymorphicRequest(o) = Known(o)
<1>1. Bytes(o.count, o.type) = o.count * o.type.size
  BY HolderType, NoWrap
<1> QED
  BY <1>1, HolderType
  DEF ArrayRequest, ObjectRequest, PolymorphicRequest, Known

\* Every site that releases one says what its owner knows.
LEMMA ReturnsKnown ==
  ASSUME NEW o \in Holders, o.count * o.type.size <= SizeMax
  PROVE  /\ ArrayReturn(o) = Known(o)
         /\ o.count = 1 => ObjectReturn(o) = Known(o)
         /\ o.count = 1 => ObjectUnwound(o) = Known(o)
         /\ o.count = 1 => PolymorphicReturn(o) = Known(o)
         /\ o.count = 1 => PolymorphicUnwound(o) = Known(o)
         /\ Downcast(o) = 0
<1>1. Bytes(o.count, o.type) = o.count * o.type.size
  BY HolderType, NoWrap
<1>2. Downcast(o) = 0
  BY HolderType, RequestAssumption DEF Downcast, Upcast, SizeT
<1> QED
  BY <1>1, <1>2, HolderType
  DEF ArrayReturn, ObjectReturn, ObjectUnwound, PolymorphicReturn,
      PolymorphicUnwound, Known

LEMMA ObtainStep ==
  ASSUME RInv, NEW o \in Holders, Obtain(o, Known(o)),
         o.count * o.type.size <= SizeMax,
         o.kind # "container" => o.count = 1
  PROVE  RInv'
<1> DEFINE bytes == o.count * o.type.size
<1>1. o.type \in Types /\ o.count \in SizeT /\ o.policy \in Policies
  BY HolderType
<1>2. bytes \in SizeT
  BY <1>1, SizeFits, RequestAssumption DEF SizeT
<1>3. asked' = Known(o) /\ block' = Allocated(Known(o)) /\ owner' = o
      /\ UNCHANGED <<refused, symmetric>>
  BY DEF Obtain
<1>4. Known(o) \in Requests /\ Known(o).bytes = bytes
  BY <1>1, <1>2 DEF Known, Requests, Types
<1>5. Allocated(Known(o)) \in [bytes : 1..SizeMax, aligned : BOOLEAN]
  BY <1>2, <1>4, RequestAssumption DEF Allocated, NewBytes, NewIsAligned, SizeT
<1>6. RequestTypeOK'
  BY <1>3, <1>4, <1>5 DEF RInv, RequestTypeOK
<1>7. KnownInv'
  BY <1>3 DEF KnownInv
<1> QED
  BY <1>3, <1>6, <1>7 DEF RInv, RefusedOnlyIfTooLarge, SymmetricRelease

LEMMA ReleaseStep ==
  ASSUME RInv, NEW k, NEW request, NEW address,
         Release(k, request, address),
         request = Known(owner), address = 0
  PROVE  RInv'
<1>1. request = asked /\ block = Allocated(asked)
  BY DEF Release, RInv, KnownInv
<1>2. DeleteIsAligned(request.alignment) = block.aligned
  BY <1>1 DEF Allocated, NewIsAligned, DeleteIsAligned
<1>3. symmetric'
  BY <1>1, <1>2 DEF Release, RInv, SymmetricRelease
<1> QED
  BY <1>3
  DEF Release, RInv, RequestTypeOK, KnownInv, RefusedOnlyIfTooLarge,
      SymmetricRelease

LEMMA RequestStep == RInv /\ [RequestNext]_requestVars => RInv'
<1> SUFFICES ASSUME RInv, [RequestNext]_requestVars PROVE RInv'
  OBVIOUS
<1>1. ASSUME NEW o \in Holders, AllocateArray(o) PROVE RInv'
  <2>1. o.count * o.type.size <= SizeMax
    BY <1>1, HolderType, SizeFits, RequestAssumption DEF AllocateArray
  <2>2. Obtain(o, Known(o)) /\ o.kind = "container"
    BY <1>1, <2>1, RequestsKnown DEF AllocateArray
  <2> QED BY <2>1, <2>2, ObtainStep
<1>2. ASSUME NEW o \in Holders, MakeUnique(o) \/ MakePolymorphicUnique(o)
      PROVE  RInv'
  <2>1. o.count = 1
    BY <1>2 DEF MakeUnique, MakePolymorphicUnique
  <2>2. o.count * o.type.size <= SizeMax
    BY <2>1, HolderType, RequestAssumption
  <2>3. Obtain(o, Known(o))
    BY <1>2, <2>1, <2>2, RequestsKnown DEF MakeUnique, MakePolymorphicUnique
  <2> QED BY <2>1, <2>2, <2>3, ObtainStep
<1>3. ASSUME NEW count \in SizeT, NEW type \in Types, Refuse(count, type)
      PROVE  RInv'
  <2>1. count * type.size > SizeMax /\ count * type.size \in Nat
    BY <1>3, SizeFits DEF Refuse
  <2> QED
    BY <1>3, <2>1
    DEF Refuse, RInv, RequestTypeOK, KnownInv, RefusedOnlyIfTooLarge,
        SymmetricRelease
<1>4. CASE DeallocateArray \/ DeleteObject \/ DestroyPolymorphicObject
             \/ ConstructorThrew
  <2>1. /\ owner \in Holders /\ owner.count * owner.type.size <= SizeMax
        /\ owner.kind # "container" => owner.count = 1
    BY <1>4
    DEF DeallocateArray, DeleteObject, DestroyPolymorphicObject,
        ConstructorThrew, Release, RInv, RequestTypeOK, KnownInv
  <2>2. CASE DeallocateArray
    BY <2>1, <2>2, ReturnsKnown, ReleaseStep DEF DeallocateArray
  <2>3. ASSUME owner.kind = "unique" \/ owner.kind = "polymorphic"
        PROVE  /\ ObjectReturn(owner) = Known(owner)
               /\ ObjectUnwound(owner) = Known(owner)
               /\ PolymorphicReturn(owner) = Known(owner)
               /\ PolymorphicUnwound(owner) = Known(owner)
               /\ Downcast(owner) = 0
    BY <2>1, <2>3, ReturnsKnown
  <2>4. CASE DeleteObject
    <3>1. owner.kind = "unique"
      BY <2>4 DEF DeleteObject, Release
    <3> QED BY <2>3, <2>4, <3>1, ReleaseStep DEF DeleteObject
  <2>5. CASE DestroyPolymorphicObject
    <3>1. owner.kind = "polymorphic"
      BY <2>5 DEF DestroyPolymorphicObject, Release
    <3> QED BY <2>3, <2>5, <3>1, ReleaseStep DEF DestroyPolymorphicObject
  <2>6. CASE ConstructorThrew
    <3>1. owner.kind = "unique" \/ owner.kind = "polymorphic"
      BY <2>6 DEF ConstructorThrew, Release
    <3> QED BY <2>3, <2>6, <3>1, ReleaseStep DEF ConstructorThrew
  <2> QED BY <1>4, <2>2, <2>4, <2>5, <2>6
<1>5. CASE UNCHANGED requestVars
  BY <1>5
  DEF requestVars, RInv, RequestTypeOK, KnownInv, RefusedOnlyIfTooLarge,
      SymmetricRelease
<1>6. ASSUME NEW type \in Types, NEW policy \in Policies
      PROVE  /\ \A count \in SizeT :
                  Holder("container", policy, type, type, 0, count) \in Holders
             /\ Holder("unique", policy, type, type, 0, 1) \in Holders
             /\ \A base \in Types, offset \in SizeT :
                  Holder("polymorphic", policy, type, base, offset, 1)
                    \in Holders
  <2>1. 0 \in SizeT /\ 1 \in SizeT
    BY RequestAssumption DEF SizeT
  <2> QED BY <2>1 DEF Holder, Holders
<1> QED BY <1>1, <1>2, <1>3, <1>4, <1>5, <1>6 DEF RequestNext

LEMMA RequestInvariant == RequestSpec => []RInv
<1>1. RequestInit => RInv
  BY DEF RequestInit, RInv, RequestTypeOK, KnownInv, RefusedOnlyIfTooLarge,
     SymmetricRelease
<1> QED BY <1>1, RequestStep, PTL DEF RequestSpec

\* The variables keep their types, and no zero-sized block is allocated.
THEOREM RequestTypeCorrect == RequestSpec => []RequestTypeOK
<1>1. RInv => RequestTypeOK
  BY DEF RInv
<1> QED BY <1>1, RequestInvariant, PTL

\* No array's size wraps around.
THEOREM NoOverflow == RequestSpec => []LargeEnough
<1>1. ASSUME RInv, owner # None
      PROVE  block.bytes >= owner.count * owner.type.size
  <2>1. owner.count * owner.type.size \in Nat
    BY <1>1, HolderType, SizeFits DEF RInv, RequestTypeOK
  <2>2. block.bytes = NewBytes(owner.count * owner.type.size)
    BY <1>1 DEF RInv, KnownInv, Allocated, Known
  <2> QED BY <2>1, <2>2 DEF NewBytes
<1> QED BY <1>1, RequestInvariant, PTL DEF LargeEnough

\* allocate() refuses nothing that fits.
THEOREM RefusalIsJustified == RequestSpec => []RefusedOnlyIfTooLarge
<1>1. RInv => RefusedOnlyIfTooLarge
  BY DEF RInv
<1> QED BY <1>1, RequestInvariant, PTL

\* Every release is the counterpart of its request, whichever of the sites it
\* is made at.
THEOREM ReleaseIsSymmetric == RequestSpec => []SymmetricRelease
<1>1. RInv => SymmetricRelease
  BY DEF RInv
<1> QED BY <1>1, RequestInvariant, PTL
=============================================================================
