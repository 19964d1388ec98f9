---------------------- MODULE LazyRecursiveMutexProofs ----------------------
(***************************************************************************)
(* Proofs about LazyRecursiveMutex, for any threads, primitives and depth. *)
(* As in LazyMutexProofs the steps are steps of LazyResolution; what is    *)
(* added ties the levels of each thread to the count of the one primitive  *)
(* in _resolved.                                                           *)
(***************************************************************************)
EXTENDS LazyRecursiveMutex, LazyResolutionProofs

LevelTypeOK ==
  /\ op \in [Threads -> Ops \cup {"none"}]
  /\ holder \in [Targets -> Threads \cup {Null}]
  /\ count \in [Targets -> 0..MaxDepth]
  /\ level \in [Threads -> 0..MaxDepth]

\* A method is in progress while its thread is in Resolve() or after it.
CallInv ==
  \A t \in Threads :
    /\ pc[t] = "idle" <=> op[t] = "none"
    /\ op[t] \in {"lock", "try_lock"} => level[t] < MaxDepth
    /\ op[t] = "unlock" => pc[t] = "ready" /\ level[t] > 0

\* Who has levels has them all on the primitive in _resolved, and knows of
\* its publication.
OwnerInv ==
  \A t \in Threads : level[t] > 0 =>
    /\ resolved # Null
    /\ holder[resolved] = t /\ count[resolved] = level[t]
    /\ Publication \in view[t]

\* Only the primitive in _resolved is ever held, by a thread that has levels,
\* and one that is not held counts nothing.
CountInv ==
  \A o \in Targets :
    /\ holder[o] = Null => count[o] = 0
    /\ holder[o] # Null => o = resolved /\ level[holder[o]] > 0

RInv == LevelTypeOK /\ CallInv /\ OwnerInv /\ CountInv

-----------------------------------------------------------------------------
USE DEF Move, Get, Install, flag, cell, factory

LEMMA NextResolves == [Next]_vars => [ResolutionNext]_rvars
BY DEF Next, vars, ThreadStep, Begin, Resolve, Acquire, TryFail, Unlock,
       Finish, ResolutionNext

LEMMA ResolutionInvariantHere == Spec => []IInv
<1>1. Init => IInv
  BY InitIInv DEF Init
<1>2. IInv /\ [Next]_vars => IInv'
  BY NextResolves, ResolutionStep
<1> QED BY <1>1, <1>2, PTL DEF Spec

LEMMA InitRInv == Init => RInv
BY RecursiveAssumption
DEF Init, ResolutionInit, RInv, LevelTypeOK, CallInv, OwnerInv, CountInv

\* What an Acquire() finds: its thread is the only one that may have levels,
\* and they are counted on the primitive it is about to take.
LEMMA AcquireFinds ==
  ASSUME IInv, RInv, NEW t \in Threads, Acquire(t)
  PROVE  /\ ref[t] = resolved /\ resolved \in Targets
         /\ Publication \in view[t]
         /\ \A u \in Threads \ {t} : level[u] = 0
         /\ count[resolved] = level[t] /\ level[t] < MaxDepth
<1> USE RecursiveAssumption DEF RInv
<1>1. ref[t] = resolved /\ resolved \in Targets /\ Publication \in view[t]
  BY DEF Acquire, Finish, Return, IInv, ResolutionTypeOK, ProgressInv
<1>2. holder[resolved] \in {t, Null}
  BY <1>1 DEF Acquire, MayTake
<1>3. \A u \in Threads \ {t} : level[u] = 0
  BY <1>2 DEF OwnerInv, LevelTypeOK
<1>4. count[resolved] = level[t]
  <2>1. CASE level[t] > 0 BY <2>1 DEF OwnerInv
  <2>2. CASE level[t] = 0
    BY <1>1, <1>2, <2>2 DEF CountInv
  <2> QED BY <2>1, <2>2 DEF LevelTypeOK
<1> QED BY <1>1, <1>3, <1>4 DEF Acquire, CallInv

\* What an Unlock() finds: the one primitive, held by its thread alone.
LEMMA UnlockFinds ==
  ASSUME IInv, RInv, NEW t \in Threads, Unlock(t)
  PROVE  /\ ref[t] = resolved /\ resolved \in Targets
         /\ holder[resolved] = t /\ count[resolved] = level[t] /\ level[t] > 0
         /\ \A u \in Threads \ {t} : level[u] = 0
<1> USE RecursiveAssumption DEF RInv
<1>1. ref[t] = resolved /\ resolved \in Targets
  BY DEF Unlock, Finish, Return, IInv, ResolutionTypeOK, ProgressInv
<1>2. level[t] > 0
  BY DEF Unlock, CallInv
<1>3. holder[resolved] = t /\ count[resolved] = level[t]
  BY <1>2 DEF OwnerInv
<1> QED BY <1>1, <1>2, <1>3 DEF OwnerInv, LevelTypeOK

LEMMA RecursiveStep == IInv /\ RInv /\ [Next]_vars => RInv'
<1> SUFFICES ASSUME IInv, RInv, [Next]_vars PROVE RInv'
  OBVIOUS
<1> USE RecursiveAssumption DEF RInv, Ops
<1>1. [ResolutionNext]_rvars /\ IInv'
  BY NextResolves, ResolutionStep
<1>2. \A t \in Threads : level[t] > 0 =>
        resolved' = resolved /\ Publication \in view'[t]
  BY <1>1, ResolvedStays, ViewGrows DEF OwnerInv
<1>3. CASE (SetProvider \/ ResetProvider) /\ UNCHANGED mvars
  BY <1>3, <1>2
  DEF SetProvider, ResetProvider, mvars, LevelTypeOK, CallInv, OwnerInv,
      CountInv
<1>4. ASSUME NEW t \in Threads, NEW m \in Ops, Begin(t, m) PROVE RInv'
  <2> USE <1>4 DEF Begin, Call
  <2>1. LevelTypeOK' BY DEF LevelTypeOK
  <2>2. m = "unlock" => pc'[t] = "ready"
    BY DEF OwnerInv, MayReadNull, Move, IInv, ResolutionTypeOK
  <2>3. CallInv'
    BY <2>2 DEF CallInv, LevelTypeOK, Move, IInv, ResolutionTypeOK
  <2>4. OwnerInv' BY <1>2 DEF OwnerInv
  <2>5. CountInv' BY <1>2 DEF CountInv, LevelTypeOK
  <2> QED BY <2>1, <2>3, <2>4, <2>5
<1>5. ASSUME NEW t \in Threads, Resolve(t) PROVE RInv'
  <2> USE <1>5 DEF Resolve, mvars
  <2>1. LevelTypeOK' BY DEF LevelTypeOK
  <2>2. CallInv' BY ResolveFrame DEF CallInv
  <2>3. OwnerInv' BY <1>2 DEF OwnerInv
  <2>4. CountInv' BY <1>2 DEF CountInv, LevelTypeOK
  <2> QED BY <2>1, <2>2, <2>3, <2>4
<1>6. ASSUME NEW t \in Threads, Acquire(t) PROVE RInv'
  <2>1. /\ ref[t] = resolved /\ resolved \in Targets
        /\ Publication \in view[t]
        /\ \A u \in Threads \ {t} : level[u] = 0
        /\ count[resolved] = level[t] /\ level[t] < MaxDepth
    BY <1>6, AcquireFinds
  <2> USE <1>6 DEF Acquire, Finish, Return
  <2>2. LevelTypeOK' BY <2>1 DEF LevelTypeOK
  <2>3. CallInv'
    BY DEF CallInv, LevelTypeOK, Move, IInv, ResolutionTypeOK
  <2>4. OwnerInv'
    BY <2>1, ResolutionAssumption DEF LevelTypeOK, Targets, OwnerInv
  <2>5. CountInv' BY <2>1, <1>1, ResolvedStays DEF CountInv, LevelTypeOK
  <2> QED BY <2>2, <2>3, <2>4, <2>5
<1>7. ASSUME NEW t \in Threads, TryFail(t) PROVE RInv'
  <2> USE <1>7 DEF TryFail, Finish, Return
  <2>1. LevelTypeOK' BY DEF LevelTypeOK
  <2>2. CallInv'
    BY DEF CallInv, LevelTypeOK, Move, IInv, ResolutionTypeOK
  <2>3. OwnerInv' BY <1>2 DEF OwnerInv
  <2>4. CountInv' BY <1>2 DEF CountInv, LevelTypeOK
  <2> QED BY <2>1, <2>2, <2>3, <2>4
<1>8. ASSUME NEW t \in Threads, Unlock(t) PROVE RInv'
  <2>1. /\ ref[t] = resolved /\ resolved \in Targets
        /\ holder[resolved] = t /\ count[resolved] = level[t] /\ level[t] > 0
        /\ \A u \in Threads \ {t} : level[u] = 0
    BY <1>8, UnlockFinds
  <2>2. Publication \in view'[t] /\ resolved' = resolved
    BY <1>2, <2>1
  <2> USE <1>8 DEF Unlock, Finish, Return
  <2>3. LevelTypeOK' BY <2>1 DEF LevelTypeOK
  <2>4. CallInv'
    BY DEF CallInv, LevelTypeOK, Move, IInv, ResolutionTypeOK
  <2>5. OwnerInv' BY <2>1, <2>2 DEF OwnerInv, LevelTypeOK
  <2>6. CountInv' BY <2>1, <2>2 DEF CountInv, LevelTypeOK
  <2> QED BY <2>3, <2>4, <2>5, <2>6
<1>9. CASE UNCHANGED vars
  BY <1>9 DEF vars, rvars, mvars, LevelTypeOK, CallInv, OwnerInv, CountInv
<1> QED BY <1>3, <1>4, <1>5, <1>6, <1>7, <1>8, <1>9 DEF Next, ThreadStep

LEMMA RecursiveInvariant == Spec => [](IInv /\ RInv)
BY ResolutionInvariantHere, InitRInv, RecursiveStep, PTL DEF Spec

\* The variables keep their types; no count leaves its range.
THEOREM TypeCorrect == Spec => []TypeOK
<1>1. IInv /\ RInv => TypeOK
  BY DEF IInv, RInv, LevelTypeOK, TypeOK
<1> QED BY <1>1, RecursiveInvariant, PTL

\* At most one thread holds the lock, at whatever depth.
THEOREM RecursiveMutexExcludes == Spec => []MutualExclusion
<1>1. RInv => MutualExclusion
  BY DEF RInv, OwnerInv, MutualExclusion
<1> QED BY <1>1, RecursiveInvariant, PTL

\* unlock() finds all levels of its thread on one primitive.
THEOREM UnlockIsPaired == Spec => []UnlockFindsItsLevels
<1>1. IInv /\ RInv => UnlockFindsItsLevels
  BY DEF IInv, ProgressInv, RInv, CallInv, OwnerInv, UnlockFindsItsLevels
<1> QED BY <1>1, RecursiveInvariant, PTL

\* The wrapper implements one reentrant lock.
THEOREM RecursiveMutexImplementsLock == Spec => ImplementsLock
<1> USE DEF Contract!lvars, Contract!LockNext, Contract!Lock, Contract!Unlock
<1>1. Init => Contract!LockInit
  BY DEF Init, Contract!LockInit
<1>2. IInv /\ RInv /\ [Next]_vars => [Contract!LockNext]_(Contract!lvars)
  <2> SUFFICES ASSUME IInv, RInv, [Next]_vars
               PROVE  [Contract!LockNext]_(Contract!lvars)
    OBVIOUS
  <2>1. ASSUME NEW t \in Threads, Acquire(t) PROVE Contract!Lock(t)
    BY <2>1, AcquireFinds DEF Acquire
  <2>2. ASSUME NEW t \in Threads, Unlock(t) PROVE Contract!Unlock(t)
    BY <2>2, UnlockFinds DEF Unlock
  <2>3. CASE UNCHANGED level
    BY <2>3
  <2> QED
    BY <2>1, <2>2, <2>3
    DEF Next, vars, mvars, ThreadStep, Begin, Resolve, TryFail
<1> QED
  BY <1>1, <1>2, RecursiveInvariant, PTL
  DEF Spec, ImplementsLock, Contract!LockSpec
=============================================================================
