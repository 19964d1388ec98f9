--------------------------- MODULE LazyMutexProofs ---------------------------
(***************************************************************************)
(* Proofs about LazyMutex.  Every step of it is a step of LazyResolution,  *)
(* so that the invariant of LazyResolutionProofs holds here too; what is   *)
(* added ties the threads inside the critical section to the owner of the  *)
(* one primitive in _resolved.                                             *)
(***************************************************************************)
EXTENDS LazyMutex, LazyResolutionProofs

MutexTypeOK ==
  /\ op \in [Threads -> Ops \cup {"none"}]
  /\ holder \in [Targets -> Threads \cup {Null}]
  /\ inside \in SUBSET Threads

\* A method is in progress while its thread is in Resolve() or after it.
CallInv ==
  \A t \in Threads :
    /\ pc[t] = "idle" <=> op[t] = "none"
    /\ op[t] \in {"lock", "try_lock"} => t \notin inside
    /\ op[t] = "unlock" => pc[t] = "ready" /\ t \in inside

\* Who is inside owns the primitive in _resolved and knows of its publication.
InsideInv ==
  \A t \in inside :
    /\ resolved # Null
    /\ holder[resolved] = t
    /\ Publication \in view[t]

MInv == MutexTypeOK /\ CallInv /\ InsideInv

-----------------------------------------------------------------------------
USE DEF Move, Get, Install, flag, cell, factory

LEMMA NextResolves == [Next]_vars => [ResolutionNext]_rvars
BY DEF Next, vars, ThreadStep, Begin, Resolve, Acquire, TryFail, Unlock,
       Finish, ResolutionNext

LEMMA ResolutionInvariantHere == Spec => []IInv
<1>1. Init => IInv
  BY InitIInv DEF Init
<1>2. IInv /\ [Next]_vars => IInv'
  BY NextResolves, ResolutionStep
<1> QED BY <1>1, <1>2, PTL DEF Spec

LEMMA InitMInv == Init => MInv
BY DEF Init, ResolutionInit, MInv, MutexTypeOK, CallInv, InsideInv

LEMMA MutexStep == IInv /\ MInv /\ [Next]_vars => MInv'
<1> SUFFICES ASSUME IInv, MInv, [Next]_vars PROVE MInv'
  OBVIOUS
<1> USE MutexAssumption DEF MInv, Ops
<1>1. [ResolutionNext]_rvars /\ IInv'
  BY NextResolves, ResolutionStep
<1>2. \A t \in inside : resolved' = resolved /\ Publication \in view'[t]
  BY <1>1, ResolvedStays, ViewGrows DEF InsideInv, MutexTypeOK
<1>3. CASE (SetProvider \/ ResetProvider) /\ UNCHANGED mvars
  BY <1>3, <1>2
  DEF SetProvider, ResetProvider, mvars, MutexTypeOK, CallInv, InsideInv
<1>4. ASSUME NEW t \in Threads, NEW m \in Ops, Begin(t, m) PROVE MInv'
  <2> USE <1>4 DEF Begin, Call
  <2>1. MutexTypeOK' BY DEF MutexTypeOK
  <2>2. m = "unlock" => pc'[t] = "ready"
    BY DEF InsideInv, MayReadNull, Move, IInv, ResolutionTypeOK
  <2>3. CallInv'
    BY <2>2 DEF CallInv, MutexTypeOK, Move, IInv, ResolutionTypeOK
  <2>4. InsideInv' BY <1>2 DEF InsideInv
  <2> QED BY <2>1, <2>3, <2>4
<1>5. ASSUME NEW t \in Threads, Resolve(t) PROVE MInv'
  <2> USE <1>5 DEF Resolve, mvars
  <2>1. MutexTypeOK' BY DEF MutexTypeOK
  <2>2. CallInv' BY ResolveFrame DEF CallInv
  <2>3. InsideInv' BY <1>2 DEF InsideInv
  <2> QED BY <2>1, <2>2, <2>3
<1>6. ASSUME NEW t \in Threads, Acquire(t) PROVE MInv'
  <2> USE <1>6 DEF Acquire, Finish, Return
  <2>1. ref[t] = resolved /\ resolved \in Targets /\ Publication \in view'[t]
    BY DEF IInv, ResolutionTypeOK, ProgressInv
  <2>2. inside = {}
    BY <2>1 DEF InsideInv, MutexTypeOK
  <2>3. MutexTypeOK' BY <2>1 DEF MutexTypeOK, IInv, ResolutionTypeOK
  <2>4. CallInv'
    BY DEF CallInv, MutexTypeOK, Move, IInv, ResolutionTypeOK
  <2>5. InsideInv'
    BY <2>1, <2>2, ResolutionAssumption DEF InsideInv, MutexTypeOK, Targets
  <2> QED BY <2>3, <2>4, <2>5
<1>7. ASSUME NEW t \in Threads, TryFail(t) PROVE MInv'
  <2> USE <1>7 DEF TryFail, Finish, Return
  <2>1. MutexTypeOK' BY DEF MutexTypeOK
  <2>2. CallInv'
    BY DEF CallInv, MutexTypeOK, Move, IInv, ResolutionTypeOK
  <2>3. InsideInv' BY <1>2 DEF InsideInv
  <2> QED BY <2>1, <2>2, <2>3
<1>8. ASSUME NEW t \in Threads, Unlock(t) PROVE MInv'
  <2> USE <1>8 DEF Unlock, Finish, Return
  <2>1. t \in inside /\ inside = {t}
    BY DEF CallInv, InsideInv, MutexTypeOK
  <2>2. MutexTypeOK' BY DEF MutexTypeOK
  <2>3. CallInv'
    BY DEF CallInv, MutexTypeOK, Move, IInv, ResolutionTypeOK
  <2>4. InsideInv' BY <2>1 DEF InsideInv
  <2> QED BY <2>2, <2>3, <2>4
<1>9. CASE UNCHANGED vars
  BY <1>9 DEF vars, rvars, mvars, MutexTypeOK, CallInv, InsideInv
<1> QED BY <1>3, <1>4, <1>5, <1>6, <1>7, <1>8, <1>9 DEF Next, ThreadStep

LEMMA MutexInvariant == Spec => [](IInv /\ MInv)
BY ResolutionInvariantHere, InitMInv, MutexStep, PTL DEF Spec

\* The variables keep their types.
THEOREM TypeCorrect == Spec => []TypeOK
<1>1. IInv /\ MInv => TypeOK
  BY DEF IInv, MInv, MutexTypeOK, TypeOK
<1> QED BY <1>1, MutexInvariant, PTL

\* At most one thread is between lock() and unlock().
THEOREM MutexExcludes == Spec => []MutualExclusion
<1>1. MInv => MutualExclusion
  BY DEF MInv, InsideInv, MutualExclusion
<1> QED BY <1>1, MutexInvariant, PTL

\* unlock() reaches the primitive that lock() took, without the guard and
\* without the provider.
THEOREM UnlockIsPaired == Spec => []UnlockFindsItsLock
<1>1. IInv /\ MInv => UnlockFindsItsLock
  BY DEF IInv, ProgressInv, MInv, CallInv, InsideInv, UnlockFindsItsLock
<1> QED BY <1>1, MutexInvariant, PTL

\* The wrapper implements one non-reentrant lock.
THEOREM MutexImplementsLock == Spec => ImplementsLock
<1> USE DEF Contract!lvars, Contract!LockNext, Contract!Lock,
            Contract!Unlock
<1>1. Init => Contract!LockInit
  BY DEF Init, Contract!LockInit
<1>2. IInv /\ MInv /\ [Next]_vars => [Contract!LockNext]_(Contract!lvars)
  <2> SUFFICES ASSUME IInv, MInv, [Next]_vars
               PROVE  [Contract!LockNext]_(Contract!lvars)
    OBVIOUS
  <2>1. ASSUME NEW t \in Threads, Acquire(t) PROVE Contract!Lock(t)
    <3>1. ref[t] = resolved
      BY <2>1 DEF Acquire, Finish, Return, IInv, ProgressInv
    <3>2. inside = {} /\ inside' = {t}
      BY <2>1, <3>1, MutexAssumption
      DEF Acquire, MInv, InsideInv, MutexTypeOK
    <3> QED BY <3>2
  <2>2. ASSUME NEW t \in Threads, Unlock(t) PROVE Contract!Unlock(t)
    <3>1. inside = {t} /\ inside' = {}
      BY <2>2 DEF Unlock, MInv, CallInv, InsideInv, MutexTypeOK
    <3> DEFINE depth == [u \in Threads |-> IF u \in inside THEN 1 ELSE 0]
    <3>2. depth[t] = 1
      BY <3>1
    <3>3. [depth EXCEPT ![t] = depth[t] - 1] = [u \in Threads |-> 0]
      <4>1. depth[t] - 1 = 0
        BY <3>2
      <4>2. [depth EXCEPT ![t] = 0] = [u \in Threads |-> 0]
        BY <3>1
      <4> QED BY <4>1, <4>2
    <3>4. depth' = [u \in Threads |-> 0]
      BY <3>1
    <3> HIDE DEF depth
    <3>5. depth[t] > 0 /\ depth' = [depth EXCEPT ![t] = depth[t] - 1]
      BY <3>2, <3>3, <3>4
    <3> QED BY <3>5 DEF depth
  <2>3. CASE UNCHANGED inside
    BY <2>3
  <2> QED
    BY <2>1, <2>2, <2>3
    DEF Next, vars, mvars, ThreadStep, Begin, Resolve, TryFail
<1> QED
  BY <1>1, <1>2, MutexInvariant, PTL
  DEF Spec, ImplementsLock, Contract!LockSpec
=============================================================================
