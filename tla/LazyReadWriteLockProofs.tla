----------------------- MODULE LazyReadWriteLockProofs -----------------------
(***************************************************************************)
(* Proofs about LazyReadWriteLock, for any threads and primitives.  As in  *)
(* LazyMutexProofs the steps are steps of LazyResolution; what is added    *)
(* ties those who write and read to the owner and the sharers of the one   *)
(* primitive in _resolved, which never has both.                           *)
(***************************************************************************)
EXTENDS LazyReadWriteLock, LazyResolutionProofs

ModeTypeOK ==
  /\ op \in [Threads -> Ops \cup {"none"}]
  /\ holder \in [Targets -> Threads \cup {Null}]
  /\ sharers \in [Targets -> SUBSET Threads]
  /\ writing \in SUBSET Threads
  /\ reading \in SUBSET Threads

\* A method is in progress while its thread is in Resolve() or after it, and
\* is one that the thread's mode allows.
CallInv ==
  \A t \in Threads :
    /\ pc[t] = "idle" <=> op[t] = "none"
    /\ op[t] = "unlock" => pc[t] = "ready" /\ t \in writing
    /\ op[t] = "unlock_shared" => pc[t] = "ready" /\ t \in reading
    /\ t \in writing => op[t] \in {"none", "unlock"}
    /\ t \in reading => op[t] \in {"none", "unlock_shared"}

\* Who is in the lock has the primitive in _resolved in his mode, and knows of
\* its publication.
OwnerInv ==
  /\ \A t \in writing \cup reading : resolved # Null /\ Publication \in view[t]
  /\ \A t \in writing : holder[resolved] = t
  /\ \A t \in reading : t \in sharers[resolved]

\* The primitives are locks.
AloneInv == \A o \in Targets : holder[o] # Null => sharers[o] = {}

WInv == ModeTypeOK /\ CallInv /\ OwnerInv /\ AloneInv

-----------------------------------------------------------------------------
USE DEF Move, Get, Install, flag, cell, factory

LEMMA NextResolves == [Next]_vars => [ResolutionNext]_rvars
BY DEF Next, vars, ThreadStep, Begin, Resolve, Acquire, AcquireShared, TryFail,
       Unlock, UnlockShared, Finish, ResolutionNext

LEMMA ResolutionInvariantHere == Spec => []IInv
<1>1. Init => IInv
  BY InitIInv DEF Init
<1>2. IInv /\ [Next]_vars => IInv'
  BY NextResolves, ResolutionStep
<1> QED BY <1>1, <1>2, PTL DEF Spec

LEMMA InitWInv == Init => WInv
BY DEF Init, ResolutionInit, WInv, ModeTypeOK, CallInv, OwnerInv, AloneInv

\* A writer has the lock for himself.
LEMMA NobodyElse ==
  ASSUME IInv, WInv, NEW t \in writing
  PROVE  writing = {t} /\ reading = {}
<1>1. resolved \in Targets /\ holder[resolved] = t /\ t # Null
  BY ReadWriteAssumption
  DEF IInv, ResolutionTypeOK, WInv, OwnerInv, ModeTypeOK
<1>2. sharers[resolved] = {}
  BY <1>1 DEF WInv, AloneInv
<1> QED BY <1>1, <1>2 DEF WInv, OwnerInv

\* What the end of a method finds: the one primitive.
LEMMA FinishFinds ==
  ASSUME IInv, NEW t \in Threads, Finish(t)
  PROVE  ref[t] = resolved /\ resolved \in Targets /\ Publication \in view'[t]
BY DEF Finish, Return, IInv, ResolutionTypeOK, ProgressInv

LEMMA ModeStep == IInv /\ WInv /\ [Next]_vars => WInv'
<1> SUFFICES ASSUME IInv, WInv, [Next]_vars PROVE WInv'
  OBVIOUS
<1> USE ReadWriteAssumption DEF WInv, Ops
<1>1. [ResolutionNext]_rvars /\ IInv'
  BY NextResolves, ResolutionStep
<1>2. \A t \in writing \cup reading :
        resolved' = resolved /\ Publication \in view'[t]
  BY <1>1, ResolvedStays, ViewGrows DEF OwnerInv, ModeTypeOK
<1>3. CASE (SetProvider \/ ResetProvider) /\ UNCHANGED mvars
  BY <1>3, <1>2
  DEF SetProvider, ResetProvider, mvars, ModeTypeOK, CallInv, OwnerInv, AloneInv
<1>4. ASSUME NEW t \in Threads, NEW m \in Ops, Begin(t, m) PROVE WInv'
  <2> USE <1>4 DEF Begin, Call
  <2>1. ModeTypeOK' BY DEF ModeTypeOK
  <2>2. /\ m = "unlock" <=> t \in writing
        /\ m = "unlock_shared" <=> t \in reading
    BY NobodyElse DEF Allowed, ModeTypeOK
  <2>3. m \in {"unlock", "unlock_shared"} => pc'[t] = "ready"
    BY <2>2 DEF OwnerInv, MayReadNull, Move, IInv, ResolutionTypeOK
  <2>4. CallInv'
    BY <2>2, <2>3 DEF CallInv, ModeTypeOK, Move, IInv, ResolutionTypeOK
  <2>5. OwnerInv' BY <1>2 DEF OwnerInv
  <2>6. AloneInv' BY DEF AloneInv
  <2> QED BY <2>1, <2>4, <2>5, <2>6
<1>5. ASSUME NEW t \in Threads, Resolve(t) PROVE WInv'
  <2> USE <1>5 DEF Resolve, mvars
  <2>1. ModeTypeOK' BY DEF ModeTypeOK
  <2>2. CallInv' BY ResolveFrame DEF CallInv
  <2>3. OwnerInv' BY <1>2 DEF OwnerInv
  <2>4. AloneInv' BY DEF AloneInv
  <2> QED BY <2>1, <2>2, <2>3, <2>4
<1>6. ASSUME NEW t \in Threads, Acquire(t) PROVE WInv'
  <2> USE <1>6, FinishFinds DEF Acquire
  <2>1. writing = {} /\ reading = {}
    BY DEF OwnerInv, ModeTypeOK
  <2>2. ModeTypeOK' BY DEF ModeTypeOK, Finish
  <2>3. CallInv'
    BY <2>1
    DEF CallInv, ModeTypeOK, Finish, Return, Move, IInv, ResolutionTypeOK
  <2>4. resolved' = resolved /\ resolved # Null
    BY ResolutionAssumption DEF Finish, Return, Targets
  <2>5. OwnerInv' BY <2>1, <2>4 DEF OwnerInv, ModeTypeOK
  <2>6. AloneInv' BY DEF AloneInv, ModeTypeOK
  <2> QED BY <2>2, <2>3, <2>5, <2>6
<1>7. ASSUME NEW t \in Threads, AcquireShared(t) PROVE WInv'
  <2> USE <1>7, FinishFinds DEF AcquireShared
  <2>1. writing = {}
    BY DEF OwnerInv, ModeTypeOK
  <2>2. ModeTypeOK' BY DEF ModeTypeOK, Finish
  <2>3. CallInv'
    BY <2>1
    DEF CallInv, ModeTypeOK, Finish, Return, Move, IInv, ResolutionTypeOK
  <2>4. resolved' = resolved /\ resolved # Null
    BY ResolutionAssumption DEF Finish, Return, Targets
  <2>5. OwnerInv' BY <1>2, <2>1, <2>4 DEF OwnerInv, ModeTypeOK
  <2>6. AloneInv' BY DEF AloneInv, ModeTypeOK
  <2> QED BY <2>2, <2>3, <2>5, <2>6
<1>8. ASSUME NEW t \in Threads, TryFail(t) PROVE WInv'
  <2> USE <1>8 DEF TryFail, Finish, Return
  <2>1. ModeTypeOK' BY DEF ModeTypeOK
  <2>2. CallInv'
    BY DEF CallInv, ModeTypeOK, Move, IInv, ResolutionTypeOK
  <2>3. OwnerInv' BY <1>2 DEF OwnerInv
  <2>4. AloneInv' BY DEF AloneInv
  <2> QED BY <2>1, <2>2, <2>3, <2>4
<1>9. ASSUME NEW t \in Threads, Unlock(t) PROVE WInv'
  <2> USE <1>9, FinishFinds DEF Unlock
  <2>1. writing = {t} /\ reading = {}
    BY NobodyElse DEF CallInv
  <2>2. ModeTypeOK' BY DEF ModeTypeOK, Finish
  <2>3. CallInv'
    BY <2>1
    DEF CallInv, ModeTypeOK, Finish, Return, Move, IInv, ResolutionTypeOK
  <2>4. OwnerInv' BY <2>1 DEF OwnerInv
  <2>5. AloneInv' BY DEF AloneInv, ModeTypeOK
  <2> QED BY <2>2, <2>3, <2>4, <2>5
<1>10. ASSUME NEW t \in Threads, UnlockShared(t) PROVE WInv'
  <2> USE <1>10, FinishFinds DEF UnlockShared
  <2>1. t \in reading
    BY DEF CallInv
  <2>2. ModeTypeOK' BY DEF ModeTypeOK, Finish
  <2>3. CallInv'
    BY <2>1
    DEF CallInv, ModeTypeOK, Finish, Return, Move, IInv, ResolutionTypeOK
  <2>4. OwnerInv' BY <1>2, <2>1 DEF OwnerInv, ModeTypeOK
  <2>5. AloneInv' BY DEF AloneInv, ModeTypeOK
  <2> QED BY <2>2, <2>3, <2>4, <2>5
<1>11. CASE UNCHANGED vars
  BY <1>11 DEF vars, rvars, mvars, ModeTypeOK, CallInv, OwnerInv, AloneInv
<1> QED
  BY <1>3, <1>4, <1>5, <1>6, <1>7, <1>8, <1>9, <1>10, <1>11
  DEF Next, ThreadStep

LEMMA ModeInvariant == Spec => [](IInv /\ WInv)
BY ResolutionInvariantHere, InitWInv, ModeStep, PTL DEF Spec

\* The variables keep their types.
THEOREM TypeCorrect == Spec => []TypeOK
<1>1. IInv /\ WInv => TypeOK
  BY DEF IInv, WInv, ModeTypeOK, TypeOK
<1> QED BY <1>1, ModeInvariant, PTL

\* A writer is alone, whenever the threads resolved the wrapper.
THEOREM WriterExcludes == Spec => []WriterAlone
<1>1. IInv /\ WInv => WriterAlone
  BY NobodyElse DEF WriterAlone
<1> QED BY <1>1, ModeInvariant, PTL

\* unlock() and unlock_shared() reach the primitive that is held, in the mode
\* in which it is held.
THEOREM UnlockIsPaired == Spec => []UnlockFindsItsMode
<1>1. IInv /\ WInv => UnlockFindsItsMode
  BY DEF IInv, ProgressInv, WInv, CallInv, OwnerInv, UnlockFindsItsMode
<1> QED BY <1>1, ModeInvariant, PTL

\* The wrapper implements one lock with shared and exclusive owners.
THEOREM ReadWriteLockImplementsLock == Spec => ImplementsLock
<1> USE DEF Contract!lvars, Contract!LockNext, Contract!Lock, Contract!Unlock,
            Contract!LockShared, Contract!UnlockShared
<1>1. Init => Contract!LockInit
  BY DEF Init, Contract!LockInit
<1>2. IInv /\ WInv /\ [Next]_vars => [Contract!LockNext]_(Contract!lvars)
  <2> SUFFICES ASSUME IInv, WInv, [Next]_vars
               PROVE  [Contract!LockNext]_(Contract!lvars)
    OBVIOUS
  <2>1. ASSUME NEW t \in Threads, Acquire(t) PROVE Contract!Lock(t)
    <3>1. writing = {} /\ reading = {} /\ writing' = {t} /\ reading' = {}
      BY <2>1, FinishFinds, ReadWriteAssumption
      DEF Acquire, WInv, OwnerInv, ModeTypeOK
    <3> QED BY <3>1
  <2>2. ASSUME NEW t \in Threads, AcquireShared(t) PROVE Contract!LockShared(t)
    <3>1. writing = {} /\ writing' = {} /\ t \notin reading
      BY <2>2, FinishFinds, ReadWriteAssumption
      DEF AcquireShared, WInv, OwnerInv, ModeTypeOK, CallInv
    <3> QED BY <2>2, <3>1 DEF AcquireShared
  <2>3. ASSUME NEW t \in Threads, Unlock(t) PROVE Contract!Unlock(t)
    <3>1. writing = {t} /\ writing' = {} /\ reading' = reading
      BY <2>3, NobodyElse DEF Unlock, WInv, CallInv
    <3> DEFINE depth == [u \in Threads |-> IF u \in writing THEN 1 ELSE 0]
    <3>2. depth[t] = 1
      BY <3>1
    <3>3. [depth EXCEPT ![t] = depth[t] - 1] = [u \in Threads |-> 0]
      <4>1. depth[t] - 1 = 0
        BY <3>2
      <4>2. [depth EXCEPT ![t] = 0] = [u \in Threads |-> 0]
        BY <3>1
      <4> QED BY <4>1, <4>2
    <3>4. depth' = [u \in Threads |-> 0]
      BY <3>1
    <3> HIDE DEF depth
    <3>5. depth[t] > 0 /\ depth' = [depth EXCEPT ![t] = depth[t] - 1]
      BY <3>2, <3>3, <3>4
    <3> QED BY <3>1, <3>5 DEF depth
  <2>4. ASSUME NEW t \in Threads, UnlockShared(t) PROVE Contract!UnlockShared(t)
    BY <2>4 DEF UnlockShared, WInv, CallInv
  <2>5. CASE UNCHANGED <<writing, reading>>
    BY <2>5
  <2> QED
    BY <2>1, <2>2, <2>3, <2>4, <2>5
    DEF Next, vars, mvars, ThreadStep, Begin, Resolve, TryFail
<1> QED
  BY <1>1, <1>2, ModeInvariant, PTL
  DEF Spec, ImplementsLock, Contract!LockSpec
=============================================================================
