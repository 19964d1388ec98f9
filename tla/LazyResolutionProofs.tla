------------------------ MODULE LazyResolutionProofs ------------------------
(***************************************************************************)
(* Proofs about LazyResolution, for any set of threads and of primitives.  *)
(*                                                                         *)
(* The argument follows one piece of knowledge, the store into _resolved   *)
(* (Publication).  Who has it in his view also has the construction of the *)
(* chosen primitive; the guard's view has it whenever the guard is free,   *)
(* so that a thread that took the guard reads the pointer that an earlier  *)
(* thread stored, and only one thread ever creates and stores.             *)
(***************************************************************************)
EXTENDS LazyResolution, TLAPS

InGuard(t) == pc[t] \in Guarded

\* One thread at a time is between the constructor and the destructor of
\* ResolutionGuard.
GuardInv ==
  /\ \A t, u \in Threads : InGuard(t) /\ InGuard(u) => t = u
  /\ \A t \in Threads : InGuard(t) => guard

\* Before the store nobody can know of it.
UnresolvedInv ==
  resolved = Null =>
    /\ \A t \in Threads : ref[t] = Null /\ Publication \notin view[t]
    /\ Publication \notin guardView

\* Who is past the second load without a pointer is the first to be there;
\* who has a pointer has the one in _resolved, and knows of the store.
ProgressInv ==
  \A t \in Threads :
    /\ pc[t] \in {"provider", "create", "store"} => resolved = Null
    /\ pc[t] \in {"release", "ready"} =>
         resolved # Null /\ ref[t] = resolved /\ Publication \in view[t]

\* The guard hands the knowledge of the store on.
HandOverInv ==
  resolved # Null =>
    /\ ~guard => Publication \in guardView
    /\ \A t \in Threads : pc[t] = "recheck" => Publication \in view[t]

\* Who knows of the store knows of the construction.
ConstructionInv ==
  resolved \in Prims =>
    /\ resolved \in resolvedView
    /\ Publication \in guardView => resolved \in guardView
    /\ \A t \in Threads : Publication \in view[t] => resolved \in view[t]

\* _owned and the count of factory calls.
OwnedInv ==
  /\ resolved # Null => resolved = Chosen
  /\ \A t \in Threads : pc[t] = "store" /\ owned # Null => owned \in view[t]
  /\ resolved = Null /\ (\A t \in Threads : pc[t] # "store") =>
       owned = Null /\ asks = 0
  /\ asks <= 1

IInv ==
  /\ ResolutionTypeOK
  /\ GuardInv /\ UnresolvedInv /\ ProgressInv
  /\ HandOverInv /\ ConstructionInv /\ OwnedInv

-----------------------------------------------------------------------------
LEMMA InitIInv == ResolutionInit => IInv
<1> SUFFICES ASSUME ResolutionInit PROVE IInv
  OBVIOUS
<1> USE DEF ResolutionInit
<1>1. ResolutionTypeOK
  BY DEF ResolutionTypeOK, Targets, Views, Labels, Guarded
<1>2. GuardInv BY DEF GuardInv, InGuard, Guarded
<1>3. UnresolvedInv BY DEF UnresolvedInv
<1>4. ProgressInv BY DEF ProgressInv
<1>5. HandOverInv BY DEF HandOverInv
<1>6. ConstructionInv BY ResolutionAssumption DEF ConstructionInv
<1>7. OwnedInv BY DEF OwnedInv
<1> QED BY <1>1, <1>2, <1>3, <1>4, <1>5, <1>6, <1>7 DEF IInv

LEMMA TypeStep ==
  ResolutionTypeOK /\ [ResolutionNext]_rvars => ResolutionTypeOK'
<1> SUFFICES ASSUME ResolutionTypeOK, [ResolutionNext]_rvars
             PROVE  ResolutionTypeOK'
  OBVIOUS
<1> USE ResolutionAssumption
    DEF ResolutionTypeOK, Targets, Views, Labels, Guarded, Move, Get, Learn,
        Install, flag, cell, factory
<1>1. CASE SetProvider BY <1>1 DEF SetProvider
<1>2. CASE ResetProvider BY <1>2 DEF ResetProvider
<1>3. ASSUME NEW t \in Threads, Call(t) PROVE ResolutionTypeOK'
  BY <1>3 DEF Call, MayReadNull
<1>4. ASSUME NEW t \in Threads, Spin(t) PROVE ResolutionTypeOK'
  BY <1>4 DEF Spin
<1>5. ASSUME NEW t \in Threads, Recheck(t) PROVE ResolutionTypeOK'
  BY <1>5 DEF Recheck, MayReadNull
<1>6. ASSUME NEW t \in Threads, LoadProvider(t) PROVE ResolutionTypeOK'
  BY <1>6 DEF LoadProvider
<1>7. ASSUME NEW t \in Threads, Create(t) PROVE ResolutionTypeOK'
  BY <1>7 DEF Create
<1>8. ASSUME NEW t \in Threads, Store(t) PROVE ResolutionTypeOK'
  BY <1>8 DEF Store, Chosen, StoredView
<1>9. ASSUME NEW t \in Threads, Release(t) PROVE ResolutionTypeOK'
  BY <1>9 DEF Release, ClearedView
<1>10. ASSUME NEW t \in Threads, Return(t) PROVE ResolutionTypeOK'
  BY <1>10 DEF Return
<1>11. CASE UNCHANGED rvars BY <1>11 DEF rvars
<1> QED
  BY <1>1, <1>2, <1>3, <1>4, <1>5, <1>6, <1>7, <1>8, <1>9, <1>10, <1>11
  DEF ResolutionNext, ResolveStep

\* One step of Resolve() or of its caller keeps the invariant.
LEMMA ResolutionStep == IInv /\ [ResolutionNext]_rvars => IInv'
<1> SUFFICES ASSUME IInv, [ResolutionNext]_rvars PROVE IInv'
  OBVIOUS
<1> USE ResolutionAssumption
    DEF IInv, ResolutionTypeOK, GuardInv, UnresolvedInv, ProgressInv,
        HandOverInv, ConstructionInv, OwnedInv, InGuard, Guarded, Targets,
        Views, Move, Get, Learn, Chosen, Install, flag, cell, factory
<1>0. ResolutionTypeOK'
  BY TypeStep
<1>1. CASE SetProvider
  BY <1>0, <1>1 DEF SetProvider
<1>2. CASE ResetProvider
  BY <1>0, <1>2 DEF ResetProvider
<1>3. ASSUME NEW t \in Threads, Call(t) PROVE IInv'
  <2>1. GuardInv'
    BY <1>0, <1>3 DEF Call, MayReadNull
  <2>2. UnresolvedInv'
    BY <1>0, <1>3 DEF Call, MayReadNull
  <2>3. ProgressInv'
    BY <1>0, <1>3 DEF Call, MayReadNull
  <2>4. HandOverInv'
    BY <1>0, <1>3 DEF Call, MayReadNull
  <2>5. ConstructionInv'
    BY <1>0, <1>3 DEF Call, MayReadNull
  <2>6. OwnedInv'
    BY <1>0, <1>3 DEF Call, MayReadNull
  <2> QED BY <1>0, <2>1, <2>2, <2>3, <2>4, <2>5, <2>6
<1>4. ASSUME NEW t \in Threads, Spin(t) PROVE IInv'
  <2>1. GuardInv'
    BY <1>0, <1>4 DEF Spin
  <2>2. UnresolvedInv'
    BY <1>0, <1>4 DEF Spin
  <2>3. ProgressInv'
    BY <1>0, <1>4 DEF Spin
  <2>4. HandOverInv'
    BY <1>0, <1>4 DEF Spin
  <2>5. ConstructionInv'
    BY <1>0, <1>4 DEF Spin
  <2>6. OwnedInv'
    BY <1>0, <1>4 DEF Spin
  <2> QED BY <1>0, <2>1, <2>2, <2>3, <2>4, <2>5, <2>6
<1>5. ASSUME NEW t \in Threads, Recheck(t) PROVE IInv'
  <2>1. GuardInv'
    BY <1>0, <1>5 DEF Recheck, MayReadNull
  <2>2. UnresolvedInv'
    BY <1>0, <1>5 DEF Recheck, MayReadNull
  <2>3. ProgressInv'
    BY <1>0, <1>5 DEF Recheck, MayReadNull
  <2>4. HandOverInv'
    BY <1>0, <1>5 DEF Recheck, MayReadNull
  <2>5. ConstructionInv'
    BY <1>0, <1>5 DEF Recheck, MayReadNull
  <2>6. OwnedInv'
    BY <1>0, <1>5 DEF Recheck, MayReadNull
  <2> QED BY <1>0, <2>1, <2>2, <2>3, <2>4, <2>5, <2>6
<1>6. ASSUME NEW t \in Threads, LoadProvider(t) PROVE IInv'
  <2>1. GuardInv'
    BY <1>0, <1>6 DEF LoadProvider
  <2>2. UnresolvedInv'
    BY <1>0, <1>6 DEF LoadProvider
  <2>3. ProgressInv'
    BY <1>0, <1>6 DEF LoadProvider
  <2>4. HandOverInv'
    BY <1>0, <1>6 DEF LoadProvider
  <2>5. ConstructionInv'
    BY <1>0, <1>6 DEF LoadProvider
  <2>6. OwnedInv'
    BY <1>0, <1>6 DEF LoadProvider
  <2> QED BY <1>0, <2>1, <2>2, <2>3, <2>4, <2>5, <2>6
<1>7. ASSUME NEW t \in Threads, Create(t) PROVE IInv'
  <2>1. GuardInv'
    BY <1>0, <1>7 DEF Create
  <2>2. UnresolvedInv'
    BY <1>0, <1>7 DEF Create
  <2>3. ProgressInv'
    BY <1>0, <1>7 DEF Create
  <2>4. HandOverInv'
    BY <1>0, <1>7 DEF Create
  <2>5. ConstructionInv'
    BY <1>0, <1>7 DEF Create
  <2>6. OwnedInv'
    BY <1>0, <1>7 DEF Create
  <2> QED BY <1>0, <2>1, <2>2, <2>3, <2>4, <2>5, <2>6
<1>8. ASSUME NEW t \in Threads, Store(t) PROVE IInv'
  <2>1. GuardInv'
    BY <1>0, <1>8 DEF Store, StoredView
  <2>2. UnresolvedInv'
    BY <1>0, <1>8 DEF Store, StoredView
  <2>3. ProgressInv'
    BY <1>0, <1>8 DEF Store, StoredView
  <2>4. HandOverInv'
    BY <1>0, <1>8 DEF Store, StoredView
  <2>5. ConstructionInv'
    BY <1>0, <1>8 DEF Store, StoredView
  <2>6. OwnedInv'
    BY <1>0, <1>8 DEF Store, StoredView
  <2> QED BY <1>0, <2>1, <2>2, <2>3, <2>4, <2>5, <2>6
<1>9. ASSUME NEW t \in Threads, Release(t) PROVE IInv'
  <2>1. GuardInv'
    BY <1>0, <1>9 DEF Release, ClearedView
  <2>2. UnresolvedInv'
    BY <1>0, <1>9 DEF Release, ClearedView
  <2>3. ProgressInv'
    BY <1>0, <1>9 DEF Release, ClearedView
  <2>4. HandOverInv'
    BY <1>0, <1>9 DEF Release, ClearedView
  <2>5. ConstructionInv'
    BY <1>0, <1>9 DEF Release, ClearedView
  <2>6. OwnedInv'
    BY <1>0, <1>9 DEF Release, ClearedView
  <2> QED BY <1>0, <2>1, <2>2, <2>3, <2>4, <2>5, <2>6
<1>10. ASSUME NEW t \in Threads, Return(t) PROVE IInv'
  <2>1. GuardInv'
    BY <1>0, <1>10 DEF Return
  <2>2. UnresolvedInv'
    BY <1>0, <1>10 DEF Return
  <2>3. ProgressInv'
    BY <1>0, <1>10 DEF Return
  <2>4. HandOverInv'
    BY <1>0, <1>10 DEF Return
  <2>5. ConstructionInv'
    BY <1>0, <1>10 DEF Return
  <2>6. OwnedInv'
    BY <1>0, <1>10 DEF Return
  <2> QED BY <1>0, <2>1, <2>2, <2>3, <2>4, <2>5, <2>6
<1>11. CASE UNCHANGED rvars
  BY <1>11 DEF rvars
<1> QED
  BY <1>1, <1>2, <1>3, <1>4, <1>5, <1>6, <1>7, <1>8, <1>9, <1>10, <1>11
  DEF ResolutionNext, ResolveStep

-----------------------------------------------------------------------------
LEMMA ResolutionInvariant == ResolutionSpec => []IInv
BY InitIInv, ResolutionStep, PTL DEF ResolutionSpec

\* A pointer, once in _resolved, stays there: only Store() writes it, and no
\* thread reaches Store() with a pointer in place.
LEMMA ResolvedStays ==
  IInv /\ [ResolutionNext]_rvars => (resolved # Null => resolved' = resolved)
<1> SUFFICES ASSUME IInv, [ResolutionNext]_rvars, resolved # Null
             PROVE  resolved' = resolved
  OBVIOUS
<1>1. \A t \in Threads : ~ Store(t)
  BY DEF IInv, ProgressInv, Store, Move
<1> QED
  BY <1>1
  DEF ResolutionNext, ResolveStep, rvars, cell, SetProvider, ResetProvider,
      Install, Call,
      Spin, Recheck, LoadProvider, Create, Release, Return

\* What a thread knows it does not forget.
LEMMA ViewGrows ==
  ASSUME IInv, [ResolutionNext]_rvars, NEW t \in Threads
  PROVE  Publication \in view[t] => Publication \in view'[t]
BY DEF IInv, ResolutionTypeOK, ResolutionNext, ResolveStep, rvars, SetProvider,
       ResetProvider, Call, Spin, Recheck, LoadProvider, Create, Store,
       Release, Return, Learn, Install

\* A step of Resolve() by one thread leaves the others where they are, and
\* does not bring its own back to the start.
LEMMA ResolveFrame ==
  ASSUME IInv, NEW t \in Threads, ResolveStep(t)
  PROVE  /\ pc[t] \notin {"idle", "ready"} /\ pc'[t] # "idle"
         /\ \A u \in Threads \ {t} : pc'[u] = pc[u]
BY DEF IInv, ResolutionTypeOK, ResolveStep, Spin, Recheck, LoadProvider,
       Create, Store, Release, Move

\* The variables keep their types and Resolve() never returns null.
THEOREM ResolutionTypeCorrect == ResolutionSpec => []ResolutionTypeOK
<1>1. IInv => ResolutionTypeOK
  BY DEF IInv
<1> QED BY <1>1, ResolutionInvariant, PTL

\* The factory of the platform is called at most once per wrapper.
THEOREM FactoryAskedOnce == ResolutionSpec => []AskedOnce
<1>1. IInv => AskedOnce
  BY DEF IInv, OwnedInv, AskedOnce
<1> QED BY <1>1, ResolutionInvariant, PTL

\* No thread, on the fast path or on the slow one, uses a primitive whose
\* construction it may not see yet.
THEOREM SafePublication == ResolutionSpec => []PublishedBeforeUse
<1>1. ASSUME IInv PROVE PublishedBeforeUse
  <2> SUFFICES ASSUME NEW t \in Threads, pc[t] = "ready", ref[t] \in Prims
               PROVE  ref[t] \in view[t]
    BY DEF PublishedBeforeUse
  <2>1. ref[t] = resolved /\ Publication \in view[t]
    BY <1>1 DEF IInv, ProgressInv
  <2> QED BY <1>1, <2>1 DEF IInv, ConstructionInv
<1> QED BY <1>1, ResolutionInvariant, PTL

\* All threads use one primitive, and it is alive.
THEOREM OnePrimitiveForAll == ResolutionSpec => []OneLivePrimitive
<1>1. IInv => OneLivePrimitive
  BY DEF IInv, ProgressInv, OwnedInv, OneLivePrimitive
<1> QED BY <1>1, ResolutionInvariant, PTL

\* The choice is made once, however the provider slot changes later.
THEOREM ChoiceIsPermanent == ResolutionSpec => ResolvedForGood
BY ResolutionInvariant, ResolvedStays, PTL
DEF ResolutionSpec, ResolvedForGood

-----------------------------------------------------------------------------
(* The part of ResolveTerminates that is safety: the flag is never left    *)
(* behind, and who has it never goes back.                                 *)

\* The flag is set while a thread is between the constructor and the destructor
\* of ResolutionGuard, and only then.
FlagHasItsThread == guard <=> \E t \in Threads : InGuard(t)

\* Where no thread leaves the guard, and nobody but one who takes the flag
\* enters it, the flag keeps its thread.
LEMMA FlagStep ==
  IInv /\ FlagHasItsThread /\ [ResolutionNext]_rvars => FlagHasItsThread'
<1> SUFFICES ASSUME IInv, FlagHasItsThread, [ResolutionNext]_rvars, guard'
             PROVE  \E t \in Threads : InGuard(t)'
  BY ResolutionStep DEF FlagHasItsThread, IInv, GuardInv
<1>1. pc \in [Threads -> Labels]
  BY DEF IInv, ResolutionTypeOK
<1>2. ASSUME NEW t \in Threads, Spin(t) PROVE InGuard(t)'
  BY <1>1, <1>2 DEF Spin, Move, InGuard, Guarded
<1>3. ASSUME NEW t \in Threads, Release(t) PROVE FALSE
  BY <1>3 DEF Release
<1>4. ASSUME NEW t \in Threads,
             \/ Call(t) \/ Return(t)
             \/ Recheck(t) \/ LoadProvider(t) \/ Create(t) \/ Store(t)
      PROVE  \E u \in Threads : InGuard(u)'
  <2>1. PICK u \in Threads : InGuard(u)
    BY <1>4
    DEF FlagHasItsThread, Call, Return, Recheck, LoadProvider, Create, Store,
        flag
  <2>2. InGuard(u)'
    BY <1>1, <1>4, <2>1
    DEF Call, Return, Recheck, LoadProvider, Create, Store, Move, InGuard,
        Guarded
  <2> QED BY <2>2
<1>5. CASE SetProvider \/ ResetProvider \/ UNCHANGED rvars
  BY <1>5
  DEF FlagHasItsThread, SetProvider, ResetProvider, Install, rvars, flag,
      InGuard
<1> QED BY <1>2, <1>3, <1>4, <1>5 DEF ResolutionNext, ResolveStep

\* The flag is never leaked, also when the platform's factory throws or returns
\* nothing (lines 142-155 and 173): a thread that spins waits for a thread.
THEOREM NobodyLeavesTheFlag == ResolutionSpec => []FlagHasItsThread
<1>1. ResolutionInit => FlagHasItsThread
  BY DEF ResolutionInit, FlagHasItsThread, InGuard, Guarded
<1> QED BY <1>1, ResolutionInvariant, FlagStep, PTL DEF ResolutionSpec

\* Once there is a pointer in _resolved, who has the flag only leaves.
HoldersJustLeave ==
  \A t \in Threads :
    InGuard(t) /\ resolved # Null /\ pc'[t] # pc[t] =>
      pc'[t] \in {"release", "ready"}

\* Who gets the flag after the store finds the pointer and clears the flag: it
\* cannot miss it, although the second load is relaxed (line 168), and so the
\* platform is not asked again.
THEOREM NoSecondResolution == ResolutionSpec => [][HoldersJustLeave]_rvars
<1>1. ASSUME IInv, ResolutionNext PROVE HoldersJustLeave
  <2> SUFFICES ASSUME NEW t \in Threads,
                      InGuard(t), resolved # Null, pc'[t] # pc[t]
               PROVE  pc'[t] \in {"release", "ready"}
    BY DEF HoldersJustLeave
  <2>1. pc[t] \in {"recheck", "release"} /\ pc \in [Threads -> Labels]
    BY <1>1 DEF InGuard, Guarded, IInv, ProgressInv, ResolutionTypeOK
  <2>2. pc[t] = "recheck" => Publication \in view[t]
    BY <1>1 DEF IInv, HandOverInv
  <2>3. ASSUME NEW u \in Threads, Call(u) \/ ResolveStep(u) \/ Return(u)
        PROVE  pc'[t] \in {"release", "ready"}
    <3>1. u = t
      BY <2>1, <2>3
      DEF Call, ResolveStep, Return, Spin, Recheck, LoadProvider, Create, Store,
          Release, Move
    <3>2. Recheck(t) \/ Release(t)
      BY <2>1, <2>3, <3>1
      DEF Call, ResolveStep, Return, Spin, LoadProvider, Create, Store, Move
    <3> QED
      BY <2>1, <2>2, <3>2 DEF Recheck, Release, Move, MayReadNull
  <2>4. CASE SetProvider \/ ResetProvider
    BY <2>4 DEF SetProvider, ResetProvider, Install
  <2> QED BY <1>1, <2>3, <2>4 DEF ResolutionNext
<1> QED BY <1>1, ResolutionInvariant, PTL DEF ResolutionSpec
=============================================================================
