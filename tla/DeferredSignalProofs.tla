------------------------ MODULE DeferredSignalProofs ------------------------
(***************************************************************************)
(* Proofs about DeferredSignal, for any tasks, interrupts and signals.     *)
(*                                                                         *)
(* As in LazyResolutionProofs the argument follows the knowledge of the    *)
(* store into _resolved, which _mutex hands on.  Two things are different: *)
(* nothing may have been stored when a task leaves _mutex, so that the     *)
(* next one asks again, and the state of the signal that is about to be    *)
(* stored has to be the one that was asked for.                            *)
(***************************************************************************)
EXTENDS DeferredSignal, TLAPS

InMutex(t) == pc[t] \in {"recheck", "provider", "create", "store", "unlock"}

\* One caller at a time holds the lock_guard of Resolve().
MutexInv == \A t \in Callers : InMutex(t) => holder = t

\* Before the store nobody can know of it.
UnresolvedInv ==
  resolved = Null =>
    /\ \A t \in Callers : Publication \notin view[t]
    /\ Publication \notin lockView

\* What a caller has in "resolved" or "signal" at each place: nothing before
\* it loads, the new signal before it stores it, then the one in _resolved.
ProgressInv ==
  \A t \in Callers :
    /\ pc[t] \notin {"store", "unlock", "ready"} => ref[t] = Null
    /\ pc[t] \in {"provider", "create", "store"} => resolved = Null
    /\ pc[t] = "store" => ref[t] # Null /\ ref[t] = signal /\ ref[t] \in view[t]
    /\ pc[t] \in {"unlock", "ready"} /\ ref[t] # Null =>
         ref[t] = resolved /\ Publication \in view[t]
    /\ pc[t] = "unlock" /\ ref[t] = Null => resolved = Null

\* _mutex hands the knowledge of the store on, unless everybody has it.
HandOverInv ==
  resolved # Null =>
    /\ holder = Null =>
         \/ Publication \in lockView
         \/ \A t \in Callers : Publication \in view[t]
    /\ \A t \in Callers : pc[t] = "recheck" => Publication \in view[t]

\* Who knows of the store knows of the construction, and _signal is it.
ConstructionInv ==
  resolved # Null =>
    /\ signal = resolved
    /\ resolved \in resolvedView
    /\ Publication \in lockView => resolved \in lockView
    /\ \A t \in Callers : Publication \in view[t] => resolved \in view[t]

\* A call that began when the signal was resolved cannot end up refused; who
\* is in a method has an op; interrupts only give.
CallInv ==
  \A t \in Callers :
    /\ pc[t] = "idle" <=> op[t] = "none"
    /\ t \in due => resolved # Null /\ pc[t] \notin {"idle", "refused"}
    /\ t \in Interrupts =>
         /\ op[t] \in {"none", "give_from_interrupt"}
         /\ ~InMutex(t) /\ pc[t] # "lock"
    /\ t \in Tasks => op[t] # "give_from_interrupt"

\* The signal about to be stored has the state that was asked for.
StateInv ==
  \A t \in Callers : pc[t] = "store" => state[ref[t]] = initiallySet

DInv ==
  /\ TypeOK
  /\ MutexInv /\ UnresolvedInv /\ ProgressInv
  /\ HandOverInv /\ ConstructionInv /\ CallInv /\ StateInv

-----------------------------------------------------------------------------
USE DEF Install, call, mutex, cell, factory, Move, Get, Learn, InMutex

LEMMA InitDInv == Init => DInv
<1> SUFFICES ASSUME Init PROVE DInv
  OBVIOUS
<1> USE SignalAssumption DEF Init, Direct, Deferred, Callers
<1>1. TypeOK
  <2>1. state \in [Signals -> BOOLEAN]
    <3>1. CASE Deferred BY <3>1
    <3>2. ASSUME NEW s \in Signals,
                 state = [x \in Signals |-> x = s /\ initiallySet]
          PROVE  state \in [Signals -> BOOLEAN]
      BY <3>2, Zenon
    <3> QED BY <3>1, <3>2
  <2>2. {initiallySet, installed, terminated} \subseteq BOOLEAN
    OBVIOUS
  <2> QED BY <2>1, <2>2 DEF TypeOK, Views, Labels
<1>2. MutexInv BY DEF MutexInv
<1>3. UnresolvedInv BY DEF UnresolvedInv
<1>4. ProgressInv BY DEF ProgressInv
<1>5. HandOverInv BY DEF HandOverInv
<1>6. ConstructionInv BY DEF ConstructionInv
<1>7. CallInv BY DEF CallInv
<1>8. StateInv BY DEF StateInv
<1> QED BY <1>1, <1>2, <1>3, <1>4, <1>5, <1>6, <1>7, <1>8 DEF DInv

LEMMA TypeStep == TypeOK /\ ProgressInv /\ [Next]_vars => TypeOK'
<1> SUFFICES ASSUME TypeOK, ProgressInv, [Next]_vars PROVE TypeOK'
  OBVIOUS
<1> USE SignalAssumption DEF TypeOK, Views, Labels
<1>1. CASE SetProvider \/ ResetProvider
  BY <1>1 DEF SetProvider, ResetProvider
<1>2. ASSUME NEW t \in Callers, NEW m \in TaskOps, Call(t, m) PROVE TypeOK'
  BY <1>2 DEF Call, LoadResolved, TaskOps
<1>3. ASSUME NEW t \in Callers, CallFromInterrupt(t) PROVE TypeOK'
  BY <1>3 DEF CallFromInterrupt, LoadResolved, WithoutResolve
<1>4. ASSUME NEW t \in Callers, LockMutex(t) PROVE TypeOK'
  BY <1>4 DEF LockMutex
<1>5. ASSUME NEW t \in Callers, Recheck(t) PROVE TypeOK'
  BY <1>5 DEF Recheck
<1>6. ASSUME NEW t \in Callers, LoadProvider(t) PROVE TypeOK'
  BY <1>6 DEF LoadProvider
<1>7. ASSUME NEW t \in Callers, Create(t) PROVE TypeOK'
  <2>1. state' \in [Signals -> BOOLEAN]
    BY <1>7 DEF Create, FirstState
  <2>2. {initiallySet, installed, terminated}' \subseteq BOOLEAN
    BY <1>7 DEF Create
  <2> QED BY <1>7, <2>1, <2>2 DEF Create
<1>8. ASSUME NEW t \in Callers, Store(t) PROVE TypeOK'
  BY <1>8 DEF Store, StoredView, ProgressInv
<1>9. ASSUME NEW t \in Callers, UnlockMutex(t) PROVE TypeOK'
  BY <1>9 DEF UnlockMutex, Outcome
<1>10. ASSUME NEW t \in Callers,
              Give(t) \/ Take(t) \/ TimeOut(t) \/ Reset(t) \/ Refuse(t)
       PROVE  TypeOK'
  BY <1>10 DEF Give, Take, TimeOut, Reset, Refuse, Finish, Become
<1>11. CASE UNCHANGED vars
  BY <1>11 DEF vars
<1> QED
  BY <1>1, <1>2, <1>3, <1>4, <1>5, <1>6, <1>7, <1>8, <1>9, <1>10, <1>11
  DEF Next, Continue

LEMMA SignalStep == DInv /\ [Next]_vars => DInv'
<1> SUFFICES ASSUME DInv, [Next]_vars PROVE DInv'
  OBVIOUS
<1> USE SignalAssumption
    DEF DInv, TypeOK, MutexInv, UnresolvedInv, ProgressInv, HandOverInv,
        ConstructionInv, CallInv, StateInv, Callers
<1>0. TypeOK'
  BY TypeStep
<1>1. CASE SetProvider \/ ResetProvider
  BY <1>0, <1>1 DEF SetProvider, ResetProvider
<1>2. ASSUME NEW t \in Callers, NEW m \in TaskOps, Call(t, m) PROVE DInv'
  BY <1>0, <1>2 DEF Call, LoadResolved, MayReadNull, TaskOps
<1>3. ASSUME NEW t \in Callers, CallFromInterrupt(t) PROVE DInv'
  BY <1>0, <1>3 DEF CallFromInterrupt, LoadResolved, MayReadNull, WithoutResolve
<1>4. ASSUME NEW t \in Callers, LockMutex(t) PROVE DInv'
  BY <1>0, <1>4 DEF LockMutex
<1>5. ASSUME NEW t \in Callers, Recheck(t) PROVE DInv'
  BY <1>0, <1>5 DEF Recheck, MayReadNull
<1>6. ASSUME NEW t \in Callers, LoadProvider(t) PROVE DInv'
  BY <1>0, <1>6 DEF LoadProvider
<1>7. ASSUME NEW t \in Callers, Create(t) PROVE DInv'
  BY <1>0, <1>7 DEF Create, FirstState
<1>8. ASSUME NEW t \in Callers, Store(t) PROVE DInv'
  BY <1>0, <1>8 DEF Store, StoredView
<1>9. ASSUME NEW t \in Callers, UnlockMutex(t) PROVE DInv'
  BY <1>0, <1>9 DEF UnlockMutex, Outcome
<1>10. ASSUME NEW t \in Callers,
              Give(t) \/ Take(t) \/ TimeOut(t) \/ Reset(t) \/ Refuse(t)
       PROVE  DInv'
  BY <1>0, <1>10 DEF Give, Take, TimeOut, Reset, Refuse, Finish, Become
<1>11. CASE UNCHANGED vars
  BY <1>0, <1>11 DEF vars
<1> QED
  BY <1>1, <1>2, <1>3, <1>4, <1>5, <1>6, <1>7, <1>8, <1>9, <1>10, <1>11
  DEF Next, Continue

LEMMA SignalInvariant == Spec => []DInv
BY InitDInv, SignalStep, PTL DEF Spec

\* The variables keep their types, and nobody uses a null signal.
THEOREM TypeCorrect == Spec => []TypeOK
<1>1. DInv => TypeOK
  BY DEF DInv
<1> QED BY <1>1, SignalInvariant, PTL

\* Whoever uses the platform's signal, an interrupt too, happens after its
\* construction.
THEOREM SafePublication == Spec => []SignalPublished
<1>1. DInv => SignalPublished
  BY SignalAssumption
  DEF DInv, TypeOK, ProgressInv, ConstructionInv, SignalPublished, Callers
<1> QED BY <1>1, SignalInvariant, PTL

\* One signal for all, which _signal keeps alive, however often the platform
\* was asked.
THEOREM OneSignalForAll == Spec => []OneLiveSignal
<1>1. DInv => OneLiveSignal
  BY SignalAssumption
  DEF DInv, TypeOK, ProgressInv, ConstructionInv, OneLiveSignal, Callers
<1> QED BY <1>1, SignalInvariant, PTL

-----------------------------------------------------------------------------
(* The parts of InterruptReturns and SettlesOnceResolved that are safety.  *)

\* A handler that began GiveFromInterrupt() has its answer already or has the
\* signal: it neither asks the platform nor waits for _mutex (lines 298-303).
InterruptKeepsOut ==
  \A t \in Interrupts : pc[t] \in {"idle", "ready", "refused"}

\* An interrupt handler never comes to a place where it could wait.
THEOREM InterruptNeverWaits == Spec => []InterruptKeepsOut
<1>1. DInv => InterruptKeepsOut
  BY DEF DInv, TypeOK, CallInv, Labels, Callers, InterruptKeepsOut
<1> QED BY <1>1, SignalInvariant, PTL

\* _mutex is locked while a task is in the scope of its lock_guard, and only
\* then.
MutexHasItsTask ==
  \A t \in Callers : holder = t <=> InMutex(t)

LEMMA MutexStep == DInv /\ MutexHasItsTask /\ [Next]_vars => MutexHasItsTask'
<1> SUFFICES ASSUME DInv, MutexHasItsTask, [Next]_vars,
                    NEW u \in Callers, (holder = u)'
             PROVE  InMutex(u)'
  BY SignalStep DEF DInv, MutexInv, MutexHasItsTask
<1>1. pc \in [Callers -> Labels] /\ Null \notin Callers
  BY SignalAssumption DEF DInv, TypeOK
<1>2. ASSUME NEW t \in Callers, LockMutex(t) PROVE InMutex(u)'
  BY <1>1, <1>2 DEF LockMutex
<1>3. ASSUME NEW t \in Callers, UnlockMutex(t) PROVE FALSE
  BY <1>1, <1>3 DEF UnlockMutex
<1>4. ASSUME NEW t \in Callers,
             \/ CallFromInterrupt(t) \/ \E m \in TaskOps : Call(t, m)
             \/ Recheck(t) \/ LoadProvider(t) \/ Create(t) \/ Store(t)
             \/ Give(t) \/ Take(t) \/ TimeOut(t) \/ Reset(t) \/ Refuse(t)
      PROVE  InMutex(u)'
  <2>1. InMutex(u)
    BY <1>4
    DEF MutexHasItsTask, CallFromInterrupt, Call, LoadResolved, Recheck,
        LoadProvider, Create, Store, Give, Take, TimeOut, Reset, Refuse, Finish
  <2> QED
    BY <1>1, <1>4, <2>1
    DEF CallFromInterrupt, Call, LoadResolved, WithoutResolve, Recheck,
        LoadProvider, Create, Store, Give, Take, TimeOut, Reset, Refuse, Finish
<1>5. CASE SetProvider \/ ResetProvider \/ UNCHANGED vars
  BY <1>5 DEF MutexHasItsTask, SetProvider, ResetProvider, vars
<1> QED BY <1>2, <1>3, <1>4, <1>5 DEF Next, Continue

\* No return of Resolve() keeps _mutex locked (lines 269-282), also when the
\* platform returns nothing: who waits for it waits for a task that goes on.
THEOREM MutexNeverLeftBehind == Spec => []MutexHasItsTask
<1>1. Init => MutexHasItsTask
  BY SignalAssumption DEF Init, MutexHasItsTask
<1> QED BY <1>1, SignalInvariant, MutexStep, PTL DEF Spec

\* Once there is a pointer in _resolved, who has _mutex only leaves: nobody
\* asks the platform again, although the second load is relaxed (line 270).
HoldersJustUnlock ==
  \A t \in Callers :
    InMutex(t) /\ resolved # Null /\ pc'[t] # pc[t] =>
      pc'[t] \in {"unlock", "ready"}

\* A task that gets _mutex after the store finds the signal there, and
\* succeeds.
THEOREM NoSecondSignal == Spec => [][HoldersJustUnlock]_vars
<1>1. ASSUME DInv, Next PROVE HoldersJustUnlock
  <2> SUFFICES ASSUME NEW t \in Callers,
                      InMutex(t), resolved # Null, pc'[t] # pc[t]
               PROVE  pc'[t] \in {"unlock", "ready"}
    BY DEF HoldersJustUnlock
  <2>1. pc[t] \in {"recheck", "unlock"} /\ pc \in [Callers -> Labels]
    BY <1>1 DEF DInv, ProgressInv, TypeOK
  <2>2. pc[t] = "recheck" => Publication \in view[t]
    BY <1>1 DEF DInv, HandOverInv
  <2>3. ASSUME NEW u \in Callers,
               \/ CallFromInterrupt(u) \/ \E m \in TaskOps : Call(u, m)
               \/ Continue(u)
        PROVE  pc'[t] \in {"unlock", "ready"}
    <3>1. Recheck(t) \/ UnlockMutex(t)
      BY <2>1, <2>3
      DEF CallFromInterrupt, Call, LoadResolved, Continue, LockMutex, Recheck,
          LoadProvider, Create, Store, UnlockMutex, Give, Take, TimeOut, Reset,
          Refuse, Finish
    <3>2. CASE Recheck(t)
      BY <2>1, <2>2, <3>2 DEF Recheck, MayReadNull
    <3>3. CASE UnlockMutex(t)
      BY <1>1, <2>1, <3>3 DEF UnlockMutex, Outcome, DInv, ProgressInv
    <3> QED BY <3>1, <3>2, <3>3
  <2>4. CASE SetProvider \/ ResetProvider
    BY <2>4 DEF SetProvider, ResetProvider
  <2> QED BY <1>1, <2>3, <2>4 DEF Next
<1> QED BY <1>1, SignalInvariant, PTL DEF Spec

-----------------------------------------------------------------------------
(* The refinement.                                                         *)

Set == IF resolved = Null THEN initiallySet ELSE state[resolved]
Available == resolved # Null

\* Whoever ends a method with an effect has the one signal.
LEMMA ReadyFinds ==
  ASSUME DInv, NEW t \in Callers, Finish(t, "ready")
  PROVE  /\ ref[t] = resolved /\ resolved \in Signals /\ resolved # Null
         /\ resolved' = resolved
BY SignalAssumption
DEF DInv, TypeOK, ProgressInv, Finish

LEMMA SetReset ==
  ASSUME DInv, NEW t \in Callers, Finish(t, "ready"),
         NEW b \in BOOLEAN, Become(ref[t], b)
  PROVE  Set' = b
<1>1. ref[t] = resolved /\ resolved \in Signals /\ resolved' = resolved
      /\ resolved # Null
  BY ReadyFinds
<1>2. state' = [state EXCEPT ![resolved] = b]
  BY <1>1 DEF Become
<1>3. state'[resolved] = b
  BY <1>1, <1>2 DEF DInv, TypeOK
<1> QED BY <1>1, <1>3 DEF Set

\* The new signal takes over the state of the wrapper.
LEMMA StoreKeepsSet ==
  ASSUME DInv, NEW t \in Callers, Store(t)
  PROVE  Set' = Set /\ Available' = TRUE /\ UNCHANGED <<op, due>>
<1>1. resolved = Null /\ resolved' = ref[t] /\ ref[t] # Null
  BY DEF Store, DInv, ProgressInv
<1>2. state' = state /\ initiallySet' = initiallySet
  BY DEF Store
<1>3. state[ref[t]] = initiallySet
  BY DEF Store, DInv, StateInv
<1> QED BY <1>1, <1>2, <1>3 DEF Set, Available, Store

LEMMA OthersKeepSet ==
  ASSUME DInv, NEW t \in Callers,
         \/ LockMutex(t) \/ Recheck(t) \/ LoadProvider(t) \/ Create(t)
         \/ UnlockMutex(t) \/ SetProvider \/ ResetProvider
  PROVE  Set' = Set /\ Available' = Available /\ UNCHANGED <<op, due>>
<1>1. resolved' = resolved /\ initiallySet' = initiallySet
      /\ UNCHANGED <<op, due>>
  BY DEF LockMutex, Recheck, LoadProvider, Create, UnlockMutex, SetProvider,
         ResetProvider
<1>2. state' = state \/ resolved = Null
  BY DEF LockMutex, Recheck, LoadProvider, Create, UnlockMutex, SetProvider,
         ResetProvider, DInv, ProgressInv
<1> QED BY <1>1, <1>2 DEF Set, Available

\* A method ends for the caller, and the abstract call with it.
LEMMA FinishEnds ==
  ASSUME DInv, NEW t \in Callers, NEW label, Finish(t, label)
  PROVE  /\ op' = [op EXCEPT ![t] = "none"] /\ due' = due \ {t}
         /\ Available' = Available
BY DEF Finish, Available

\* The wrapper implements one binary signal that becomes available at some
\* moment and from then on refuses no call that a task begins.
THEOREM SignalImplementsContract == Spec => ImplementsSignal
<1>1. Init => Contract!SignalInit
  <2> SUFFICES ASSUME Init PROVE Contract!SignalInit
    OBVIOUS
  <2>1. Set \in BOOLEAN
    BY SignalAssumption, InitDInv DEF DInv, TypeOK, Set
  <2> QED
    BY <2>1 DEF Init, Set, Callers, Contract!SignalInit
<1>2. DInv /\ [Next]_vars => [Contract!SignalNext]_(Contract!svars)
  <2> SUFFICES ASSUME DInv, [Next]_vars
               PROVE  [Contract!SignalNext]_(Contract!svars)
    OBVIOUS
  <2>1. ASSUME NEW t \in Callers, NEW m \in TaskOps, Call(t, m)
        PROVE  t \in Tasks /\ Contract!Begin(t, m)
    <3>1. op[t] = "none" /\ t \in Tasks
      BY <2>1 DEF Call, LoadResolved, DInv, CallInv
    <3>2. UNCHANGED <<initiallySet, resolved, state>>
      BY <2>1 DEF Call, LoadResolved
    <3> QED
      BY <2>1, <3>1, <3>2 DEF Call, Contract!Begin
  <2>2. ASSUME NEW t \in Callers, CallFromInterrupt(t)
        PROVE  t \in Interrupts /\ Contract!Begin(t, "give_from_interrupt")
    <3>1. op[t] = "none" /\ t \in Interrupts /\ t \notin Tasks
      BY <2>2, SignalAssumption
      DEF CallFromInterrupt, LoadResolved, DInv, CallInv
    <3>2. UNCHANGED <<initiallySet, resolved, state>>
      BY <2>2 DEF CallFromInterrupt, LoadResolved
    <3> QED
      BY <2>2, <3>1, <3>2 DEF CallFromInterrupt, Contract!Begin
  <2>3. ASSUME NEW t \in Callers, Store(t) PROVE Contract!BecomeAvailable
    BY <2>3, StoreKeepsSet DEF Contract!BecomeAvailable, Set, Available
  <2>4. ASSUME NEW t \in Callers, Give(t) PROVE Contract!Give(t)
    <3>1. Finish(t, "ready") /\ Set' = TRUE
      BY <2>4, SetReset DEF Give
    <3> QED
      BY <2>4, <3>1, ReadyFinds, FinishEnds
      DEF Give, Set, Available, Contract!Give, Contract!Gives, Contract!End
  <2>5. ASSUME NEW t \in Callers, Take(t) PROVE Contract!Take(t)
    <3>1. Finish(t, "ready") /\ Set' = FALSE
      BY <2>5, SetReset DEF Take
    <3>2. Set
      BY <2>5, <3>1, ReadyFinds DEF Take, Set
    <3> QED
      BY <2>5, <3>1, <3>2, ReadyFinds, FinishEnds
      DEF Take, Set, Available, Contract!Take, Contract!Waits, Contract!End
  <2>6. ASSUME NEW t \in Callers, TimeOut(t) PROVE Contract!TimeOut(t)
    <3>1. Finish(t, "ready") /\ state' = state /\ initiallySet' = initiallySet
      BY <2>6 DEF TimeOut, Finish
    <3>2. ~Set /\ Set' = Set
      BY <2>6, <3>1, ReadyFinds DEF TimeOut, Set
    <3> QED
      BY <2>6, <3>1, <3>2, ReadyFinds, FinishEnds
      DEF TimeOut, Set, Available, Contract!TimeOut, Contract!End
  <2>7. ASSUME NEW t \in Callers, Reset(t) PROVE Contract!Reset(t)
    <3>1. Finish(t, "ready") /\ Set' = FALSE
      BY <2>7, SetReset DEF Reset
    <3> QED
      BY <2>7, <3>1, ReadyFinds, FinishEnds
      DEF Reset, Set, Available, Contract!Reset, Contract!End
  <2>8. ASSUME NEW t \in Callers, Refuse(t) PROVE Contract!Refuse(t)
    <3>1. op[t] # "none" /\ t \notin due
      BY <2>8 DEF Refuse, Finish, DInv, CallInv
    <3>2. Finish(t, "refused") /\ Set' = Set
      BY <2>8 DEF Refuse, Finish, Set
    <3> QED
      BY <3>1, <3>2, FinishEnds
      DEF Set, Available, Contract!Refuse, Contract!End
  <2>9. ASSUME NEW t \in Callers,
               \/ LockMutex(t) \/ Recheck(t) \/ LoadProvider(t) \/ Create(t)
               \/ UnlockMutex(t) \/ SetProvider \/ ResetProvider
        PROVE  UNCHANGED Contract!svars
    BY <2>9, OthersKeepSet DEF Contract!svars, Set, Available
  <2>10. CASE UNCHANGED vars
    BY <2>10 DEF vars, Contract!svars
  <2>11. CASE SetProvider \/ ResetProvider
    BY <2>11 DEF SetProvider, ResetProvider, Contract!svars
  <2>12. TaskOps = Contract!Waits \cup {"give", "reset"}
    BY DEF TaskOps, Contract!Waits
  <2> QED
    BY <2>1, <2>2, <2>3, <2>4, <2>5, <2>6, <2>7, <2>8, <2>9, <2>10, <2>11,
       <2>12
    DEF Next, Continue, Contract!SignalNext, Callers
<1> QED
  BY <1>1, <1>2, SignalInvariant, PTL
  DEF Spec, ImplementsSignal, Contract!SignalSpec
=============================================================================
