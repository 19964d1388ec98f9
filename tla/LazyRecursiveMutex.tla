------------------------- MODULE LazyRecursiveMutex -------------------------
(***************************************************************************)
(* RecursiveMutex (src/src/ESPressio_Synchronization.hpp:190-219): Mutex   *)
(* with primitives that count, std::recursive_mutex (the fallback) and     *)
(* what the platform's CreateRecursiveMutex() returns, known by the        *)
(* contract of IRecursiveMutex.                                            *)
(*                                                                         *)
(* Callers lock whenever they like, up to MaxDepth times, and unlock only  *)
(* what they locked.                                                       *)
(***************************************************************************)
EXTENDS LazyResolution

CONSTANT MaxDepth   \* bound on how deep a thread locks

ASSUME RecursiveAssumption == Null \notin Threads /\ MaxDepth \in Nat \ {0}

VARIABLES
  op,       \* the method each thread is in
  holder,   \* the owner of each primitive
  count,    \* how often the owner holds each primitive
  level     \* how many more lock()s than unlock()s each thread has made

mvars == <<op, holder, count, level>>
vars == <<rvars, mvars>>

Ops == {"lock", "try_lock", "unlock"}

Init ==
  /\ ResolutionInit
  /\ op = [t \in Threads |-> "none"]
  /\ holder = [o \in Targets |-> Null]
  /\ count = [o \in Targets |-> 0]
  /\ level = [t \in Threads |-> 0]

Begin(t, m) ==
  /\ IF m = "unlock" THEN level[t] > 0 ELSE level[t] < MaxDepth
  /\ Call(t)
  /\ op' = [op EXCEPT ![t] = m]
  /\ UNCHANGED <<holder, count, level>>

Resolve(t) == ResolveStep(t) /\ UNCHANGED mvars

\* The forwarded call has its effect and the method returns.
Finish(t) == Return(t) /\ op' = [op EXCEPT ![t] = "none"]

\* Wrong variant: a fallback that does not count.
MayTakeWrong(t, o) == holder[o] = Null

MayTake(t, o) == holder[o] \in {t, Null}

\* Lock(), and TryLock() that returns true.
Acquire(t) ==
  /\ op[t] \in {"lock", "try_lock"}
  /\ Finish(t)
  /\ MayTake(t, ref[t])
  /\ holder' = [holder EXCEPT ![ref[t]] = t]
  /\ count' = [count EXCEPT ![ref[t]] = @ + 1]
  /\ level' = [level EXCEPT ![t] = @ + 1]

\* TryLock() that returns false; std::recursive_mutex may do so spuriously.
TryFail(t) ==
  /\ op[t] = "try_lock"
  /\ Finish(t)
  /\ UNCHANGED <<holder, count, level>>

\* Unlock(): the last one frees the primitive.
Unlock(t) ==
  /\ op[t] = "unlock"
  /\ Finish(t)
  /\ count' = [count EXCEPT ![ref[t]] = @ - 1]
  /\ holder' = [holder EXCEPT ![ref[t]] = IF count[ref[t]] = 1 THEN Null ELSE @]
  /\ level' = [level EXCEPT ![t] = @ - 1]

ThreadStep(t) ==
  \/ \E m \in Ops : Begin(t, m)
  \/ Resolve(t)
  \/ Acquire(t) \/ TryFail(t) \/ Unlock(t)

Next ==
  \/ (SetProvider \/ ResetProvider) /\ UNCHANGED mvars
  \/ \E t \in Threads : ThreadStep(t)

\* As for Mutex; and Lock() by the owner does not wait for anybody.
Fairness ==
  \A t \in Threads :
    /\ WF_vars(Resolve(t))
    /\ WF_vars(level[t] > 0 /\ Acquire(t))

Spec == Init /\ [][Next]_vars
FairSpec == Spec /\ Fairness

-----------------------------------------------------------------------------
\* Every variable has its type.
TypeOK ==
  /\ ResolutionTypeOK
  /\ op \in [Threads -> Ops \cup {"none"}]
  /\ holder \in [Targets -> Threads \cup {Null}]
  /\ count \in [Targets -> 0..MaxDepth]
  /\ level \in [Threads -> 0..MaxDepth]

\* At most one thread holds the lock, at whatever depth.
MutualExclusion ==
  \A t, u \in Threads : level[t] > 0 /\ level[u] > 0 => t = u

\* Every level of a nested lock() was taken on one primitive: an unlock()
\* reaches it on the fast path and finds all the levels of its thread there
\* (line 218), so that the last one frees it.
UnlockFindsItsLevels ==
  \A t \in Threads :
    op[t] = "unlock" =>
      pc[t] = "ready" /\ holder[ref[t]] = t /\ count[ref[t]] = level[t]

\* The owner never waits for the lock it has: a nested lock() returns.
NestedLockReturns ==
  \A t \in Threads : level[t] > 0 /\ op[t] = "lock" ~> op[t] = "none"

\* The wrapper is one reentrant lock.
Contract == INSTANCE AbstractLock WITH
  Reentrant <- TRUE,
  depth <- level,
  readers <- {}
ImplementsLock == Contract!LockSpec
=============================================================================
