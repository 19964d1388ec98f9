------------------------------ MODULE LazyMutex ------------------------------
(***************************************************************************)
(* Mutex (src/src/ESPressio_Synchronization.hpp:158-187): every method     *)
(* calls Resolve() and forwards to the primitive it returns.  The          *)
(* primitives are std::mutex (StandardMutex, the fallback) and whatever    *)
(* the platform's CreateMutex() returns, known by the contract of IMutex.  *)
(*                                                                         *)
(* Callers keep the rules of a non-recursive mutex: a thread locks when it *)
(* does not hold the mutex and unlocks when it does.                       *)
(***************************************************************************)
EXTENDS LazyResolution

ASSUME MutexAssumption == Null \notin Threads

VARIABLES
  op,       \* the method each thread is in
  holder,   \* the owner of each primitive
  inside    \* the threads whose lock() or try_lock() succeeded

mvars == <<op, holder, inside>>
vars == <<rvars, mvars>>

Ops == {"lock", "try_lock", "unlock"}

Init ==
  /\ ResolutionInit
  /\ op = [t \in Threads |-> "none"]
  /\ holder = [o \in Targets |-> Null]
  /\ inside = {}

Begin(t, m) ==
  /\ m = "unlock" <=> t \in inside
  /\ Call(t)
  /\ op' = [op EXCEPT ![t] = m]
  /\ UNCHANGED <<holder, inside>>

Resolve(t) == ResolveStep(t) /\ UNCHANGED mvars

\* The forwarded call has its effect and the method returns.
Finish(t) == Return(t) /\ op' = [op EXCEPT ![t] = "none"]

\* Lock(), and TryLock() that returns true.
Acquire(t) ==
  /\ op[t] \in {"lock", "try_lock"}
  /\ Finish(t)
  /\ holder[ref[t]] = Null
  /\ holder' = [holder EXCEPT ![ref[t]] = t]
  /\ inside' = inside \cup {t}

\* TryLock() that returns false; std::mutex may do so spuriously.
TryFail(t) ==
  /\ op[t] = "try_lock"
  /\ Finish(t)
  /\ UNCHANGED <<holder, inside>>

Unlock(t) ==
  /\ op[t] = "unlock"
  /\ Finish(t)
  /\ holder' = [holder EXCEPT ![ref[t]] = Null]
  /\ inside' = inside \ {t}

ThreadStep(t) ==
  \/ \E m \in Ops : Begin(t, m)
  \/ Resolve(t)
  \/ Acquire(t) \/ TryFail(t) \/ Unlock(t)

Next ==
  \/ (SetProvider \/ ResetProvider) /\ UNCHANGED mvars
  \/ \E t \in Threads : ThreadStep(t)

\* A thread inside Resolve() keeps running.  Nothing is assumed of who gets the
\* flag or the mutex.
Fairness == \A t \in Threads : WF_vars(Resolve(t))

Spec == Init /\ [][Next]_vars
FairSpec == Spec /\ Fairness

-----------------------------------------------------------------------------
\* Every variable has its type.
TypeOK ==
  /\ ResolutionTypeOK
  /\ op \in [Threads -> Ops \cup {"none"}]
  /\ holder \in [Targets -> Threads \cup {Null}]
  /\ inside \in SUBSET Threads

\* At most one thread is between lock() and unlock(), although the threads
\* may have resolved the wrapper at different moments.
MutualExclusion == \A t, u \in inside : t = u

\* unlock() releases the primitive that lock() took: it finds it on the fast
\* path, never spins, never asks the provider, and owns it (line 186).
UnlockFindsItsLock ==
  \A t \in Threads :
    op[t] = "unlock" => pc[t] = "ready" /\ holder[ref[t]] = t

\* The wrapper is one lock.
Contract == INSTANCE AbstractLock WITH
  Reentrant <- FALSE,
  depth <- [t \in Threads |-> IF t \in inside THEN 1 ELSE 0],
  readers <- {}
ImplementsLock == Contract!LockSpec
=============================================================================
