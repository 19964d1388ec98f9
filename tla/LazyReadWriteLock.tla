-------------------------- MODULE LazyReadWriteLock --------------------------
(***************************************************************************)
(* ReadWriteLock (src/src/ESPressio_Synchronization.hpp:222-254): Mutex    *)
(* with primitives that readers share, std::shared_mutex (the fallback)    *)
(* and what the platform's CreateReadWriteLock() returns, known by the     *)
(* contract of IReadWriteLock.                                             *)
(*                                                                         *)
(* Callers take the lock, in one of its modes, when they do not hold it,   *)
(* and leave it in the mode in which they took it.                         *)
(***************************************************************************)
EXTENDS LazyResolution

ASSUME ReadWriteAssumption == Null \notin Threads

VARIABLES
  op,       \* the method each thread is in
  holder,   \* the writer of each primitive
  sharers,  \* the readers of each primitive
  writing,  \* the threads whose lock() or try_lock() succeeded
  reading   \* the threads whose lock_shared() or try_lock_shared() succeeded

mvars == <<op, holder, sharers, writing, reading>>
vars == <<rvars, mvars>>

Ops == {"lock", "try_lock", "unlock",
        "lock_shared", "try_lock_shared", "unlock_shared"}

Init ==
  /\ ResolutionInit
  /\ op = [t \in Threads |-> "none"]
  /\ holder = [o \in Targets |-> Null]
  /\ sharers = [o \in Targets |-> {}]
  /\ writing = {}
  /\ reading = {}

\* The methods that the rules of the lock allow t to call.
Allowed(t) ==
  CASE t \in writing -> {"unlock"}
    [] t \in reading -> {"unlock_shared"}
    [] OTHER -> Ops \ {"unlock", "unlock_shared"}

Begin(t, m) ==
  /\ m \in Allowed(t)
  /\ Call(t)
  /\ op' = [op EXCEPT ![t] = m]
  /\ UNCHANGED <<holder, sharers, writing, reading>>

Resolve(t) == ResolveStep(t) /\ UNCHANGED mvars

\* The forwarded call has its effect and the method returns.
Finish(t) == Return(t) /\ op' = [op EXCEPT ![t] = "none"]

\* Lock(), and TryLock() that returns true.
Acquire(t) ==
  /\ op[t] \in {"lock", "try_lock"}
  /\ Finish(t)
  /\ holder[ref[t]] = Null
  /\ sharers[ref[t]] = {}
  /\ holder' = [holder EXCEPT ![ref[t]] = t]
  /\ writing' = writing \cup {t}
  /\ UNCHANGED <<sharers, reading>>

\* LockShared(), and TryLockShared() that returns true.
AcquireShared(t) ==
  /\ op[t] \in {"lock_shared", "try_lock_shared"}
  /\ Finish(t)
  /\ holder[ref[t]] = Null
  /\ sharers' = [sharers EXCEPT ![ref[t]] = @ \cup {t}]
  /\ reading' = reading \cup {t}
  /\ UNCHANGED <<holder, writing>>

\* TryLock() or TryLockShared() that returns false, maybe spuriously.
TryFail(t) ==
  /\ op[t] \in {"try_lock", "try_lock_shared"}
  /\ Finish(t)
  /\ UNCHANGED <<holder, sharers, writing, reading>>

Unlock(t) ==
  /\ op[t] = "unlock"
  /\ Finish(t)
  /\ holder' = [holder EXCEPT ![ref[t]] = Null]
  /\ writing' = writing \ {t}
  /\ UNCHANGED <<sharers, reading>>

UnlockShared(t) ==
  /\ op[t] = "unlock_shared"
  /\ Finish(t)
  /\ sharers' = [sharers EXCEPT ![ref[t]] = @ \ {t}]
  /\ reading' = reading \ {t}
  /\ UNCHANGED <<holder, writing>>

ThreadStep(t) ==
  \/ \E m \in Ops : Begin(t, m)
  \/ Resolve(t)
  \/ Acquire(t) \/ AcquireShared(t) \/ TryFail(t)
  \/ Unlock(t) \/ UnlockShared(t)

Next ==
  \/ (SetProvider \/ ResetProvider) /\ UNCHANGED mvars
  \/ \E t \in Threads : ThreadStep(t)

Spec == Init /\ [][Next]_vars

-----------------------------------------------------------------------------
\* Every variable has its type.
TypeOK ==
  /\ ResolutionTypeOK
  /\ op \in [Threads -> Ops \cup {"none"}]
  /\ holder \in [Targets -> Threads \cup {Null}]
  /\ sharers \in [Targets -> SUBSET Threads]
  /\ writing \in SUBSET Threads
  /\ reading \in SUBSET Threads

\* A writer is alone: neither another writer nor a reader, even one that
\* resolved the wrapper before the writer's provider was installed.
WriterAlone == \A t \in writing : writing = {t} /\ reading = {}

\* An unlock of either mode reaches, on the fast path, the primitive that its
\* thread holds in that mode (lines 250 and 253).
UnlockFindsItsMode ==
  \A t \in Threads :
    /\ op[t] = "unlock" => pc[t] = "ready" /\ holder[ref[t]] = t
    /\ op[t] = "unlock_shared" => pc[t] = "ready" /\ t \in sharers[ref[t]]

\* The wrapper is one lock with shared and exclusive owners.
Contract == INSTANCE AbstractLock WITH
  Reentrant <- FALSE,
  depth <- [t \in Threads |-> IF t \in writing THEN 1 ELSE 0],
  readers <- reading
ImplementsLock == Contract!LockSpec
=============================================================================
