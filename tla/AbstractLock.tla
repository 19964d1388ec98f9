---------------------------- MODULE AbstractLock ----------------------------
(***************************************************************************)
(* What the wrappers Mutex, RecursiveMutex and ReadWriteLock promise to    *)
(* their callers (the contracts of IMutex, IRecursiveMutex and             *)
(* IReadWriteLock, src/src/ESPressio_Synchronization.hpp:33-73): one lock, *)
(* that many threads share or one thread owns, whatever primitive stands   *)
(* behind it and whenever that primitive was chosen.                       *)
(***************************************************************************)
EXTENDS Naturals

CONSTANTS
  Threads,
  Reentrant     \* TRUE when the owner may lock again, else FALSE

VARIABLES
  depth,        \* how often each thread holds the lock exclusively
  readers       \* the threads that hold it shared

lvars == <<depth, readers>>

LockInit ==
  /\ depth = [t \in Threads |-> 0]
  /\ readers = {}

Lock(t) ==
  /\ readers = {}
  /\ \A u \in Threads \ {t} : depth[u] = 0
  /\ depth[t] = 0 \/ Reentrant
  /\ depth' = [depth EXCEPT ![t] = @ + 1]
  /\ UNCHANGED readers

Unlock(t) ==
  /\ depth[t] > 0
  /\ depth' = [depth EXCEPT ![t] = @ - 1]
  /\ UNCHANGED readers

LockShared(t) ==
  /\ t \notin readers
  /\ \A u \in Threads : depth[u] = 0
  /\ readers' = readers \cup {t}
  /\ UNCHANGED depth

UnlockShared(t) ==
  /\ t \in readers
  /\ readers' = readers \ {t}
  /\ UNCHANGED depth

LockNext ==
  \E t \in Threads : Lock(t) \/ Unlock(t) \/ LockShared(t) \/ UnlockShared(t)

LockSpec == LockInit /\ [][LockNext]_lvars
=============================================================================
