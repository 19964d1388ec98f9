--------------------------- MODULE LazyResolution ---------------------------
(***************************************************************************)
(* Resolve(), the lazy initialisation that Mutex, RecursiveMutex and       *)
(* ReadWriteLock share (src/src/ESPressio_Synchronization.hpp): a          *)
(* double-checked lock whose inner guard is a spinning atomic_flag.        *)
(*                                                                         *)
(* The C++ memory order matters here, so the model is not sequentially     *)
(* consistent.  A thread has a view: the writes that happen before its     *)
(* next step.  A load may return an old value as long as the thread's view *)
(* holds no newer one; a release store carries the storing thread's view,  *)
(* and the acquire operation that reads it takes the view over.  Two kinds *)
(* of writes are tracked: the construction of a primitive (named by the    *)
(* primitive) and the store into _resolved (named Publication).  The flag  *)
(* needs no history: only read-modify-writes take it, and those read the   *)
(* last value.                                                             *)
(*                                                                         *)
(* The provider slot is a plain register: a wrapper reads it once in its   *)
(* life, so a stale read is an interleaving in which SetProvider is later. *)
(***************************************************************************)
EXTENDS Naturals

CONSTANTS
  Threads,      \* execution contexts that use one wrapper
  Prims,        \* primitives that CreateMutex() and its like may return
  Fallback,     \* the embedded _fallback
  Null,         \* the null pointer
  Publication   \* the store into _resolved, as an element of a view

ASSUME ResolutionAssumption ==
  /\ Fallback \notin Prims
  /\ Null \notin Prims \cup {Fallback}
  /\ Publication \notin Prims

VARIABLES
  installed,     \* ProviderStorage() is not null
  pc,            \* where each thread is in Resolve()
  ref,           \* the local "resolved" of each thread
  view,          \* what happens before each thread's next step
  guard,         \* _resolutionGuard
  guardView,     \* the view that the last clear(release) of the flag carries
  owned,         \* _owned
  resolved,      \* _resolved, its last value in modification order
  resolvedView,  \* the view that the store into _resolved carries
  made,          \* every primitive ever returned by the provider
  asks           \* how often the factory was called (history)

flag == <<guard, guardView>>
cell == <<resolved, resolvedView>>
factory == <<owned, made, asks>>
rvars == <<installed, pc, ref, view, flag, cell, factory>>

Targets == Prims \cup {Fallback}
Views == SUBSET (Prims \cup {Publication})
Guarded == {"recheck", "provider", "create", "store", "release"}
Labels == {"idle", "spin", "ready"} \cup Guarded

Move(t, from, to) == pc[t] = from /\ pc' = [pc EXCEPT ![t] = to]
Get(t, pointer) == ref' = [ref EXCEPT ![t] = pointer]
Learn(t, events) == view' = [view EXCEPT ![t] = @ \cup events]

ResolutionInit ==
  /\ installed \in BOOLEAN
  /\ pc = [t \in Threads |-> "idle"]
  /\ ref = [t \in Threads |-> Null]
  /\ view = [t \in Threads |-> {}]
  /\ guard = FALSE /\ guardView = {}
  /\ resolved = Null /\ resolvedView = {}
  /\ owned = Null /\ made = {} /\ asks = 0

-----------------------------------------------------------------------------
(* SetProvider() and ResetProvider() by the platform, at any time.         *)

Install(b) == installed' = b /\ UNCHANGED <<pc, ref, view, flag, cell, factory>>
SetProvider == Install(TRUE)
ResetProvider == Install(FALSE)

-----------------------------------------------------------------------------
(* Resolve(), one action per access to shared memory.  The operators named *)
(* ...Wrong are wrong variants, which the checks of the properties use.    *)

\* A load of _resolved by t may return null: no newer store is in its view.
MayReadNull(t) == Publication \notin view[t]

\* The views that the release operations on _resolved and on the flag carry;
\* wrong: nothing, as with memory_order_relaxed.
StoredViewWrong(t) == {}
StoredView(t) == view'[t]
ClearedViewWrong(t) == {}
ClearedView(t) == view[t]

\* The call of lock(), try_lock(), unlock(), ... and the first, acquire, load.
Call(t) ==
  /\ \/ /\ resolved # Null
        /\ Move(t, "idle", "ready")
        /\ Get(t, resolved)
        /\ Learn(t, resolvedView \cup {Publication})
     \/ /\ MayReadNull(t)
        /\ Move(t, "idle", "spin")
        /\ UNCHANGED <<ref, view>>
  /\ UNCHANGED <<installed, flag, cell, factory>>

\* The test_and_set(acquire) that finds the flag clear; the others spin.
Spin(t) ==
  /\ Move(t, "spin", "recheck")
  /\ ~guard /\ guard' = TRUE
  /\ Learn(t, guardView)
  /\ UNCHANGED <<installed, ref, guardView, cell, factory>>

\* The second, relaxed, load: it brings no view but its own event; wrong:
\* without that load.
RecheckWrong(t) ==
  /\ Move(t, "recheck", "provider")
  /\ UNCHANGED <<installed, ref, view, flag, cell, factory>>

Recheck(t) ==
  /\ \/ /\ resolved # Null
        /\ Move(t, "recheck", "release")
        /\ Get(t, resolved)
        /\ Learn(t, {Publication})
     \/ /\ MayReadNull(t)
        /\ Move(t, "recheck", "provider")
        /\ UNCHANGED <<ref, view>>
  /\ UNCHANGED <<installed, flag, cell, factory>>

LoadProvider(t) ==
  /\ Move(t, "provider", IF installed THEN "create" ELSE "store")
  /\ UNCHANGED <<installed, ref, view, flag, cell, factory>>

\* provider->CreateMutex(): a new primitive, nothing (the default of the
\* interface), or an exception that catch (...) swallows.
Create(t) ==
  /\ Move(t, "create", "store")
  /\ asks' = asks + 1
  /\ \/ \E o \in Prims \ made :
          owned' = o /\ made' = made \cup {o} /\ Learn(t, {o})
     \/ owned' = Null /\ UNCHANGED <<made, view>>
     \/ UNCHANGED <<owned, made, view>>
  /\ UNCHANGED <<installed, ref, flag, cell>>

\* What Resolve() chooses; wrong: without the fallback.
ChosenWrong == owned
Chosen == IF owned # Null THEN owned ELSE Fallback

Store(t) ==
  /\ Move(t, "store", "release")
  /\ resolved' = Chosen
  /\ Get(t, Chosen)
  /\ Learn(t, {Publication})
  /\ resolvedView' = StoredView(t)
  /\ UNCHANGED <<installed, flag, factory>>

\* ~ResolutionGuard(): clear(release); wrong: without it.
ReleaseWrong(t) ==
  /\ Move(t, "release", "ready")
  /\ UNCHANGED <<installed, ref, view, flag, cell, factory>>

Release(t) ==
  /\ Move(t, "release", "ready")
  /\ guard' = FALSE
  /\ guardView' = ClearedView(t)
  /\ UNCHANGED <<installed, ref, view, cell, factory>>

\* The forwarded call on *resolved has returned: the wrapper's method returns.
Return(t) ==
  /\ Move(t, "ready", "idle")
  /\ Get(t, Null)
  /\ UNCHANGED <<installed, view, flag, cell, factory>>

ResolveStep(t) ==
  \/ Spin(t) \/ Recheck(t) \/ LoadProvider(t)
  \/ Create(t) \/ Store(t) \/ Release(t)

ResolutionNext ==
  \/ SetProvider \/ ResetProvider
  \/ \E t \in Threads : Call(t) \/ ResolveStep(t) \/ Return(t)

ResolutionSpec == ResolutionInit /\ [][ResolutionNext]_rvars

-----------------------------------------------------------------------------
\* Every variable has its type, and Resolve() never returns null (line 177
\* dereferences what it is about to return).
ResolutionTypeOK ==
  /\ installed \in BOOLEAN
  /\ pc \in [Threads -> Labels]
  /\ ref \in [Threads -> Targets \cup {Null}]
  /\ view \in [Threads -> Views]
  /\ guard \in BOOLEAN /\ guardView \in Views
  /\ resolved \in Targets \cup {Null} /\ resolvedView \in Views
  /\ owned \in Prims \cup {Null} /\ made \in SUBSET Prims /\ asks \in Nat
  /\ \A t \in Threads : pc[t] \in {"release", "ready"} => ref[t] \in Targets

\* The platform's factory is called at most once in the life of a wrapper,
\* whatever it returned and however many first uses race (line 169: the check
\* under the guard, and the flag's release/acquire pair that makes it see the
\* store of the thread before).
AskedOnce == asks <= 1

\* A thread about to use the primitive happens after its construction, also
\* when it took the fast path without the guard (lines 165-166 and 175: the
\* acquire load and the release store of _resolved).
PublishedBeforeUse ==
  \A t \in Threads : pc[t] = "ready" /\ ref[t] \in Prims => ref[t] \in view[t]

\* Everybody is about to use the primitive in _resolved, and that is still the
\* one _owned keeps alive, or the fallback if it keeps none (lines 174-177):
\* no later assignment to _owned destroyed it.
OneLivePrimitive ==
  \A t \in Threads :
    pc[t] = "ready" => ref[t] = resolved /\ ref[t] = Chosen

\* Once chosen, the fallback or the provider's primitive is kept for ever,
\* whatever providers are installed or reset later (remarks at line 157).
ResolvedForGood == [][resolved # Null => resolved' = resolved]_rvars

\* Spinning ends: every thread that entered Resolve() leaves it, if the threads
\* inside Resolve() keep running and the provider's factory returns.
ResolveTerminates == \A t \in Threads : pc[t] = "spin" ~> pc[t] = "ready"
=============================================================================
