---------------------------- MODULE ProviderSlots ----------------------------
(***************************************************************************)
(* The process-wide slots in which a platform installs its providers, of   *)
(* three kinds:                                                            *)
(*   - nullable: Synchronization, Queue, GPIO, the high-resolution counter.*)
(*     Null means that there is no provider;                               *)
(*   - fallback: Execution, the monotonic clock, Entropy.  Setting null is *)
(*     ignored, resetting brings the fallback object back;                 *)
(*   - exchange: Memory.  Null stands for the default provider, and        *)
(*     setting returns the provider that was installed before.             *)
(*                                                                         *)
(* Every slot is an atomic pointer, stored with release and loaded with    *)
(* acquire.  A slot is modelled by all the stores to it, in their order; a *)
(* thread has a view, that is, which providers it knows to be constructed  *)
(* and the oldest store to each slot that it may still read.               *)
(***************************************************************************)
EXTENDS Naturals, Sequences, FiniteSets

CONSTANTS
  Threads,
  Nullable, WithFallback, WithExchange,   \* the slots of each kind
  Providers,    \* provider objects of the platform
  Fallback,     \* the fallback or default object of a slot
  Null,         \* the null pointer
  MaxStores     \* bound on the stores to all slots together

Slots == Nullable \cup WithFallback \cup WithExchange

ASSUME SlotsAssumption ==
  /\ Nullable \cap WithFallback = {}
  /\ (Nullable \cup WithFallback) \cap WithExchange = {}
  /\ {Fallback, Null} \cap Providers = {} /\ Fallback # Null
  /\ MaxStores \in Nat \ {0}

VARIABLES
  stores,     \* the stores to each slot: [value, carried, known]
  view,       \* the view of each thread
  previous    \* of each thread, the store that its last SetProvider() of an
              \* exchange slot replaced; the value is what was returned

vars == <<stores, view, previous>>

Views == [built : SUBSET Providers, oldest : [Slots -> 1..MaxStores + 1]]
Nothing == [built |-> {}, oldest |-> [s \in Slots |-> 1]]

\* The knowledge of store number i to slot s, and of nothing else.
Knows(s, i) ==
  [built |-> {}, oldest |-> [x \in Slots |-> IF x = s THEN i ELSE 1]]

Join(v, w) ==
  [built |-> v.built \cup w.built,
   oldest |-> [s \in Slots |-> IF v.oldest[s] > w.oldest[s]
                               THEN v.oldest[s] ELSE w.oldest[s]]]

Last(s) == Len(stores[s])
Stored == UNION {{s} \X (2..Last(s)) : s \in Slots}

\* A store that nobody made.
First(p) == [value |-> p, carried |-> Nothing, known |-> Nothing]

Init ==
  /\ stores = [s \in Slots |->
                <<First(IF s \in Nullable THEN Null ELSE Fallback)>>]
  /\ view = [t \in Threads |-> Nothing]
  /\ previous = [t \in Threads |-> First(Null)]

\* A thread of the platform constructs a provider.
Construct(t, p) ==
  /\ \A u \in Threads : p \notin view[u].built
  /\ \A s \in Slots : \A i \in 1..Last(s) : p \notin stores[s][i].known.built
  /\ view' = [view EXCEPT ![t].built = @ \cup {p}]
  /\ UNCHANGED <<stores, previous>>

-----------------------------------------------------------------------------
(* The operators named ...Wrong are wrong variants, which the checks of    *)
(* the properties use.                                                     *)

\* The view that a release store carries; wrong: nothing, as if relaxed.
CarriedWrong(v) == Nothing
Carried(v) == v

\* Store number i to slot s.  Its thread knows of it, and of everything in v.
StoreTo(t, s, p, v) ==
  LET w == Join(v, Knows(s, Last(s) + 1))
  IN /\ Cardinality(Stored) < MaxStores
     /\ stores' = [stores EXCEPT ![s] =
                     Append(@, [value |-> p,
                                carried |-> Carried(w), known |-> w])]
     /\ view' = [view EXCEPT ![t] = w]

\* SetProvider() and its like of a nullable slot.
SetNullable(t, s, p) ==
  /\ s \in Nullable
  /\ StoreTo(t, s, p, view[t])
  /\ UNCHANGED previous

\* Of a slot with a fallback: null is ignored; wrong: it is stored.
IgnoredWrong(p) == FALSE
Ignored(p) == p = Null

SetWithFallback(t, s, p) ==
  /\ s \in WithFallback
  /\ ~Ignored(p)
  /\ StoreTo(t, s, p, view[t])
  /\ UNCHANGED previous

\* What an exchange learns from the store that it replaces; wrong: nothing, as
\* with memory_order_release.
AcquiredWrong(s) == Nothing
Acquired(s) == stores[s][Last(s)].carried

\* The exchange of the memory slot reads one store and makes the next.
Exchange(t, s, p) ==
  /\ s \in WithExchange
  /\ StoreTo(t, s, IF p = Null THEN Fallback ELSE p, Join(view[t], Acquired(s)))

\* SetProvider() of the memory slot.
SetWithExchange(t, s, p) ==
  /\ Exchange(t, s, p)
  /\ previous' = [previous EXCEPT ![t] = stores[s][Last(s)]]

\* ResetProvider() and its like; that of the memory slot discards the result.
Reset(t, s) ==
  \/ SetNullable(t, s, Null)
  \/ SetWithFallback(t, s, Fallback)
  \/ Exchange(t, s, Fallback) /\ UNCHANGED previous

\* Who replaced a provider for a while restores the one that was there
\* (src/wiki/Memory-Policies.md:55, src/tests/memory_policy_test.cpp:144).
Restore(t, s) ==
  /\ previous[t].value # Null
  /\ SetWithExchange(t, s, previous[t].value)

\* Provider() and its like: any store that is not older than the thread knows.
Get(t, s) ==
  \E i \in view[t].oldest[s]..Last(s) :
    /\ view' = [view EXCEPT ![t] =
                  Join(Join(@, stores[s][i].carried), Knows(s, i))]
    /\ UNCHANGED <<stores, previous>>

Next ==
  \E t \in Threads :
    \/ \E p \in Providers : Construct(t, p)
    \/ \E s \in Slots :
         \/ Get(t, s) \/ Reset(t, s) \/ Restore(t, s)
         \/ \E p \in view[t].built \cup {Null} :
              \/ SetNullable(t, s, p)
              \/ SetWithFallback(t, s, p)
              \/ SetWithExchange(t, s, p)

Spec == Init /\ [][Next]_vars

-----------------------------------------------------------------------------
\* Every variable has its type, and the slots that have a fallback object
\* never hold null (ESPressio_Execution.hpp:163, ESPressio_Memory.hpp:106).
TypeOK ==
  /\ \A s \in Slots : \A i \in 1..Last(s) :
       /\ stores[s][i].value \in Providers \cup {Fallback}
            \cup (IF s \in Nullable THEN {Null} ELSE {})
       /\ {stores[s][i].carried, stores[s][i].known} \subseteq Views
  /\ view \in [Threads -> Views]
  /\ \A t \in Threads :
       previous[t].value \in Providers \cup {Fallback, Null}

\* A thread that finds a provider in a slot knows that it is constructed, and
\* knows of everything that the thread which installed it knew of, so that it
\* finds what that one had installed in other slots before.
InstalledInOrder ==
  \A t \in Threads, s \in Slots :
    LET newest == stores[s][view[t].oldest[s]]
    IN /\ Join(view[t], newest.known) = view[t]
       /\ newest.value \in Providers => newest.value \in view[t].built

\* SetProvider() of the memory slot hands a thread a provider that another one
\* constructed and installed.  It knows that provider to be constructed and
\* knows of everything that the other knew of, so that it may call or restore
\* it (ESPressio_Memory.hpp:107, the acquire half of memory_order_acq_rel).
ReplacedInOrder ==
  \A t \in Threads :
    /\ Join(view[t], previous[t].known) = view[t]
    /\ previous[t].value \in Providers => previous[t].value \in view[t].built
=============================================================================
