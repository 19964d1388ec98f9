--------------------------- MODULE CreatedObjects ---------------------------
(***************************************************************************)
(* Objects that a platform creates on request and what is left of them     *)
(* when providers come and go: execution contexts                          *)
(* (src/src/ESPressio_Execution.hpp), GPIO interrupts                      *)
(* (src/src/ESPressio_GPIO.hpp), message queues                            *)
(* (src/src/ESPressio_Queue.hpp) and high-resolution counters              *)
(* (src/src/ESPressio_SystemPlatformClock.hpp).                            *)
(*                                                                         *)
(* They differ in what the caller gets.  A context is named by a number    *)
(* that only its provider understands, and is destroyed through whatever   *)
(* provider is installed then.  The others are owned by a unique_ptr, for  *)
(* interrupts beside a status.  A behaviour is about one of the services.  *)
(*                                                                         *)
(* The platforms' factories are external: they create, refuse or throw.    *)
(* Callers do not lose an execution handle by overwriting it, and do not   *)
(* use one variable from two threads at once.                              *)
(***************************************************************************)
CONSTANTS
  Threads,
  Platforms,   \* providers that are ever installed
  Legacy,      \* those that do not override the queue's Create() with a policy
  Numbers,     \* tell the objects of one provider apart; execution handles
  Variables,   \* of the application, for what creation returns
  Fallback,    \* the NullExecutionProvider
  Null         \* the null pointer and InvalidExecutionHandle

ASSUME ObjectsAssumption ==
  /\ Legacy \subseteq Platforms
  /\ Fallback \notin Platforms
  /\ Null \notin Platforms \cup {Fallback} \cup Numbers
       \cup (Platforms \X Numbers)

VARIABLES
  service,    \* which of the services; chosen at the start and kept
  slot,       \* ProviderStorage() or ControllerStorage()
  calling,    \* the threads that have loaded the slot for a call
  loaded,     \* the provider that each of them found
  held,       \* the result in each variable
  live,       \* the objects that exist, as <<maker, number>>
  replaced    \* a provider was replaced by another while it had a live
              \* object or a call in progress (history)

vars == <<service, slot, calling, loaded, held, live, replaced>>

Owning == service # "execution"

\* What the slot holds when no platform is installed.
Nothing == IF Owning THEN Null ELSE Fallback

\* ExecutionCreationResult(), InterruptCreationResult(), or a null unique_ptr.
Empty == [ok |-> FALSE, handle |-> Null]

Init ==
  /\ service \in {"execution", "gpio", "queue", "counter"}
  /\ slot = Nothing
  /\ calling = {} /\ loaded = [t \in Threads |-> Null]
  /\ held = [v \in Variables |-> Empty]
  /\ live = {}
  /\ replaced = FALSE

-----------------------------------------------------------------------------
(* The slot.  The execution slot ignores null, the others take it.         *)

SetProvider(p) ==
  /\ slot' = IF p = Null /\ ~Owning THEN slot ELSE p
  /\ replaced' = \/ replaced
                 \/ /\ p # Null
                    /\ \/ \E x \in live : x[1] # p
                       \/ \E t \in calling : loaded[t] \in Platforms \ {p}
  /\ UNCHANGED <<service, calling, loaded, held, live>>

ResetProvider ==
  /\ slot' = Nothing
  /\ UNCHANGED <<service, calling, loaded, held, live, replaced>>

\* Provider(), Controller(): the one load that a call makes.
Load(t) ==
  /\ t \notin calling
  /\ calling' = calling \cup {t}
  /\ loaded' = [loaded EXCEPT ![t] = slot]
  /\ UNCHANGED <<service, slot, held, live, replaced>>

-----------------------------------------------------------------------------
(* Creation.  The operators named ...Wrong are wrong variants, which the   *)
(* checks of the properties use.                                           *)

\* Whom a call with a provider reaches; wrong: the slot is loaded again.
CalleeWrong(t) == slot
Callee(t) == loaded[t]

\* The truth value of a result; wrong: only its status is tested.
TruthWrong(r) == r.ok
Truth(r) == r.ok /\ r.handle # Null

\* Whether p may create a queue: the default of Create() with a policy, which
\* the legacy ones have, refuses to ask for external memory.
Honoured(p, external) == external => p \notin Legacy

Return(t) ==
  /\ t \in calling
  /\ calling' = calling \ {t}
  /\ loaded' = [loaded EXCEPT ![t] = Null]
  /\ UNCHANGED <<service, slot, replaced>>

\* The assignment of a result to v: what v owned is destroyed.
Assign(v, r, created) ==
  /\ Owning \/ held[v].handle = Null
  /\ held' = [held EXCEPT ![v] = r]
  /\ live' = created \cup (live \ IF Owning THEN {held[v].handle} ELSE {})

\* No platform: a null pointer, or the fallback's refusal.
CreateNowhere(t, v) ==
  /\ service # "gpio"
  /\ loaded[t] = Nothing
  /\ Return(t)
  /\ Assign(v, Empty, {})

\* No controller: the caller sees null and asks nobody.
NoController(t) ==
  /\ service = "gpio"
  /\ loaded[t] = Null
  /\ Return(t)
  /\ UNCHANGED <<held, live>>

Create(t, v, n, external) ==
  LET p == Callee(t)
      object == <<p, n>>
  IN  /\ loaded[t] \in Platforms
      /\ external => service = "queue"
      /\ Honoured(p, external)
      /\ object \notin live
      /\ Return(t)
      /\ Assign(v, [ok |-> TRUE, handle |-> IF Owning THEN object ELSE n],
                {object})

\* The platform refuses, or reports success without an object.
CreateNothing(t, v, ok) ==
  /\ loaded[t] \in Platforms
  /\ ok => service \in {"execution", "gpio"}
  /\ Return(t)
  /\ Assign(v, [Empty EXCEPT !.ok = ok], {})

\* The platform throws: there is no result to assign.
CreateThrew(t) ==
  /\ loaded[t] \in Platforms
  /\ Return(t)
  /\ UNCHANGED <<held, live>>

-----------------------------------------------------------------------------
(* What becomes of objects.                                                *)

\* What a move leaves behind: the status stays, the handle is gone.
Left(r) == [r EXCEPT !.handle = Null]

\* Move assignment from v to w.
MoveTo(v, w) ==
  /\ Owning /\ v # w
  /\ held' = [held EXCEPT ![w] = held[v], ![v] = Left(held[v])]
  /\ live' = live \ {held[w].handle}
  /\ UNCHANGED <<service, slot, calling, loaded, replaced>>

\* The owner ends; the object's destructor needs no provider.
Release(v) ==
  /\ Owning
  /\ held' = [held EXCEPT ![v] = Empty]
  /\ live' = live \ {held[v].handle}
  /\ UNCHANGED <<service, slot, calling, loaded, replaced>>

\* Whether Destroy(n) of p may report success: of a platform, if it destroys
\* the context; of the fallback, never; wrong: the fallback has nothing to do.
DestroysWrong(p, n) == <<p, n>> \in live \/ p = Fallback
Destroys(p, n) == <<p, n>> \in live

\* Provider().Destroy(): the caller gives up the handle if it succeeds.
Destroy(t, v) ==
  /\ ~Owning
  /\ Truth(held[v])
  /\ Destroys(Callee(t), held[v].handle)
  /\ Return(t)
  /\ live' = live \ {<<Callee(t), held[v].handle>>}
  /\ held' = [held EXCEPT ![v] = Empty]

DestroyRefused(t, v) ==
  /\ ~Owning
  /\ Truth(held[v])
  /\ Return(t)
  /\ UNCHANGED <<held, live>>

CallStep(t) ==
  \/ Load(t)
  \/ NoController(t) \/ CreateThrew(t)
  \/ \E v \in Variables :
       \/ CreateNowhere(t, v)
       \/ \E n \in Numbers, external \in BOOLEAN : Create(t, v, n, external)
       \/ \E ok \in BOOLEAN : CreateNothing(t, v, ok)
       \/ Destroy(t, v) \/ DestroyRefused(t, v)

Next ==
  \/ \E p \in Platforms \cup {Null} : SetProvider(p)
  \/ ResetProvider
  \/ \E t \in Threads : CallStep(t)
  \/ \E v \in Variables : Release(v) \/ \E w \in Variables : MoveTo(v, w)

Spec == Init /\ [][Next]_vars

-----------------------------------------------------------------------------
Makers == Platforms \cup {Fallback, Null}
Handles == Numbers \cup (Platforms \X Numbers) \cup {Null}

\* Every variable has its type: in particular only platforms, never a null
\* pointer, have created objects, although the slot may be reset between the
\* load of the slot and the call (ESPressio_Queue.hpp:113-114).
TypeOK ==
  /\ service \in {"execution", "gpio", "queue", "counter"}
  /\ slot \in Makers /\ (~Owning => slot # Null)
  /\ calling \in SUBSET Threads
  /\ loaded \in [Threads -> Makers]
  /\ held \in [Variables -> [ok : BOOLEAN, handle : Handles]]
  /\ live \in SUBSET (Platforms \X Numbers)
  /\ replaced \in BOOLEAN

\* A result that is true names an object that exists, also the result that an
\* interrupt was moved out of and the one that reports success with nothing
\* in it (ESPressio_GPIO.hpp:114, ESPressio_Execution.hpp:54); for contexts,
\* as long as their provider was not replaced.
TrueMeansAlive ==
  \A v \in Variables :
    Truth(held[v]) /\ (Owning \/ ~replaced) =>
      \E x \in live : held[v].handle = IF Owning THEN x ELSE x[2]

\* As long as no provider is replaced under its contexts, somebody still has
\* the handle of every context, one variable each: a Destroy() that met the
\* fallback, because the platform was removed for a while, did not claim
\* success (ESPressio_Execution.hpp:113).
ContextsKept ==
  ~Owning /\ ~replaced =>
    /\ \A x \in live :
         \E v \in Variables : Truth(held[v]) /\ held[v].handle = x[2]
    /\ \A v, w \in Variables :
         v # w /\ held[v].handle # Null => held[v].handle # held[w].handle
=============================================================================
