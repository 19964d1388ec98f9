--------------------------- MODULE DeferredSignal ---------------------------
(***************************************************************************)
(* DeferredBinarySignal and CreateBinarySignal()                           *)
(* (src/src/ESPressio_Synchronization.hpp:258-331): a signal that asks     *)
(* the platform for the real one when it is first used, and asks again     *)
(* as long as it gets none.  GiveFromInterrupt() neither asks nor locks.   *)
(*                                                                         *)
(* Memory order is modelled as in LazyResolution: views of the writes that *)
(* happen before a caller's next step.  _mutex is a Mutex and is taken     *)
(* here as one lock, which module LazyMutex shows it is; unlocking hands   *)
(* the view of the one thread on to the next.                              *)
(*                                                                         *)
(* The platform's signals are not part of the repository: they are known   *)
(* by the contract of ISignal (lines 18-31) and by the TestSignal of       *)
(* src/tests/platform_abstractions_test.cpp.                               *)
(***************************************************************************)
EXTENDS Naturals

CONSTANTS
  Tasks,        \* execution contexts that share the signal
  Interrupts,   \* interrupt contexts that give it
  Signals,      \* signals that the platform may return
  Null,         \* the null pointer
  Publication   \* the store into _resolved, as an element of a view

Callers == Tasks \cup Interrupts

ASSUME SignalAssumption ==
  /\ Tasks \cap Interrupts = {}
  /\ Null \notin Callers \cup Signals
  /\ Publication \notin Signals

VARIABLES
  initiallySet, \* _initiallySet
  installed,    \* ProviderStorage() is not null
  pc,           \* where each caller is
  ref,          \* the local "resolved", then "signal", of each caller
  view,         \* what happens before each caller's next step
  op,           \* the method each caller is in
  due,          \* tasks whose call began when it was resolved (history)
  holder,       \* the owner of _mutex
  lockView,     \* the view that the last unlock of _mutex carries
  resolved,     \* _resolved, its last value in modification order
  resolvedView, \* the view that the store into _resolved carries
  signal,       \* _signal
  made,         \* every signal the platform returned
  state,        \* whether each of the platform's signals is set
  terminated    \* std::terminate() was called

call == <<op, due>>
mutex == <<holder, lockView>>
cell == <<resolved, resolvedView>>
factory == <<signal, made, state>>
vars == <<initiallySet, installed, pc, ref, view, call, mutex, cell, factory,
          terminated>>

Views == SUBSET (Signals \cup {Publication})
Labels == {"idle", "lock", "recheck", "provider", "create", "store", "unlock",
           "ready", "refused"}
TaskOps == {"give", "wait", "poll", "reset"}   \* poll: Wait(finite timeout)

Move(t, from, to) == pc[t] = from /\ pc' = [pc EXCEPT ![t] = to]
Get(t, pointer) == ref' = [ref EXCEPT ![t] = pointer]
Learn(t, events) == view' = [view EXCEPT ![t] = @ \cup events]

-----------------------------------------------------------------------------
(* CreateBinarySignal(), which runs before anybody has the signal.  How    *)
(* the application hands the result to the callers is its affair: all of   *)
(* them happen after it.                                                   *)

\* The platform's own signal: as one that everybody knows to be resolved.
Direct ==
  \E s \in Signals :
    /\ signal = s /\ made = {s}
    /\ state = [x \in Signals |-> x = s /\ initiallySet]
    /\ resolved = s /\ resolvedView = {s, Publication}
    /\ view = [t \in Callers |-> {s, Publication}]

Deferred ==
  /\ signal = Null /\ made = {}
  /\ state = [x \in Signals |-> FALSE]
  /\ resolved = Null /\ resolvedView = {}
  /\ view = [t \in Callers |-> {}]

Init ==
  /\ initiallySet \in BOOLEAN
  /\ installed \in BOOLEAN
  /\ (installed /\ Direct) \/ Deferred
  /\ pc = [t \in Callers |-> "idle"]
  /\ ref = [t \in Callers |-> Null]
  /\ op = [t \in Callers |-> "none"] /\ due = {}
  /\ holder = Null /\ lockView = {}
  /\ terminated = FALSE

-----------------------------------------------------------------------------
(* The provider slot, and Resolve() with one action per access to shared   *)
(* memory.  The operators named ...Wrong are wrong variants, which the     *)
(* checks of the properties use.                                           *)

Install(b) ==
  /\ installed' = b
  /\ UNCHANGED <<initiallySet, pc, ref, view, call, mutex, cell, factory,
                 terminated>>
SetProvider == Install(TRUE)
ResetProvider == Install(FALSE)

\* The load(acquire) that begins every method.  It may return null as long as
\* the caller's view does not hold the store.
MayReadNull(t) == Publication \notin view[t]

LoadResolved(t, ifNull) ==
  /\ \/ /\ resolved # Null
        /\ Move(t, "idle", "ready")
        /\ Get(t, resolved)
        /\ Learn(t, resolvedView \cup {Publication})
     \/ /\ MayReadNull(t)
        /\ Move(t, "idle", ifNull)
        /\ UNCHANGED <<ref, view>>
  /\ UNCHANGED <<initiallySet, installed, mutex, cell, factory, terminated>>

\* Give(), Wait() and Reset() of a task.
Call(t, m) ==
  /\ t \in Tasks
  /\ LoadResolved(t, "lock")
  /\ op' = [op EXCEPT ![t] = m]
  /\ due' = IF resolved # Null THEN due \cup {t} ELSE due

\* GiveFromInterrupt(): that load is all it does to find the signal; wrong:
\* it resolves, like Give().
WithoutResolveWrong == "lock"
WithoutResolve == "refused"

CallFromInterrupt(t) ==
  /\ t \in Interrupts
  /\ LoadResolved(t, WithoutResolve)
  /\ op' = [op EXCEPT ![t] = "give_from_interrupt"]
  /\ UNCHANGED due

LockMutex(t) ==
  /\ Move(t, "lock", "recheck")
  /\ holder = Null /\ holder' = t
  /\ Learn(t, lockView)
  /\ UNCHANGED <<initiallySet, installed, ref, call, lockView, cell, factory,
                 terminated>>

\* The second, relaxed, load: it brings no view but its own event; wrong:
\* without that load.
RecheckWrong(t) ==
  /\ Move(t, "recheck", "provider")
  /\ UNCHANGED <<initiallySet, installed, ref, view, call, mutex, cell,
                 factory, terminated>>

Recheck(t) ==
  /\ \/ /\ resolved # Null
        /\ Move(t, "recheck", "unlock")
        /\ Get(t, resolved)
        /\ Learn(t, {Publication})
     \/ /\ MayReadNull(t)
        /\ Move(t, "recheck", "provider")
        /\ UNCHANGED <<ref, view>>
  /\ UNCHANGED <<initiallySet, installed, call, mutex, cell, factory,
                 terminated>>

LoadProvider(t) ==
  /\ Move(t, "provider", IF installed THEN "create" ELSE "unlock")
  /\ UNCHANGED <<initiallySet, installed, ref, view, call, mutex, cell,
                 factory, terminated>>

\* The argument of the platform's CreateBinarySignal(); wrong: the default.
FirstStateWrong == FALSE
FirstState == initiallySet

\* provider->CreateBinarySignal(): a new signal, nothing, or an exception,
\* which leaves the noexcept Resolve() and so ends the program.
Create(t) ==
  /\ \/ \E s \in Signals \ made :
          /\ Move(t, "create", "store")
          /\ signal' = s /\ made' = made \cup {s}
          /\ state' = [state EXCEPT ![s] = FirstState]
          /\ Get(t, s)
          /\ Learn(t, {s})
          /\ UNCHANGED terminated
     \/ /\ Move(t, "create", "unlock")
        /\ signal' = Null
        /\ UNCHANGED <<made, state, ref, view, terminated>>
     \/ /\ pc[t] = "create" /\ terminated' = TRUE
        /\ UNCHANGED <<pc, factory, ref, view>>
  /\ UNCHANGED <<initiallySet, installed, call, mutex, cell>>

\* The view that the store carries; wrong: nothing, as if it were relaxed.
StoredViewWrong(t) == {}
StoredView(t) == view'[t]

Store(t) ==
  /\ Move(t, "store", "unlock")
  /\ resolved' = ref[t]
  /\ Learn(t, {Publication})
  /\ resolvedView' = StoredView(t)
  /\ UNCHANGED <<initiallySet, installed, ref, call, mutex, factory,
                 terminated>>

\* The methods' "signal != nullptr"; wrong: without it.
OutcomeWrong(t) == "ready"
Outcome(t) == IF ref[t] # Null THEN "ready" ELSE "refused"

\* The lock_guard's destructor, at every return of Resolve(); wrong:
\* without it.
UnlockMutexWrong(t) ==
  /\ Move(t, "unlock", Outcome(t))
  /\ UNCHANGED <<initiallySet, installed, ref, view, call, mutex, cell,
                 factory, terminated>>

UnlockMutex(t) ==
  /\ Move(t, "unlock", Outcome(t))
  /\ holder' = Null /\ lockView' = view[t]
  /\ UNCHANGED <<initiallySet, installed, ref, view, call, cell, factory,
                 terminated>>

-----------------------------------------------------------------------------
(* The call on the platform's signal, and the end of the method.           *)

Finish(t, label) ==
  /\ Move(t, label, "idle")
  /\ Get(t, Null)
  /\ op' = [op EXCEPT ![t] = "none"] /\ due' = due \ {t}
  /\ UNCHANGED <<initiallySet, installed, view, mutex, cell, signal, made,
                 terminated>>

Become(s, b) == state' = [state EXCEPT ![s] = b]

Give(t) ==
  /\ op[t] \in {"give", "give_from_interrupt"}
  /\ Finish(t, "ready") /\ Become(ref[t], TRUE)

\* Wait() that finds the signal set, or is woken by it, and takes it.
Take(t) ==
  /\ op[t] \in {"wait", "poll"}
  /\ Finish(t, "ready")
  /\ state[ref[t]] /\ Become(ref[t], FALSE)

\* Wait() with a finite timeout that expires.
TimeOut(t) ==
  /\ op[t] = "poll"
  /\ Finish(t, "ready")
  /\ ~state[ref[t]] /\ UNCHANGED state

Reset(t) ==
  /\ op[t] = "reset"
  /\ Finish(t, "ready") /\ Become(ref[t], FALSE)

\* The methods' PlatformStatus::Unavailable.
Refuse(t) == Finish(t, "refused") /\ UNCHANGED state

\* What a caller does of its own once it is in a method.
Continue(t) ==
  /\ ~terminated
  /\ \/ LockMutex(t) \/ Recheck(t) \/ LoadProvider(t) \/ Create(t)
     \/ Store(t) \/ UnlockMutex(t)
     \/ Give(t) \/ Take(t) \/ TimeOut(t) \/ Reset(t) \/ Refuse(t)

Next ==
  \/ ~terminated /\ (SetProvider \/ ResetProvider)
  \/ \E t \in Callers :
       \/ ~terminated /\ \E m \in TaskOps : Call(t, m)
       \/ ~terminated /\ CallFromInterrupt(t)
       \/ Continue(t)

Spec == Init /\ [][Next]_vars

\* Interrupts keep running, while the tasks they preempt may stand still.
FairSpec == Spec /\ \A t \in Interrupts : WF_vars(Continue(t))

\* The tasks keep running too.  Nothing is assumed of who gets _mutex.
TasksRun == \A t \in Tasks : WF_vars(Continue(t))

-----------------------------------------------------------------------------
\* Every variable has its type, and nobody is about to use a null signal.
TypeOK ==
  /\ {initiallySet, installed, terminated} \subseteq BOOLEAN
  /\ pc \in [Callers -> Labels]
  /\ ref \in [Callers -> Signals \cup {Null}]
  /\ view \in [Callers -> Views]
  /\ op \in [Callers -> TaskOps \cup {"none", "give_from_interrupt"}]
  /\ due \in SUBSET Tasks
  /\ holder \in Callers \cup {Null} /\ lockView \in Views
  /\ resolved \in Signals \cup {Null} /\ resolvedView \in Views
  /\ signal \in Signals \cup {Null} /\ made \in SUBSET Signals
  /\ state \in [Signals -> BOOLEAN]
  /\ \A t \in Callers : pc[t] = "ready" => ref[t] \in Signals

\* A caller about to use the platform's signal, an interrupt handler too,
\* happens after its construction (lines 266, 279 and 299).
SignalPublished ==
  \A t \in Callers : pc[t] = "ready" => ref[t] \in view[t]

\* All use one signal, and it is the one that _signal keeps alive: asking the
\* platform again (lines 273-276) never replaces a signal somebody uses.
OneLiveSignal ==
  \A t \in Callers : pc[t] = "ready" => ref[t] = resolved /\ ref[t] = signal

\* Once the signal is resolved, every task that waits for _mutex gets past it
\* to the platform's signal if the tasks keep running, although new calls keep
\* coming and the mutex favours nobody: they find the fast path (lines 266-271).
SettlesOnceResolved ==
  TasksRun =>
    \A t \in Tasks : pc[t] = "lock" /\ resolved # Null ~> pc[t] = "ready"

\* An interrupt handler gets its answer whatever the tasks are doing, also
\* when the one it preempted holds _mutex (lines 298-303 and the remarks at
\* line 257).
InterruptReturns ==
  \A t \in Interrupts : op[t] # "none" ~> op[t] = "none" \/ terminated

\* The wrapper is one binary signal with the initial state that was asked
\* for, gives and waits on it are never lost, and no task that calls after it
\* became available is refused.
Contract == INSTANCE AbstractSignal WITH
  set <- IF resolved = Null THEN initiallySet ELSE state[resolved],
  available <- resolved # Null
ImplementsSignal == Contract!SignalSpec
=============================================================================
