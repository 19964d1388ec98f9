--------------------------- MODULE AbstractSignal ---------------------------
(***************************************************************************)
(* What an ISignal promises to its callers                                 *)
(* (src/src/ESPressio_Synchronization.hpp:18-31): one binary signal.  A    *)
(* call takes effect at one moment between its beginning and its end.      *)
(* A deferred signal becomes available at some moment and stays so; until  *)
(* then it may refuse (Unavailable), and afterwards it refuses no call     *)
(* that a task begins.                                                     *)
(***************************************************************************)
CONSTANTS
  Tasks,        \* execution contexts that call Give(), Wait() and Reset()
  Interrupts    \* interrupt contexts, which call GiveFromInterrupt()

VARIABLES
  set,          \* the signal
  available,    \* the platform's signal stands behind it
  op,           \* the method each caller is in
  due           \* the tasks whose present call began after it was available

svars == <<set, available, op, due>>

Gives == {"give", "give_from_interrupt"}
Waits == {"wait", "poll"}       \* Wait(WaitForever) and Wait(finite)

SignalInit ==
  /\ set \in BOOLEAN
  /\ available \in BOOLEAN
  /\ op = [t \in Tasks \cup Interrupts |-> "none"]
  /\ due = {}

BecomeAvailable ==
  /\ available' = TRUE
  /\ UNCHANGED <<set, op, due>>

Begin(t, m) ==
  /\ op[t] = "none"
  /\ op' = [op EXCEPT ![t] = m]
  /\ due' = IF available /\ t \in Tasks THEN due \cup {t} ELSE due
  /\ UNCHANGED <<set, available>>

End(t) ==
  /\ op' = [op EXCEPT ![t] = "none"]
  /\ due' = due \ {t}
  /\ UNCHANGED available

Give(t) == op[t] \in Gives /\ available /\ End(t) /\ set' = TRUE

Take(t) == op[t] \in Waits /\ available /\ End(t) /\ set /\ set' = FALSE

TimeOut(t) == op[t] = "poll" /\ available /\ End(t) /\ ~set /\ UNCHANGED set

Reset(t) == op[t] = "reset" /\ available /\ End(t) /\ set' = FALSE

Refuse(t) == op[t] # "none" /\ t \notin due /\ End(t) /\ UNCHANGED set

SignalNext ==
  \/ BecomeAvailable
  \/ \E t \in Tasks, m \in Waits \cup {"give", "reset"} : Begin(t, m)
  \/ \E t \in Interrupts : Begin(t, "give_from_interrupt")
  \/ \E t \in Tasks \cup Interrupts :
       Give(t) \/ Take(t) \/ TimeOut(t) \/ Reset(t) \/ Refuse(t)

SignalSpec == SignalInit /\ [][SignalNext]_svars
=============================================================================
