SPECIFICATION FairSpec
\* The program may end: an exception of the platform's factory terminates it.
CHECK_DEADLOCK FALSE
CONSTANTS
  Tasks = {t1, t2}
  Interrupts = {i1}
  Signals = {s1, s2}
  Null = null
  Publication = publication
INVARIANTS
  TypeOK
  SignalPublished
  OneLiveSignal
PROPERTIES
  ImplementsSignal
  SettlesOnceResolved
  InterruptReturns
