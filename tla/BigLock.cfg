\* Two threads, and tickets that wrap.  The exit of the process stops
\* everything.
CONSTANTS
  Thread = {1, 2}
  TicketMod = 4
  FutexCount = 2
SPECIFICATION Spec
INVARIANTS
  NoLostWakeup
  RunningOwnsLock
  ShutdownAlone
PROPERTIES
  FirstComeFirstServed
  LockIsGranted
  ExitGroupEnds
CHECK_DEADLOCK FALSE
