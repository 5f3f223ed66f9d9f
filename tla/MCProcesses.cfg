SPECIFICATION Spec
CONSTANTS
  MAX_ATTEMPTS = 3
  TIMEOUT = 2
INVARIANTS
  ProcessesTypeOK
PROPERTIES
  InterruptEndsServer
  StartupDecides
  ServerExitIsNoticed
  ClientExitIsNoticed
