SPECIFICATION Spec
CONSTANTS
  MAX_ATTEMPTS = 3
  TIMEOUT = 2
PROPERTY
  CloseEndsClient
