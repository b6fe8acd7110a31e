SPECIFICATION Spec
CONSTANTS
  CvpMute = TRUE
  RETRY_FAST = 2
  FALLBACK_AFTER = 2
  FALLBACK_RETRIES = 1
INVARIANTS TypeOK MuteSilences MicAsAsked RouteAsAsked
PROPERTIES Released HeardInTheEnd
