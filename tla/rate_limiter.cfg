SPECIFICATION FairSpec
CONSTANTS
  Callers = {t1, t2, t3}
  MaxConcurrency = 2
  MinInterval = 2
  MaxRetries = 1
  BackoffBase = 1
  BackoffMax = 2
  RetryAfters <- MCRetryAfters
INVARIANTS TypeOK PermitsConserved
PROPERTIES ImplementsThrottle RequestsEnd
