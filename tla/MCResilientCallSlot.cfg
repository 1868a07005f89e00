SPECIFICATION Spec
CONSTANTS
  c1 = c1
  c2 = c2
  c3 = c3
  Calls <- MCCalls
  WithFallback <- MCWithFallback
  MaxAttempts = 2
  FailThreshold = 2
  ResetTimeout = 2
  Window = 1
  RateNum = 3
  RateDen = 10
  BaseDelay = 1
  MaxDelay = 2
  Exceptions <- MCExceptions
  TimeoutError = "TimeoutError"
  RetryOn <- MCRetryOn
  DoNotRetryOn <- MCDoNotRetryOn
INVARIANTS
  SlotTakenMeansInFlight
