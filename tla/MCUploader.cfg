\* Two threads share a slot per window of two ticks, and the backend allows no more.
SPECIFICATION FairSpec
CONSTANTS
  c1 = c1  c2 = c2
  Callers <- TwoCallers
  Suffixes = {"pdf", "tiff"}
  Scans <- AllScans
  PageWidths <- UpTo40
  Max = 1
  Window = 2
  MaxRetries = 2
  RetryMaxWait = 1
  Rungs = 2
  Fits <- Sizes
  BackendMax = 1
INVARIANTS TypeOK GrantsWithinQuota SentNearQuota RejectedAtEverySize DegradedForCause CopiesExplained SentTurned RungsShrink
PROPERTIES StarvedBySendersOnly VerdictSpec
