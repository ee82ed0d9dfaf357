\* The backend allows what the process allows itself.
SPECIFICATION Spec
CONSTANTS
  c1 = c1  c2 = c2
  Callers <- TwoCallers
  Suffixes = {"pdf", "tiff"}
  Scans <- AllScans
  PageWidths <- UpTo40
  Max = 1
  Window = 2
  MaxRetries = 2
  RetryMaxWait = 1
  Rungs = 2
  Fits <- Sizes
  BackendMax = 1
INVARIANTS RejectedIsPermanent
