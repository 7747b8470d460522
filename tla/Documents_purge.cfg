SPECIFICATION Spec
CONSTANTS
  General = General
  None = None
  Docs = {d1, d2}
  Contents = {c1}
  Extensions = {"pdf"}
  Areas = {General, sales}
  Folders = {f1, f2}
  Names = {n1}
  Workers = {w1, w2}
  MaxVersions = 2
  MaxUploads = 1
  MaxAttempts = 2
  AttemptCap = 6
  MaxWork = 4
INVARIANTS ReferencedFileKept
CHECK_DEADLOCK FALSE
