SPECIFICATION Spec
CONSTANTS
  Releases <- MCReleases
  Emb <- MCEmb
  Features = {"r1"}
  First = "r1"
  MaxAnchors = 3
  MaxAway = 1
  MaxGrants = 1
  MaxCrashes = 1
  CrashIn = {"switch"}
  Kinds = {"swap", "retire", "collect"}
 
PROPERTIES GcKeepsRecovery OverwrittenIsAnchored 
CHECK_DEADLOCK FALSE
