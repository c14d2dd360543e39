\* Power-aware mode, one worker, one request: a revived node is active without its functions.
SPECIFICATION Spec
CONSTANTS
  Worker = {w1}
  Leader = leader
  DispatchOnly = {leader}
  Handler = {h1}
  NoOne = NoOne
  Enabled = TRUE
  MinActiveNodes = 1
  LoadThreshold = 1
  RelayFaults = FALSE
  Sibling <- OneRelay
PROPERTY ActiveHasFunctions
