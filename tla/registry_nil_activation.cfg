\* Baseline mode, one worker, two requests: a request finds a waking node and no attempt to wait on.
SPECIFICATION Spec
CONSTANTS
  Worker = {w1}
  Leader = leader
  DispatchOnly = {leader}
  Handler = {h1, h2}
  NoOne = NoOne
  Enabled = FALSE
  MinActiveNodes = 1
  LoadThreshold = 1
  RelayFaults = TRUE
  Sibling <- OneRelay
INVARIANT FollowersFindActivation
