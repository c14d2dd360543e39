\* Baseline mode, relays that fail: the prewarming of two workers against two requests.
SPECIFICATION Spec
CONSTANTS
  Worker = {w1, w2}
  Leader = leader
  DispatchOnly = {leader}
  Handler = {h1, h2}
  NoOne = NoOne
  Enabled = FALSE
  MinActiveNodes = 1
  LoadThreshold = 1
  RelayFaults = TRUE
  Sibling <- OneRelay
SYMMETRY Symmetry
INVARIANTS WakeExclusive ActiveReady
