\* Power-aware mode with the default floor of one: the relay is opened under a request.
SPECIFICATION Spec
CONSTANTS
  Worker = {w1, w2}
  Leader = leader
  DispatchOnly = {leader}
  Handler = {h1, h2}
  NoOne = NoOne
  Enabled = TRUE
  MinActiveNodes = 1
  LoadThreshold = 1
  RelayFaults = FALSE
  Sibling <- OneRelay
PROPERTY NeverKillBusy
