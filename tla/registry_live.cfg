\* Power-aware mode under fair scheduling: two requests on one worker, relays that obey.
SPECIFICATION LiveSpec
CONSTANTS
  Worker = {w1}
  Leader = leader
  DispatchOnly = {leader}
  Handler = {h1, h2}
  NoOne = NoOne
  Enabled = TRUE
  MinActiveNodes = 0
  LoadThreshold = 1
  RelayFaults = FALSE
  Sibling <- OneRelay
PROPERTIES WakeResolves ActivationAnswered DeadReturns NoIdleSurplus
