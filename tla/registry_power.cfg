\* Power-aware mode, relays that fail: three requests, the controller and the start-up sweep on one worker.
SPECIFICATION HistorySpec
CONSTANTS
  Worker = {w1}
  Leader = leader
  DispatchOnly = {leader}
  Handler = {h1, h2, h3}
  NoOne = NoOne
  Enabled = TRUE
  MinActiveNodes = 0
  LoadThreshold = 1
  RelayFaults = TRUE
  Sibling <- OneRelay
SYMMETRY Symmetry
INVARIANTS TypeOK LoadMatchesInFlight FollowersHaveWaker WakingHasWaker
  WakeExclusiveUnlessOverwritten ActiveReadyUnlessDegraded
