\* Two requests, the reaper and an interrupt over one function and three deployments of it, one without containers.
SPECIFICATION Spec
CONSTANTS
  Name = {f}
  Deployment = {d1, d2, d0}
  NoThreads = {d0}
  Request = {r1, r2}
  Reaper = reaper
  Stopper = stopper
  None = None
  IdleTeardown = TRUE
  DockerFaults = TRUE
SYMMETRY Symmetry
INVARIANTS TypeOK RoutesServe RoutedIsListed StoreMatchesTable ChangesTakeEffect MutexIsReturned
PROPERTY ImplementsRollout
