\* A worker that names the default relay and one that names none.
SPECIFICATION Spec
CONSTANTS
  ID = {a, b, c}
  NoID = NoID
  UID = {r1, r2}
  NoUID = NoUID
  DefaultUID = r1
  MaxNodes = 3
SYMMETRY Symmetry
INVARIANT OneOutletPerWorker
CHECK_DEADLOCK FALSE
