\* Every list of up to three nodes, and every cabling of three machines.
SPECIFICATION WiringSpec
CONSTANTS
  ID = {a, b, c}
  NoID = NoID
  UID = {r1}
  NoUID = NoUID
  DefaultUID = r1
  MaxNodes = 3
  Machine = {m1, m2, m3}
  Nothing = Nothing
SYMMETRY Symmetry
INVARIANTS AcceptsExactlyValid VerifiedIsWired AlarmIsReal
CHECK_DEADLOCK FALSE
