\* One function, uploaded up to twice and deleted, on one worker that two
\* goroutines may be waking at once.
SPECIFICATION Spec
CONSTANTS
  Worker = {w1}
  Waker = {k1, k2}
  Function = {f}
  None = None
  MaxVersion = 2
INVARIANTS TypeOK InSync
PROPERTIES StaleOnlyLate ChangeAnswered
