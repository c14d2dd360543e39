\* Two concurrent callers, two relays, one of them named by default and one that
\* can switch and still report an error.
SPECIFICATION LiveSpec
CONSTANTS
  r1 = r1
  r2 = r2
  UID = {r1, r2}
  DefaultUID = r1
  NoUID = NoUID
  Caller = {c1, c2}
  NoOne = NoOne
  Flaky = {r2}
  Demanded <- MCDemanded
INVARIANTS TypeOK DesiredIsReal
PROPERTIES ImplementsPowerSwitch CallsReturn
