SPECIFICATION MCSpec
CONSTANTS
  Nil = Nil
  Posters = {u1, u2}
  Pollers = {u2, k}
  Values = {"v1", "v2", "v3", "v4"}
  Capacity = 2
  Laps = 4
  Starts = {13}
  MaxCalls = 4
  MaxSpurious = 1
INVARIANTS TypeOK SlotExclusive
PROPERTIES IsFifo CallsReturn
