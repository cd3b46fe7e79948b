SPECIFICATION DispatchSpec
CONSTANTS
  Nil = Nil
  Kernel = kernel
  Posters = {u1}
  Pollers = {kernel}
  Values = {a}
  Capacity = 2
  Laps = 4
  Starts = {0}
  MaxCalls = 3
  MaxSpurious = 0
  NewTaskCapacity = 4
PROPERTIES HandlerReturns
