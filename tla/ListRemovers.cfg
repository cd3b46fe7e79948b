SPECIFICATION ListSpec
CONSTANTS
  Null = Null
  Nodes = {n1, n2, n3}
  Keys = {k1, k2, k3}
  Regimes = {{"task", "handler"}}
  MaxPushes = 5
INVARIANTS TraversalsAreLive
