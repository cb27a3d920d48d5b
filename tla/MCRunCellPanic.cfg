SPECIFICATION Spec
CONSTANTS
  Clients = {c1, c2}
  Operations = 5
  NKeys = 3
  BatchSize = 2
  Engines <- Cells
  Panics = {"open", "load", "flush", "account", "close"}
INVARIANT
  PanicCaptured
