SPECIFICATION Spec
CONSTANTS
    w1 = w1  w2 = w2  a1 = a1  a2 = a2  f1 = f1  f2 = f2
    Attempts = {a1}
    Workers = {w1, w2}
    Foreign = {}
    NoToken = NoToken
    BatchSize = 2
    MaxOnline = 1
    MaxEvents = 1
SYMMETRY Symmetry
INVARIANTS
  ScheduledWhileOpen
  AgreesWithChannel
PROPERTIES
  StaleRoundsChangeNothing
