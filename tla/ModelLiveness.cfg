\* Two callers contend for one session while two goroutines close the model.
CONSTANTS
  Callers = {c1, c2}
  Closers = {k1, k2}
  Sessions = {s1}
  ContextSize = 2
  None = None
SPECIFICATION Spec
PROPERTIES
  RequestsReturn
  CloseReturns
  LifecycleSpec
