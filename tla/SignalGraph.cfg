SPECIFICATION Spec
CONSTANTS
  name = name
  count = count
  e1 = e1
  e2 = e2
  e3 = e3
  Signal = {name, count}
  Effect = {e1, e2, e3}
  Value = {0, 1}
  Incomparable = {name, count}
  NoEffect = NoEffect
  Unread = Unread
  BodyLength = 2
SYMMETRY Interchangeable
INVARIANTS Symmetric ReadsTracked StaleIsOwed Settled
