SPECIFICATION MCSpec
CONSTANTS
  r1 = r1
  r2 = r2
  s1 = s1
  s2 = s2
  u1 = u1
  u2 = u2
  t1 = t1
  t2 = t2
  a = a
  b = b
  old = old
  new = new
  Password = {old, new}
  None = None
  Gone = Gone
  Req = {r1, r2}
  Sid = {s1, s2}
  User = {u1, u2}
  Todo = {t1, t2}
  Title = {a, b}
  Stores = {"memory", "gorm"}
  Calls <- MCCalls
  Limit = 1
  Window = 2
  Duration = 1
  MaxTime = 2
  MaxCalls = 4
CHECK_DEADLOCK FALSE
INVARIANTS ServedByRight GuessesBounded ReturnsClean PromisesKept
PROPERTIES OwnRowsOnly Stops
