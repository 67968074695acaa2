SPECIFICATION Spec
CONSTANTS
  todos = todos
  todo1 = todo1
  u1 = u1
  u2 = u2
  u3 = u3
  m1 = m1
  m2 = m2
  w1 = w1
  w2 = w2
  Keys = {todos}
  Prefixes = {todos}
  Covers <- OneList
  Uses = {u1, u2}
  FocusUses = {}
  Mutates = {m1}
  Optimistic = {}
  Writers = {}
  Workers = {w1, w2}
  Window = Window
  Clearable = FALSE
  PromptFetches = TRUE
  OneCacheTime = TRUE
  MaxCalls = 2
  NoEntry = NoEntry
  NoFlight = NoFlight
  NoSnapshot = NoSnapshot
SYMMETRY Interchangeable
CHECK_DEADLOCK FALSE
INVARIANTS FetchingExact
PROPERTIES KeepsPromise
