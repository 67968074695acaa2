SPECIFICATION Spec
CONSTANTS
  App = App
  Item = Item
  r1 = r1
  r2 = r2
  r3 = r3
  r4 = r4
  Comp = {App, Item}
  Default = Default
  Bodies <- ListBodies
  Dep = {0, 1}
  Run = {r1, r2, r3, r4}
  NoRun = NoRun
  NoFiber = NoFiber
  Nobody = Nobody
  MaxRenders = 3
  MaxCalls = 2
SYMMETRY Interchangeable
CHECK_DEADLOCK FALSE
INVARIANTS OwnSlots CleanupExact CurrentExact
