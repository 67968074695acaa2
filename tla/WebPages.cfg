SPECIFICATION MCSpec
CONSTANTS
  k1 = k1
  k2 = k2
  u1 = u1
  u2 = u2
  text = text
  pointer = pointer
  blank = blank
  filled = filled
  None = None
  Routes <- TodoRoutes
  Path <- TodoPaths
  Wildcard = {":id"}
  MaxStack = 2
  MaxRouters = 2
  Links <- TodoLinks
  Guarded = {"todos", "todo", "settings", "password"}
  Field = {text, pointer}
  Value = {blank, filled}
  Zero = blank
  Bad = {blank}
  Pointers = {pointer}
  OnSubmitOnly = FALSE
  Sub = {k1, k2}
  User = {u1, u2}
INVARIANTS Located OneHop SubmittingExact ErrorsFit UserIsSessions
