SPECIFICATION FairSpec
CONSTANTS
  p1 = p1
  p2 = p2
  users = users
  todos = todos
  Proc = {p1, p2}
  Name = {users, todos}
  First = 998
  Last = 999
  Strict = TRUE
  Understood = TRUE
  Depth = 0
  DownAlone = TRUE
  MaxAborts = 2
  MaxDowns = 2
CHECK_DEADLOCK FALSE
INVARIANTS LedgerExact
PROPERTIES InOrder Converges
