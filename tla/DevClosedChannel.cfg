SPECIFICATION Spec
CONSTANTS
  web = web
  api = api
  types = types
  made = made
  shell = shell
  mail = mail
  maildir = maildir
  input = input
  p1 = p1
  p2 = p2
  c1 = c1
  c2 = c2
  c3 = c3
  Files = {web}
  GoFiles = {web}
  NewDirs = {}
  Inside <- ProjectInside
  Place <- ProjectPlaces
  Readers <- ProjectReaders
  Stray = {}
  Generated = {}
  Scratch = {}
  Pages = {p1}
  Conns = {c1, c2}
  Buffer = 2
  EarlyEdits = FALSE
  MaxMoves = 2
  NoPage = NoPage
CHECK_DEADLOCK FALSE
INVARIANTS NeverPanics
