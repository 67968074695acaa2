SPECIFICATION FairSpec
CONSTANTS
  web = web
  api = api
  types = types
  made = made
  shell = shell
  mail = mail
  maildir = maildir
  input = input
  p1 = p1
  p2 = p2
  c1 = c1
  c2 = c2
  c3 = c3
  Files = {types, made, mail}
  GoFiles = {mail}
  NewDirs = {maildir}
  Inside <- ProjectInside
  Place <- ProjectPlaces
  Readers <- ProjectReaders
  Stray = {mail}
  Generated = {made}
  Scratch = {}
  Pages = {p1}
  Conns = {c1, c2}
  Buffer = 1
  EarlyEdits = TRUE
  MaxMoves = 2
  NoPage = NoPage
CHECK_DEADLOCK FALSE
PROPERTIES Settles OverlaySettles
INVARIANTS OverlayAgrees ReloadOnItsWay ChangeAccounted
