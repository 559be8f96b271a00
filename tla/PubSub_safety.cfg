\* Any three calls on two connections, one of which may break.
SPECIFICATION Spec
CONSTANTS
  c1 = c1  c2 = c2  p1 = p1  p2 = p2  p3 = p3  p4 = p4  news = news  glob = glob
  Conns = {c1, c2}
  Channels = {news}
  Patterns = {glob}
  Matching <- GlobMatches
  Callers = {p1, p2, p3}
  Operations = {"subscribe", "unsubscribe", "publish"}
  MayBreak = {c2}
  Pieces = 2
SYMMETRY Symmetry
INVARIANTS
  TypeOK
  FramesWhole
  PublishReachesAll
  AckTellsCount
