\* Two properties that fail: run with -continue to see both.
SPECIFICATION Spec
CONSTANTS
  c1 = c1  c2 = c2  p1 = p1  p2 = p2  p3 = p3  p4 = p4  news = news  glob = glob
  Conns = {c1}
  Channels = {news}
  Patterns = {}
  Matching <- GlobMatches
  Callers = {p1, p2, p3}
  Operations = {"subscribe", "unsubscribe", "publish"}
  MayBreak = {}
  Pieces = 2
SYMMETRY Symmetry
INVARIANTS
  NoMessageAfterUnsubscribe
  NoMessageBeforeSubscribe
