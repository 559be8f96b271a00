SPECIFICATION Spec
CONSTANTS
  s1 = s1  s2 = s2  p1 = p1  p2 = p2  a = a  b = b  Nil = Nil
  Starts = {s1, s2}
  Stops = {p1, p2}
  Clients = {}
  Stallers = {}
INVARIANT
  StopStopsServer
