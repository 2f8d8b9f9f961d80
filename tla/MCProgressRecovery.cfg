SPECIFICATION Spec
CONSTANTS
  api = api  db = db  dep = dep  mkt = mkt  ghost = ghost  r1 = r1  r2 = r2
  r3 = r3  j1 = j1  c1 = c1  c2 = c2  c3 = c3  app = app  other = other
  h1 = h1  h2 = h2  b1 = b1  p1 = p1  p2 = p2  a1 = a1  None = None
  Areas = {"ingress"}
PROPERTY IngressRecovers
CHECK_DEADLOCK FALSE
