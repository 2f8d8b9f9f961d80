SPECIFICATION Spec
CONSTANTS
  p1 = p1  p2 = p2  sync = sync  a1 = a1  a2 = a2  c1 = c1
  c2 = c2  r1 = r1  ping = ping  s1 = s1  srv = srv  j1 = j1
  j2 = j2  cr = cr  de = de  o1 = o1  o2 = o2  o3 = o3
  o4 = o4  f0 = f0  f1 = f1  f2 = f2  g1 = g1  g2 = g2
  i1 = i1  i2 = i2  rb = rb  mon = mon  st = st  sr = sr
  sus = sus  res = res  del = del  None = None
  Areas = {"agent"}
INVARIANT ConnectedListed
CHECK_DEADLOCK FALSE
