CONSTANTS
  Part = {"migrations"}
  w1 = w1
  w2 = w2
  s1 = s1
  s2 = s2
  t1 = t1
  t2 = t2
  a = a
  b = b
  q1 = q1
  Window = {w1, w2}
  Workspace = {s1, s2}
  Global = Global
  HomeOf <- Homes
  Theme = {t1, t2}
  Key = {k1, k2}
  None = None
  MaxCloses = 1
  MaxProject = 2
  MaxMoves = 3
  Package = {a, b}
  Op = {o1, o2}
  MaxVersion = 2
  MaxRestarts = 1
  Search = {f1, f2}
  NoSearch = NoSearch
  Query = {q1, q2}
  NoQuery = NoQuery
  MaxEntries = 2
SPECIFICATION MCSpec
CHECK_DEADLOCK FALSE
INVARIANT CodexMigrated
