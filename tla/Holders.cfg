CONSTANTS
  w1 = w1  w2 = w2
  s1 = s1  s2 = s2  s3 = s3
  Writers = {w1, w2}
  Addresses = {s1, s2, s3}
  NULL = NULL
  Junk = Junk
  b1 = b1  b2 = b2
  Byte = {b1, b2}
  Chunks <- SomeChunks
  MaxLen = 4
  Object = {w1, w2}
  h1 = h1  h2 = h2  h3 = h3  t1 = t1  t2 = t2  t3 = t3
  Handle = {h1, h2, h3}
  Thread = {t1, t2, t3}
  Null = Null
  Unmade = Unmade
  None = None
  g1 = g1
  JavaThread = {t1, t2}
  Local = {w1, w2}
  Global = {g1}
  Slot = {s1, s2, s3}
  JavaObject = {w1, w2}
  Nothing = Nothing
  Free = Free
SPECIFICATION Spec
SYMMETRY Symmetry
INVARIANTS
  WriterInv
  PtrInv
  RefInv
