SPECIFICATION Spec
CONSTANTS
  Connection = {c1, c2, c3}
  Descriptor = {1, 2, 3, 4, 5, 6}
  Size = 2
  c1 = c1
  c2 = c2
  c3 = c3
INVARIANT BodyStored
CHECK_DEADLOCK FALSE
