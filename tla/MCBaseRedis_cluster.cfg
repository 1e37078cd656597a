\* Three processes, one RemoveAll, two failing commands.
CONSTANTS
  Item = {x, y, z}
  Proc = {p1, p2, p3}
  Length = 2
  Unique = TRUE
  MaxRemoves = 1
  MaxFaults = 2
SPECIFICATION Spec
INVARIANTS LengthBound QueuedOnce RegisteredIsQueued
SYMMETRY Symmetry
