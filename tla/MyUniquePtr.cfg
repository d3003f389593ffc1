\* two MyUniquePtrs and three heap objects: enough for a move between
\* pointers that both own, a self-move, and a reset to a released pointer
CONSTANTS
  Ptrs = {p1, p2}
  Objects = {o1, o2, o3}
  Null = Null
SPECIFICATION Spec
INVARIANTS
  OwnedExactlyOnce
