\* a pool of four blocks: room for a free list with blocks both in and out
\* of thread order after interleaved frees, and for exhausting the pool
CONSTANTS
  Size = 4
SPECIFICATION Spec
INVARIANTS
  TypeOK
  FreeListExact
