\* power-of-two item sizes, ranges of up to 16 bytes (two 8-byte items) at each offset modulo 8,
\* and the width boundaries of min_num_bytes
CONSTANTS
  Sizes <- PowerOfTwoSizes
  Addresses <- MCAddresses
  AddrBits = 6
  MaxBytes = 16
  Counts <- MCCounts
SPECIFICATION Spec
INVARIANTS
  TypeOK
  AlignedBufferExact
  MinWordFits
  DerivedInsideOwned
