\* a 12-byte type next to a 4-byte one: Alignment = sizeof(U) = 12 is not
\* a power of two, so the helpers' masks no longer round to multiples of it
CONSTANTS
  Sizes <- MixedSizes
  Addresses <- MCAddresses
  AddrBits = 6
  MaxBytes = 24
  Counts <- MCCounts
SPECIFICATION Spec
INVARIANT
  AlignedBufferInside
