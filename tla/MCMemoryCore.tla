---------------------------- MODULE MCMemoryCore ----------------------------
(* Constant values for checking MemoryCore with TLC *)
EXTENDS MemoryCore

\* boundaries of min_num_bytes: each width's largest and smallest value,
\* up to TLC's largest integer (2^31 - 1)
MCCounts == {0, 1, 255, 256, 65535, 65536, 2147483647}

\* one non-null start address for every offset modulo 8, the largest
\* alignment of the item sizes below
MCAddresses == 8 .. 15

\* item sizes that are powers of two: every scalar type
PowerOfTwoSizes == {1, 2, 4, 8}

\* adds a 12-byte type, such as a struct of three 32-bit ints
MixedSizes == {4, 12}

=============================================================================
