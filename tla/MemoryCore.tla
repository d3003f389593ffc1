----------------------------- MODULE MemoryCore -----------------------------
(***************************************************************************)
(* sequia's memory arithmetic: memory::buffer<Type> and the alignment      *)
(* helpers of src/sequia/src/memory/core.hpp, and core::min_num_bytes /    *)
(* min_word_size of src/sequia/core.hpp.                                   *)
(*                                                                         *)
(* A client holds one buffer<T> (`buf`) and derives a buffer<U> from it    *)
(* (`view`), by the converting constructor or by aligned_buffer<U>; it     *)
(* also instantiates min_word_size<N>.  A buffer is its address, its item  *)
(* count and sizeof of its item type.  Addresses are uintptr_t values      *)
(* below 2^AddrBits: the bit masks ~(Alignment-1) are taken at that width, *)
(* which is exact for addresses that small (their higher bits are 0).      *)
(* Alignment is the helpers' default, sizeof of the type.  `owned` is the *)
(* memory the client handed to its latest wrap: everything derived from   *)
(* it, by conversion, assignment or alignment, should stay inside it.     *)
(***************************************************************************)
EXTENDS Naturals, Bitwise, FiniteSetsExt

CONSTANTS
  Sizes,      \* sizeof of the item types T and U the client uses
  Addresses,  \* non-null addresses the client's ranges start at
  AddrBits,   \* width of the address values the client uses
  MaxBytes,   \* largest byte range the client wraps
  Counts      \* template arguments N of min_word_size<N>

ASSUME Sizes \subseteq Nat \ {0} /\ AddrBits \in Nat /\ MaxBytes \in Nat
ASSUME Counts \subseteq Nat
\* every range the client wraps, and anything aligned up from its start,
\* leaves room below 2^AddrBits
ASSUME Addresses \subseteq 1 .. 2^AddrBits - 1 - 2 * MaxBytes

VARIABLES
  buf,    \* the client's buffer<T>
  view,   \* the buffer<U> its last call derived, if it derived one
  word,   \* N and the width of its last min_word_size<N>, if it was one
  call,   \* the client's last call
  owned,  \* [first, last): the bytes the client's latest wrap was given
  pair    \* the result of its last aligned_overhead<U>(buf), if it was one

vars == <<buf, view, word, call, owned, pair>>

\* the ABI's alignof for a type of that size: its largest power-of-two
\* divisor up to 8
AlignOf(s) == Max({a \in {1, 2, 4, 8} : s % a = 0})

\* ~(Alignment-1): every address bit above the low ones
HighMask(a) == 2^AddrBits - a

\* next_aligned: (p + Alignment-1) & ~(Alignment-1)
next_aligned(p, a) == (p + a - 1) & HighMask(a)

\* aligned_offset: p & (Alignment-1)
aligned_offset(p, a) == p & (a - 1)

\* aligned_overhead: (Alignment - (p & Alignment-1)) & Alignment-1
aligned_overhead(p, a) == (a - aligned_offset(p, a)) & (a - 1)

\* buffer::nbytes: size * sizeof(Type)
nbytes(b) == b.size * b.elem

\* buffer<Type>(void const *data, size_t bytes): whole items only
FromBytes(data, bytes, t) == [addr |-> data, size |-> bytes \div t, elem |-> t]

\* mutant: aligned_buffer builds its result with the item-count
\* constructor, so the byte count is taken as a number of items
aligned_buffer_items(b, u) ==
  LET overhead == aligned_overhead(b.addr, u)
  IN  [addr |-> next_aligned(b.addr, u),
       size |-> IF nbytes(b) > overhead THEN nbytes(b) - overhead ELSE 0,
       elem |-> u]

\* mutant: aligned_buffer sizes the view from the whole source
aligned_buffer_full(b, u) ==
  FromBytes(next_aligned(b.addr, u), nbytes(b), u)

\* aligned_buffer<U>(buf): start at the next U-aligned address and keep the
\* bytes left after the overhead (none if it eats them all)
aligned_buffer(b, u) ==
  LET address  == next_aligned(b.addr, u)
      overhead == aligned_overhead(b.addr, u)
      size     == IF nbytes(b) > overhead THEN nbytes(b) - overhead ELSE 0
  IN  FromBytes(address, size, u)

\* `one << k` is 0 in uint64_t only once k reaches 64
ShiftedOneIsZero(k) == k >= 64

\* v / 2^(8*n): v with its n low bytes dropped
RECURSIVE DropBytes(_, _)
DropBytes(v, n) == IF n = 0 THEN v ELSE DropBytes(v \div 256, n - 1)

\* value < (one << 8*n), for n whole bytes
Below(v, n) == DropBytes(v, n) = 0

\* mutant: the one-byte test takes value <= (one << 8)
min_num_bytes_le(value) ==
  IF Below(value, 1) \/ value = 256 THEN 1
  ELSE IF Below(value, 2) \/ ShiftedOneIsZero(16) THEN 2
  ELSE IF Below(value, 4) \/ ShiftedOneIsZero(32) THEN 4
  ELSE 8

\* min_num_bytes(uint64_t value)
min_num_bytes(value) ==
  IF Below(value, 1) THEN 1
  ELSE IF Below(value, 2) \/ ShiftedOneIsZero(16) THEN 2
  ELSE IF Below(value, 4) \/ ShiftedOneIsZero(32) THEN 4
  ELSE 8

\* the source's byte range [first, last)
First(b) == b.addr
Last(b) == b.addr + nbytes(b)

\* aligned_overhead<U>(buffer<T>): the bytes before the first U-aligned
\* address, and buf_size - size, a byte count less an item count
aligned_overhead_pair(b, u) ==
  LET bytes == next_aligned(First(b), u)
      size  == IF Last(b) > bytes THEN (Last(b) - bytes) \div u ELSE 0
  IN  IF size > 0 THEN <<bytes - First(b), nbytes(b) - size>> ELSE <<0, 0>>

-----------------------------------------------------------------------------
(* The client's calls.  Each call's result replaces the last one's:  *)
(* a view or word the call did not produce is the empty default.     *)

\* no buffer: address nullptr, no items
NoBuffer == [addr |-> 0, size |-> 0, elem |-> Min(Sizes)]

\* no min_word_size instantiated
NoWord == [n |-> 0, bytes |-> 1]

\* no aligned_overhead<U>(buf) taken
NoPair == <<0, 0>>

\* no memory handed over
NoRange == [first |-> 0, last |-> 0]

\* the range [data, data + bytes)
Span(data, bytes) == [first |-> data, last |-> data + bytes]

\* the client's T-aligned addresses
AlignedAddresses(t) == {a \in Addresses : a % AlignOf(t) = 0}

\* buffer<T>(void const *data, size_t bytes) over a byte range
WrapBytes ==
  \E data \in Addresses, bytes \in 0 .. MaxBytes, t \in Sizes :
    /\ buf' = FromBytes(data, bytes, t)
    /\ owned' = Span(data, bytes)
    /\ call' = "wrap_bytes"
    /\ view' = NoBuffer /\ word' = NoWord /\ pair' = NoPair

\* buffer<T>(Type *data, size_t num) over num items at a T-aligned address
WrapItems ==
  \E t \in Sizes :
    \E data \in AlignedAddresses(t), num \in 0 .. MaxBytes \div t :
      /\ buf' = [addr |-> data, size |-> num, elem |-> t]
      /\ owned' = Span(data, num * t)
      /\ call' = "wrap_items"
      /\ view' = NoBuffer /\ word' = NoWord /\ pair' = NoPair

\* buffer<T>(Type *begin, Type *end): size is end - begin in items; the
\* ASSERTF (end < begin) is compiled out of release builds
FromRange ==
  \E t \in Sizes :
    \E begin \in AlignedAddresses(t) :
      \E end \in {e \in begin .. begin + MaxBytes : (e - begin) % t = 0} :
        /\ buf' = [addr |-> begin, size |-> (end - begin) \div t, elem |-> t]
        /\ owned' = Span(begin, end - begin)
        /\ call' = "wrap_range"
        /\ view' = NoBuffer /\ word' = NoWord /\ pair' = NoPair

\* buffer<T>(static_buffer<T, N> &) and operator=(static_buffer<T, N> &):
\* the static buffer's N items, at an address aligned for its union
FromStatic ==
  \E t \in Sizes :
    \E data \in AlignedAddresses(t), n \in 1 .. MaxBytes \div t :
      /\ buf' = [addr |-> data, size |-> n, elem |-> t]
      /\ owned' = Span(data, n * t)
      /\ call' = "static"
      /\ view' = NoBuffer /\ word' = NoWord /\ pair' = NoPair

\* buffer<T>(size_t num): a size and no storage yet
Sized ==
  \E t \in Sizes :
    \E num \in 0 .. MaxBytes \div t :
      /\ buf' = [addr |-> 0, size |-> num, elem |-> t]
      /\ owned' = NoRange
      /\ call' = "sized"
      /\ view' = NoBuffer /\ word' = NoWord /\ pair' = NoPair

\* buffer::invalidate: address = nullptr, size kept
Invalidate ==
  /\ buf' = [buf EXCEPT !.addr = 0]
  /\ call' = "invalidate"
  /\ view' = NoBuffer /\ word' = NoWord /\ pair' = NoPair
  /\ UNCHANGED owned

\* buffer<U>(buffer<T> const &copy): buffer {copy.address, copy.nbytes()}
Convert ==
  \E u \in Sizes :
    /\ view' = FromBytes(buf.addr, nbytes(buf), u)
    /\ call' = "convert"
    /\ word' = NoWord /\ pair' = NoPair /\ UNCHANGED <<buf, owned>>

\* mutant: operator= copies the item count without converting it
AssignFrom_items ==
  /\ buf' = [addr |-> view.addr, size |-> view.size, elem |-> buf.elem]
  /\ call' = "assign"
  /\ view' = NoBuffer /\ word' = NoWord /\ pair' = NoPair
  /\ UNCHANGED owned

\* buffer<T>::operator=(buffer<U> const &copy): *this = buffer {copy},
\* the client assigning the buffer<U> it derived back to its buffer<T>
AssignFrom ==
  /\ buf' = FromBytes(view.addr, nbytes(view), buf.elem)
  /\ call' = "assign"
  /\ view' = NoBuffer /\ word' = NoWord /\ pair' = NoPair
  /\ UNCHANGED owned

\* aligned_buffer<U>(buf)
AlignTo ==
  \E u \in Sizes :
    /\ view' = aligned_buffer(buf, u)
    /\ call' = "aligned"
    /\ word' = NoWord /\ pair' = NoPair /\ UNCHANGED <<buf, owned>>

\* aligned_overhead<U>(buf)
Overhead ==
  \E u \in Sizes :
    /\ pair' = aligned_overhead_pair(buf, u)
    /\ call' = "overhead"
    /\ view' = NoBuffer /\ word' = NoWord /\ UNCHANGED <<buf, owned>>

\* min_word_size<N>: min_word_type<min_num_bytes(N)>::result
MinWordSize ==
  \E n \in Counts :
    /\ word' = [n |-> n, bytes |-> min_num_bytes(n)]
    /\ call' = "min_word_size"
    /\ view' = NoBuffer /\ pair' = NoPair /\ UNCHANGED <<buf, owned>>

Init ==
  /\ buf = NoBuffer
  /\ view = NoBuffer
  /\ word = NoWord
  /\ call = "none"
  /\ owned = NoRange
  /\ pair = NoPair

Next ==
  \/ WrapBytes \/ WrapItems \/ FromRange \/ FromStatic \/ Sized
  \/ Invalidate \/ Convert \/ AssignFrom \/ AlignTo \/ Overhead
  \/ MinWordSize

Spec == Init /\ [][Next]_vars

-----------------------------------------------------------------------------
(* Properties *)

\* a buffer of the address space: its bytes end inside it
Buffers ==
  {b \in [addr : 0 .. 2^AddrBits - 1, size : 0 .. MaxBytes, elem : Sizes] :
     b.addr + nbytes(b) < 2^AddrBits}

TypeOK ==
  /\ buf \in Buffers
  /\ view \in Buffers
  /\ word \in [n : Counts \cup {0}, bytes : {1, 2, 4, 8}]
  /\ call \in {"none", "wrap_bytes", "wrap_items", "wrap_range", "static",
               "sized", "invalidate", "convert", "assign", "aligned",
               "overhead", "min_word_size"}
  /\ owned \in [first : 0 .. 2^AddrBits - 1, last : 0 .. 2^AddrBits - 1]
  /\ pair \in (0 .. MaxBytes) \X (0 .. MaxBytes)

\* reference: the first address at or after a that is a multiple of s
RefFirst(a, s) == CHOOSE x \in a .. a + s - 1 : x % s = 0

\* reference: how many consecutive items of size s fit in [a, e) from
\* the first multiple of s
RefCount(a, e, s) ==
  Max({0} \cup {k \in 1 .. e - a : RefFirst(a, s) + k * s <= e})

\* aligned_buffer<U>(buf) is exactly the U-aligned part of buf: it starts
\* at the first address at or after buf's start that is a multiple of
\* sizeof(U), and holds as many U items as fit from there to buf's end, so
\* no byte outside buf is reachable through it and no whole aligned item
\* inside buf is lost
AlignedBufferExact ==
  call = "aligned" =>
    /\ view.size = RefCount(First(buf), Last(buf), view.elem)
    /\ view.size > 0 => view.addr = RefFirst(First(buf), view.elem)

\* every item of aligned_buffer<U>(buf) lies inside buf's bytes: a view
\* derived from a buffer never reaches memory the buffer does not own
AlignedBufferInside ==
  (call = "aligned" /\ view.size > 0) =>
    /\ First(buf) <= view.addr
    /\ view.addr + nbytes(view) <= Last(buf)

\* Through every chain of the client's calls (a buffer<U> made from its
\* buffer<T>, aligned_buffer, that view assigned back with operator=, and
\* so on, each rounding and shifting the range), no valid buffer it holds
\* reaches a byte outside the memory its latest wrap was given
DerivedInsideOwned ==
  \A b \in {buf, view} :
    (b.addr # 0 /\ b.size > 0) =>
      /\ owned.first <= First(b)
      /\ Last(b) <= owned.last

\* min_word_size<N>::type holds N, and no narrower word does: N is below
\* 2^(8 * bytes), and not below 2^(8 * b) for a smaller width b
MinWordFits ==
  call = "min_word_size" =>
    /\ Below(word.n, word.bytes)
    /\ \A b \in {1, 2, 4, 8} : b < word.bytes => ~Below(word.n, b)

=============================================================================
