----------------------------- MODULE MyUniquePtr -----------------------------
(***************************************************************************)
(* MyUniquePtr<T>, src/course/my_unique_ptr.cpp: a single-owner smart      *)
(* pointer.  A client holds a few MyUniquePtr objects and a few raw         *)
(* pointers; it allocates with new, hands raw pointers to the constructor  *)
(* or reset, takes them back with release, moves between MyUniquePtrs by   *)
(* construction and assignment (self-assignment included), deletes raw    *)
(* pointers it holds, and ends MyUniquePtr lifetimes.  Copy is deleted in  *)
(* the class, so the client has no copy operation.  The client keeps the   *)
(* class's precondition: a raw pointer it passes in is one it owns, and it *)
(* no longer holds it afterwards.                                          *)
(***************************************************************************)
EXTENDS Naturals, FiniteSets

CONSTANTS
  Ptrs,     \* MyUniquePtr objects of the client
  Objects,  \* heap objects `new T` may return
  Null      \* nullptr

ASSUME Null \notin Objects

VARIABLES
  ptr,        \* ptr[p]: the member `ptr` of MyUniquePtr p
  life,       \* life[p]: "unborn", "alive" or "dead"
  raw,        \* raw pointers the client holds
  allocated,  \* objects returned by new so far
  deletes,    \* deletes[o]: how many times delete ran on o
  call        \* the client's last call

vars == <<ptr, life, raw, allocated, deletes, call>>

\* `delete q` for a non-null q, counted up to 2
Delete(q) == [deletes EXCEPT ![q] = IF @ < 2 THEN @ + 1 ELSE 2]

\* `delete q` guarded by `if (q != nullptr)`
DeleteIfSet(q) == IF q # Null THEN Delete(q) ELSE deletes

\* the client's `new T`
New ==
  \E o \in Objects \ allocated :
    /\ allocated' = allocated \cup {o}
    /\ raw' = raw \cup {o}
    /\ UNCHANGED <<ptr, life, deletes>>
    /\ call' = "new"

\* MyUniquePtr(T* other_ptr = nullptr): ptr = other_ptr
Construct(p) ==
  /\ life[p] # "alive"
  /\ \E r \in raw \cup {Null} :
       /\ ptr' = [ptr EXCEPT ![p] = r]
       /\ raw' = raw \ {r}
  /\ life' = [life EXCEPT ![p] = "alive"]
  /\ UNCHANGED <<allocated, deletes>>
  /\ call' = "construct"

\* ~MyUniquePtr(): delete ptr if it is set
Destroy(p) ==
  /\ life[p] = "alive"
  /\ deletes' = DeleteIfSet(ptr[p])
  /\ life' = [life EXCEPT ![p] = "dead"]
  /\ ptr' = [ptr EXCEPT ![p] = Null]
  /\ UNCHANGED <<raw, allocated>>
  /\ call' = "destroy"

\* MyUniquePtr(MyUniquePtr&& other): take other's pointer, null other's
MoveConstruct(p, q) ==
  /\ life[p] # "alive" /\ life[q] = "alive" /\ p # q
  /\ ptr' = [ptr EXCEPT ![p] = ptr[q], ![q] = Null]
  /\ life' = [life EXCEPT ![p] = "alive"]
  /\ UNCHANGED <<raw, allocated, deletes>>
  /\ call' = "move_construct"

\* reset(other_ptr) applied to p, as a function of the state it starts from
ResetTo(p, r) ==
  /\ deletes' = DeleteIfSet(ptr[p])
  /\ ptr' = [ptr EXCEPT ![p] = r]

\* operator=(MyUniquePtr&& other): unless this == &other,
\* reset(other.ptr) and then other.ptr = nullptr
MoveAssign(p, q) ==
  /\ life[p] = "alive" /\ life[q] = "alive"
  /\ IF p # q
       THEN /\ deletes' = DeleteIfSet(ptr[p])
            /\ ptr' = [ptr EXCEPT ![p] = ptr[q], ![q] = Null]
       ELSE UNCHANGED <<ptr, deletes>>
  /\ UNCHANGED <<life, raw, allocated>>
  /\ call' = "move_assign"

\* mutant: release() returns ptr but leaves it set
Release_keeps(p) ==
  /\ life[p] = "alive"
  /\ raw' = IF ptr[p] # Null THEN raw \cup {ptr[p]} ELSE raw
  /\ UNCHANGED <<ptr, life, allocated, deletes>>
  /\ call' = "release"

\* release(): return ptr to the caller and null it
Release(p) ==
  /\ life[p] = "alive"
  /\ raw' = IF ptr[p] # Null THEN raw \cup {ptr[p]} ELSE raw
  /\ ptr' = [ptr EXCEPT ![p] = Null]
  /\ UNCHANGED <<life, allocated, deletes>>
  /\ call' = "release"

\* reset(other_ptr = nullptr): delete the old pointer, take the new one
Reset(p) ==
  /\ life[p] = "alive"
  /\ \E r \in raw \cup {Null} :
       /\ ResetTo(p, r)
       /\ raw' = raw \ {r}
  /\ UNCHANGED <<life, allocated>>
  /\ call' = "reset"

\* the client deletes a raw pointer it holds
DeleteRaw ==
  \E o \in raw :
    /\ deletes' = Delete(o)
    /\ raw' = raw \ {o}
    /\ UNCHANGED <<ptr, life, allocated>>
    /\ call' = "delete"

Init ==
  /\ ptr = [p \in Ptrs |-> Null]
  /\ life = [p \in Ptrs |-> "unborn"]
  /\ raw = {}
  /\ allocated = {}
  /\ deletes = [o \in Objects |-> 0]
  /\ call = "none"

Next ==
  \/ New
  \/ DeleteRaw
  \/ \E p \in Ptrs :
       \/ Construct(p) \/ Destroy(p) \/ Release(p) \/ Reset(p)
       \/ \E q \in Ptrs : MoveConstruct(p, q) \/ MoveAssign(p, q)

Spec == Init /\ [][Next]_vars

-----------------------------------------------------------------------------
(* Properties *)

\* the holders of o: live MyUniquePtrs whose ptr is o, and the client's
\* raw pointer if it has one
Holders(o) ==
  Cardinality({p \in Ptrs : life[p] = "alive" /\ ptr[p] = o})
    + (IF o \in raw THEN 1 ELSE 0)

\* Single ownership through every sequence of moves, move-assignments
\* (self included), releases, resets and destructions: an object from new
\* has exactly one holder until it is deleted, and none after; so no
\* object is deleted twice, none is reachable after delete, and none is
\* dropped without delete
OwnedExactlyOnce ==
  \A o \in allocated : Holders(o) = IF deletes[o] = 0 THEN 1 ELSE 0

=============================================================================
