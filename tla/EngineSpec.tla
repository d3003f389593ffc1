----------------------------- MODULE EngineSpec -----------------------------
(***************************************************************************)
(* What the state-machine engine promises (spec.md §3, §4.4, §7): at most  *)
(* one state is current; initialize constructs the initial state; react    *)
(* follows the table row of the current state or ignores the event;        *)
(* a target whose construction fails leaves the machine Faulted, where     *)
(* react is rejected; teardown returns to Uninitialized.                   *)
(*                                                                         *)
(* The value held in storage is always of the current state's type, so    *)
(* the abstract state is just the mode and the current tag.                *)
(***************************************************************************)

CONSTANTS
  Tags,          \* the catalog's state tags
  Events,        \* event kinds
  Initial,       \* the initial tag
  NoTransition,  \* "no entry": the event is ignored
  Failing,       \* tags whose construction can fail
  None           \* current() of a machine with no live state

ASSUME Initial \in Tags

VARIABLES
  mode,     \* "uninitialized", "active" or "faulted"
  current,  \* the live tag, or None
  table     \* lookup(sourceTag, eventKind): a tag or NoTransition; built
            \* once at configuration time, read-only afterwards

Initialize ==
  /\ mode = "uninitialized"
  /\ \/ mode' = "active" /\ current' = Initial
     \/ Initial \in Failing /\ UNCHANGED <<mode, current>>
  /\ UNCHANGED table

\* a declared row: destroy the current value, construct the target's
React(e) ==
  /\ mode = "active"
  /\ table[current, e] # NoTransition
  /\ \/ mode' = "active" /\ current' = table[current, e]
     \/ table[current, e] \in Failing /\ mode' = "faulted" /\ current' = None
  /\ UNCHANGED table

Teardown ==
  /\ mode # "uninitialized"
  /\ mode' = "uninitialized"
  /\ current' = None
  /\ UNCHANGED table

Init ==
  /\ mode = "uninitialized"
  /\ current = None
  /\ table \in [Tags \X Events -> Tags \cup {NoTransition}]

Next ==
  \/ Initialize
  \/ \E e \in Events : React(e)
  \/ Teardown

Spec == Init /\ [][Next]_<<mode, current, table>>

=============================================================================
