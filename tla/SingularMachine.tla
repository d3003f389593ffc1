--------------------------- MODULE SingularMachine ---------------------------
(***************************************************************************)
(* The state-machine engine of src/sequia/state.hpp:                      *)
(* sequia::state::singular_machine<Initial, States...>.                   *)
(*                                                                         *)
(* The catalog is the template argument list <<Initial, States...>>; each  *)
(* type gets the stateid of its singular_machine_base, 0 .. N-1, and the   *)
(* sentinel base (state_type null) has stateid N = sizeof...(States).      *)
(* Every helper (activator, deactivator, default_constructor, constructor, *)
(* destructor, active_destructor, reactor) is a walk down that chain: it   *)
(* tests one base and otherwise recurses into base_type, ending at the     *)
(* sentinel.  The context is { active, buffer }; buffer is one byte array  *)
(* sized by core::max_type_size.                                           *)
(*                                                                         *)
(* The object lifetime in the buffer is modelled by `cell`: the type whose *)
(* value currently lives there, or Empty.  `hooks` lists the helper calls  *)
(* of the last public operation, each with what the buffer held when the   *)
(* call ran, so that properties can see a destructor run on the wrong      *)
(* bytes.  `call` records that operation and whether it threw.             *)
(*                                                                         *)
(* The header does not compile as written (is_active returns void, the     *)
(* in-class start<null> specialisations, default_constructor's misnamed    *)
(* constructor, active_destructor missing a template argument).  The model *)
(* takes each body as written: is_active yields the comparison it returns, *)
(* and a walk stops at the sentinel.                                       *)
(***************************************************************************)
EXTENDS Naturals, Sequences, SequencesExt

CONSTANTS
  Types,       \* state types the program names, in the catalog or not
  Events,      \* event types passed to react<Event>
  Null,        \* traits::state::null: "no transition", also "no event"
  Empty,       \* no object alive in ctx_.buffer
  Catalog,     \* <<Initial, States...>>
  Tables,      \* admissible specialisations of traits::state::transition
  Throwing,    \* types whose constructors may throw
  Size,        \* sizeof of each type
  Align        \* alignof of each type

ASSUME Catalog \in Seq(Types) /\ Len(Catalog) > 0
ASSUME Tables \subseteq [Range(Catalog) \X Events -> Types \cup {Null}]
ASSUME Throwing \subseteq Types
ASSUME Size \in [Types -> Nat \ {0}] /\ Align \in [Types -> Nat \ {0}]

VARIABLES
  alive,   \* the singular_machine object exists (constructor returned)
  active,  \* ctx_.active
  cell,    \* type of the value living in ctx_.buffer, or Empty
  hooks,   \* helper calls made by the last operation
  call,    \* the last public operation and whether it threw
  transition  \* transition<State, Event>::next: fixed when the program is
              \* compiled, so chosen in Init and never changed

vars == <<alive, active, cell, hooks, call, transition>>

-----------------------------------------------------------------------------
(* Catalog and chain walk                                                  *)

\* sizeof...(States): number of catalog types, stateid of the sentinel base
N == Len(Catalog)

\* state_type of singular_machine_base<id, ...>
TypeOf(id) == Catalog[id + 1]

\* start<base_type>() recursing through base_type: the first stateid among
\* the bases that satisfy the walk's test, or N when it reaches the sentinel
ChainWalk(hits) == IF hits = {} THEN N ELSE Min(hits)

\* the bases whose test holds, as ids 0 .. N-1
Bases == 0 .. N - 1

\* singular_machine::is_active
is_active(stateid) == active = stateid

\* activator walked from RootBase: set_active(CurrMachine::stateid) at the
\* first base whose state_type is the target
activator(T) == ChainWalk({id \in Bases : TypeOf(id) = T})

\* constructor walked from RootBase: placement-new CurrState(event) at the
\* first base whose state_type is the target; N when it reaches the sentinel
constructor(T) == ChainWalk({id \in Bases : TypeOf(id) = T})

\* default_constructor<this_type, Initial> walked from base_type
default_constructor ==
  TypeOf(ChainWalk({id \in Bases : TypeOf(id) = Catalog[1]}))

\* reactor::start: the first base whose transition<CurrState, Event>::next is
\* not null and for which is_active(BaseMachine::stateid) holds
reactor(e) ==
  ChainWalk({id \in Bases : /\ transition[TypeOf(id), e] # Null
                            /\ is_active(id + 1)})

\* active_destructor::start: the first base with is_active(BaseMachine::stateid)
active_destructor == ChainWalk({id \in Bases : is_active(id + 1)})

\* core::max: the larger of two sizes
max(a, b) == IF a > b THEN a ELSE b

\* core::max_type_size<T, Ts...>(): the inner call max_type_size() resolves to
\* the non-template overload returning 0, so Ts... is never visited
max_type_size(ts) == IF ts = << >> THEN 0 ELSE max(Size[Head(ts)], 0)

\* uint8_t buffer[core::max_type_size<States...>()] of singular_context
BufferSize == max_type_size(Catalog)

\* the buffer follows size_t active, so its address is a multiple of 8 only
BufferAlign == 8

-----------------------------------------------------------------------------
(* Operations                                                              *)

\* a helper call, with what the buffer holds when it runs
Hook(h, t, found) == [hook |-> h, type |-> t, found |-> found]

\* deactivator<RootMachine, S> started at the base whose state_type is S:
\* set_inactive is empty, so only the call itself is observable
deactivator(S) == Hook("deactivate", S, cell)

\* destructor<RootMachine, S>: ~S() on the buffer, whatever it holds
destructor(S) == Hook("destroy", S, cell)

\* outcomes of running T's constructor: TRUE means it threw
Throws(T) == IF T \in Throwing THEN {FALSE, TRUE} ELSE {FALSE}

\* singular_machine() : ctx_ starts with active = sizeof...(States), then
\* default_constructor<this_type, Initial> placement-news Initial().  If that
\* throws, the machine object never comes to exist.
Construct ==
  /\ ~alive
  /\ \E threw \in Throws(default_constructor) :
       /\ alive' = ~threw
       /\ cell' = IF threw THEN Empty ELSE default_constructor
       /\ call' = [op |-> "construct", event |-> Null, threw |-> threw]
  /\ active' = N
  /\ hooks' = << Hook("construct", default_constructor, Empty) >>
  /\ UNCHANGED transition

\* reactor branch taken for the base of type S with next state T:
\* deactivator (set_inactive does nothing), destructor of S run on the
\* buffer, activator sets active to T's stateid, constructor builds T(event).
\* T is in the catalog; its constructor may throw after active was set.
Transit(S, T, e) ==
  /\ active' = activator(T)
  /\ \E threw \in Throws(T) :
       /\ cell' = IF threw THEN Empty ELSE T
       /\ call' = [op |-> "react", event |-> e, threw |-> threw]
  /\ hooks' = << deactivator(S), destructor(S),
                 Hook("activate", T, Empty), Hook("construct", T, Empty) >>
  /\ UNCHANGED <<alive, transition>>

\* Variant: placement-new of NextState without the constructor walk, so a
\* target outside the catalog is built anyway; TypeOK catches it
TransitOutside_unchecked(S, T, e) ==
  /\ cell' = T
  /\ call' = [op |-> "react", event |-> e, threw |-> FALSE]
  /\ hooks' = << deactivator(S), destructor(S) >>
  /\ UNCHANGED <<alive, active, transition>>

\* the same branch when T is not in the catalog: the activator and
\* constructor walks reach the sentinel and do nothing
TransitOutside(S, T, e) ==
  /\ cell' = Empty
  /\ call' = [op |-> "react", event |-> e, threw |-> FALSE]
  /\ hooks' = << deactivator(S), destructor(S) >>
  /\ UNCHANGED <<alive, active, transition>>

\* singular_machine::react<Event>: the reactor walk from base_type
React(e) ==
  /\ alive
  /\ \/ /\ reactor(e) = N
        /\ hooks' = << >>
        /\ call' = [op |-> "react", event |-> e, threw |-> FALSE]
        /\ UNCHANGED <<alive, active, cell, transition>>
     \/ LET S == TypeOf(reactor(e))
            T == transition[S, e]
        IN  /\ reactor(e) < N
            /\ \/ constructor(T) < N /\ Transit(S, T, e)
               \/ constructor(T) = N /\ TransitOutside(S, T, e)

\* ~singular_machine(): active_destructor runs ~CurrState on the buffer for
\* the base it selects, then the object and its buffer are gone
Destruct ==
  /\ alive
  /\ hooks' = IF active_destructor < N
                THEN << destructor(TypeOf(active_destructor)) >>
                ELSE << >>
  /\ alive' = FALSE
  /\ active' = N
  /\ cell' = Empty
  /\ call' = [op |-> "destruct", event |-> Null, threw |-> FALSE]
  /\ UNCHANGED transition

Init ==
  /\ alive = FALSE
  /\ active = N
  /\ cell = Empty
  /\ hooks = << >>
  /\ call = [op |-> "none", event |-> Null, threw |-> FALSE]
  /\ transition \in Tables

Next ==
  \/ Construct
  \/ \E e \in Events : React(e)
  \/ Destruct

Spec == Init /\ [][Next]_vars

-----------------------------------------------------------------------------
(* Properties                                                              *)

CatalogTypes == Range(Catalog)

HookRecords ==
  [hook : {"construct", "deactivate", "destroy", "activate"},
   type : Types, found : CatalogTypes \cup {Empty}]

\* Type invariant of the machine's state.
TypeOK ==
  /\ alive \in BOOLEAN
  /\ active \in 0 .. N
  /\ cell \in CatalogTypes \cup {Empty}
  /\ hooks \in Seq(HookRecords) /\ Len(hooks) <= 4
  /\ call \in [op : {"none", "construct", "react", "destruct"},
               event : Events \cup {Null}, threw : BOOLEAN]
  /\ transition \in Tables

\* Central invariant of spec.md §3 for a live machine: the buffer holds a
\* value exactly of the type ctx_.active names (or nothing when none is
\* active), checked as refinement of the engine contract.  The tracker maps
\* to current(), the buffer to the mode.
Engine == INSTANCE EngineSpec WITH
  Tags <- CatalogTypes,
  Initial <- Catalog[1],
  table <- transition,
  NoTransition <- Null,
  Failing <- Throwing,
  None <- Empty,
  mode <- IF ~alive THEN "uninitialized"
          ELSE IF cell = Empty THEN "faulted" ELSE "active",
  current <- IF active < N THEN TypeOf(active) ELSE Empty

\* singular_machine refines the engine contract EngineSpec.
EngineRefinement == Engine!Spec

\* An event with no table row for the state ctx_.active names is ignored by
\* react (spec.md §4.4, §8): no helper runs and nothing changes.
UnhandledEventIgnored ==
  [][ \A e \in Events :
        (/\ alive /\ active < N
         /\ transition[TypeOf(active), e] = Null
         /\ call'.op = "react" /\ call'.event = e)
        => (hooks' = << >> /\ UNCHANGED <<active, cell>>)
    ]_vars

\* A constructor that throws leaves no tag pointing at dead bytes: once the
\* buffer is empty on a live machine, ctx_.active names no state (spec.md §7
\* requires a Faulted state instead of a stale tag).
NoTagOverEmptyBuffer ==
  (alive /\ cell = Empty) => active = N

\* Every value constructed in the buffer fits it: its size is at most the
\* buffer's and its alignment divides the buffer's (spec.md §4.3).
StorageFits ==
  \A i \in DOMAIN hooks :
    hooks[i].hook = "construct" =>
      /\ Size[hooks[i].type] <= BufferSize
      /\ BufferAlign % Align[hooks[i].type] = 0


=============================================================================
