-------------------------- MODULE MCSingularMachine --------------------------
(***************************************************************************)
(* Instances of singular_machine for TLC.                                  *)
(*                                                                         *)
(* JobCatalog/JobTables: singular_machine<Idle, Running, Paused, Stopped,  *)
(* Failed> with one fixed specialisation of the transition traits, which   *)
(* includes spec.md §8's scenario (Idle -Start-> Running -Finish->         *)
(* Stopped), rows out of the last catalog state (the only one react can    *)
(* take right after construction) and rows into a type outside the        *)
(* catalog.                                                               *)
(*                                                                         *)
(* SmallCatalog/SmallTables: singular_machine<Idle, Running, Stopped> with *)
(* every specialisation over two events, targets in or outside the catalog.*)
(***************************************************************************)
EXTENDS SingularMachine

CONSTANTS Idle, Running, Paused, Stopped, Failed, Outside,
          Start, Pause, Resume, Finish, Reset, Abort

JobCatalog == << Idle, Running, Paused, Stopped, Failed >>

\* transition<State, Event>::next, null unless specialised
JobTransition ==
  [p \in Range(JobCatalog) \X Events |->
     CASE p = <<Idle, Start>>     -> Running
       [] p = <<Idle, Pause>>     -> Paused
       [] p = <<Idle, Abort>>     -> Outside
       [] p = <<Running, Pause>>  -> Paused
       [] p = <<Running, Finish>> -> Stopped
       [] p = <<Running, Reset>>  -> Idle
       [] p = <<Running, Abort>>  -> Outside
       [] p = <<Paused, Resume>>  -> Running
       [] p = <<Paused, Finish>>  -> Stopped
       [] p = <<Paused, Reset>>   -> Idle
       [] p = <<Stopped, Reset>>  -> Idle
       [] p = <<Stopped, Start>>  -> Running
       [] p = <<Stopped, Abort>>  -> Failed
       [] p = <<Failed, Reset>>   -> Idle
       [] p = <<Failed, Start>>   -> Stopped
       [] OTHER                   -> Null]

JobTables == {JobTransition}

\* the same without the rows into Outside, for comparison with EngineSpec
JobTablesInCatalog ==
  {[p \in DOMAIN JobTransition |->
      IF JobTransition[p] = Outside THEN Null ELSE JobTransition[p]]}

SmallCatalog == << Idle, Running, Stopped >>

SmallTables ==
  [Range(SmallCatalog) \X Events -> {Idle, Running, Stopped, Outside, Null}]

\* Idle, Running and Paused acquire resources in their constructors and may throw
MCThrowing == {Idle, Running, Paused}

\* Running carries a 16-byte, 16-aligned member; the others are smaller
MCSize == [t \in Types |-> IF t = Running THEN 16 ELSE 8]
MCAlign == [t \in Types |-> IF t = Running THEN 16 ELSE 8]

=============================================================================
