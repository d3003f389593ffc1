------------------------------- MODULE ServerSearch -------------------------------
(***************************************************************************)
(* What Application (src/exercises/networking/ConnectionTest.cpp) promises *)
(* as it looks for a server, with the NP library, the MatchMaker's queues  *)
(* and the request ids hidden: after starting it searches; a search puts   *)
(* one query about a server in flight; the query gets one answer (the      *)
(* server is available, is not, or the request failed); an available      *)
(* server ends the search, any other answer may send it back to searching. *)
(* The library answers every query it was given.                           *)
(***************************************************************************)

VARIABLES
  app,     \* "starting", "searching", "querying" or "found"
  answer   \* the answer to the query in flight: "none" until it arrives

vars == <<app, answer>>

Answers == {"available", "unavailable", "error"}

Init == app = "starting" /\ answer = "none"

\* the search begins
Begin ==
  /\ app = "starting"
  /\ app' = "searching"
  /\ UNCHANGED answer

\* a query goes out; nothing is outstanding before it
Query ==
  /\ app = "searching" /\ answer = "none"
  /\ app' = "querying"
  /\ UNCHANGED answer

\* the query's one answer arrives
Answer ==
  /\ app = "querying" /\ answer = "none"
  /\ answer' \in Answers
  /\ UNCHANGED app

\* a server that is not available, or a failed query, sends the search on
Retry ==
  /\ app = "querying" /\ answer \in {"unavailable", "error"}
  /\ app' = "searching" /\ answer' = "none"

\* an available server ends the search
Accept ==
  /\ app = "querying" /\ answer = "available"
  /\ app' = "found"
  /\ UNCHANGED answer

\* once found, the answer is cleared
Close ==
  /\ app = "found"
  /\ answer' = "none"
  /\ UNCHANGED app

Next == Begin \/ Query \/ Answer \/ Retry \/ Accept \/ Close

\* what may happen, and in which order
SafetySpec == Init /\ [][Next]_vars

\* and every query is answered
Spec == Init /\ [][Next]_vars /\ WF_vars(Answer)

=============================================================================
