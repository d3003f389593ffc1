--------------------------- MODULE MCConnectionTest ---------------------------
(* Instantiation of ConnectionTest for TLC. *)
EXTENDS ConnectionTest

\* Application::Update calls TryGetServerInfo(server) with the default -1
AppIndices == {-1}

\* an empty list, usable lists, and one over TryGetServerInfo's 255 limit
MCServerCounts == {0, 1, 2, 255}

\* only usable lists
UsableCounts == {1, 2}

\* Manager::Initialize's `sec`
MCMaxTries == 10

\* fewer tries, for the liveness runs
ShortTries == 2

=============================================================================
